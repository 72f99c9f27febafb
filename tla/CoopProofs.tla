----------------------------- MODULE CoopProofs -----------------------------
(***************************************************************************)
(* Proofs about the cooperation backend, for any number of requests, code  *)
(* tokens, IdPs and accounts, whatever fails.                              *)
(***************************************************************************)
EXTENDS Coop, TLAPS, FiniteSetTheorems, SequenceTheorems

(***************************************************************************)
(* Type correctness.                                                       *)
(***************************************************************************)
(* A call at work has a code token at hand, and an answer to look at when  *)
(* it waits for one; only a call that is over has a status.                *)
Shape ==
    \A r \in Call :
        /\ pc[r] \in {"check", "send", "receive", "respond"} => n[r] \in 1 .. Len(req[r])
        /\ pc[r] = "receive" => resp[r] # None
        /\ pc[r] = "idle" => n[r] = 1
        /\ status[r] # 0 => pc[r] = "done"

TypeInv == TypeOK /\ Shape

(* The part of TypeOK about where calls are.                               *)
ControlOK ==
    /\ pc \in [Call -> {"idle", "check", "send", "receive", "respond", "done", "dead"}]
    /\ status \in [Call -> {0, 200, 400, 403, 500}]

(* It follows from TypeOK.                                                 *)
LEMMA ControlType == TypeOK => ControlOK
BY DEF TypeOK, ControlOK

(* A request is a sequence of code tokens.                                 *)
LEMMA RequestsAreSeqs == Requests \subseteq Seq(Token)
<1>1. \A k \in 0 .. MaxTokens : k \in Nat
  BY BoundAssumption
<1>2. QED BY <1>1, SeqDef DEF Requests

(* The code token at hand is one in circulation.                           *)
LEMMA AtType ==
    ASSUME TypeOK, NEW r \in Call, n[r] \in 1 .. Len(req[r])
    PROVE  At(r) \in Token
BY ElementOfSeq DEF TypeOK, At

(* Its fields have their types.                                            *)
LEMMA TokenType ==
    ASSUME NEW t \in Token
    PROVE  /\ t.idp \in Idp /\ t.cod \in Code /\ t.acntTags \subseteq Tag
           /\ t.acntTag \in Tag \cup {None}
           /\ TagsOf(t) \subseteq Tag
BY TokenAssumption, NoneAssumption DEF CodeToken, TagsOf

(* An IdP answers with a cooperation response.                             *)
LEMMA AnswersType ==
    ASSUME NEW t \in Token
    PROVE  Answers(t) \subseteq CoopResponse
<1>1. t.idp \in Idp /\ t.cod \in Code /\ FrTa[t.cod] \in Ta
  BY TokenType, FrTaAssumption
<1>2. [cod : {t.cod}, more : BOOLEAN] \subseteq Account
  BY <1>1 DEF Account
<1>3. [Tag -> [cod : {t.cod}, more : BOOLEAN] \cup {None}] \subseteq [Tag -> Account \cup {None}]
  BY <1>2
<1>4. Issuers(t.idp) \subseteq Idp
  BY <1>1 DEF Issuers
<1>5. QED BY <1>1, <1>3, <1>4 DEF Answers, CoopResponse

(* What a valid answer tells of a tag becomes attributes.                  *)
LEMMA AttributesType ==
    ASSUME TypeInv, NEW r \in Call, pc[r] = "receive", AnswerValid(r),
           NEW g \in TagsOf(At(r))
    PROVE  AttributesOf(r, g) \in Attributes
<1>1. At(r) \in Token /\ resp[r] \in CoopResponse
  BY AtType DEF TypeInv, TypeOK, Shape
<1>2. g \in Tag /\ At(r).idp \in Idp
  BY <1>1, TokenType
<1>3. resp[r].ids[g] \in Account
  BY <1>1, <1>2 DEF AnswerValid, CoopResponse
<1>4. QED BY <1>2, <1>3 DEF AttributesOf, Attributes, Account

(* The access token of a valid answer to a main token can be saved.        *)
LEMMA NewTokenType ==
    ASSUME TypeInv, NEW r \in Call, pc[r] = "receive", AnswerValid(r), IsMain(At(r))
    PROVE  NewToken(r) \in SavedToken
<1>1. resp[r] \in CoopResponse
  BY DEF TypeInv, TypeOK, Shape
<1>2. QED BY <1>1 DEF NewToken, SavedToken, AnswerValid, CoopResponse

(* Initially.                                                              *)
LEMMA TypeInit == Init => TypeInv
<1>1. <<>> \in Seq(Token)
  BY EmptySeq
<1>2. QED BY <1>1, BoundAssumption DEF Init, TypeInv, TypeOK, Shape, NoUsers

(* The sender only picks a request.                                        *)
LEMMA ReceiveRequestType ==
    ASSUME TypeInv, NEW r \in Call, NEW s \in Requests, ReceiveRequest(r, s)
    PROVE  TypeInv'
<1>1. s \in Seq(Token)
  BY RequestsAreSeqs
<1>2. TypeOK'
  <2>1. req' \in [Call -> Seq(Token)]
    BY <1>1 DEF TypeInv, TypeOK, ReceiveRequest
  <2>2. ControlOK'
    <3>1. ControlOK
      BY ControlType DEF TypeInv
    <3>2. QED BY <3>1 DEF ControlOK, ReceiveRequest, Goto, Refuse
  <2>3. UNCHANGED <<idpDb, spentBy, tokDb, n, resp, main, users, frTa, sess>>
    BY DEF ReceiveRequest, shared
  <2>4. QED BY <2>1, <2>2, <2>3 DEF TypeInv, TypeOK, ControlOK
<1>3. s # <<>> => 1 \in 1 .. Len(s)
  BY <1>1, EmptySeq
<1>4. Shape'
  BY <1>3 DEF TypeInv, TypeOK, Shape, ReceiveRequest, Goto, Refuse
<1>5. QED BY <1>2, <1>4 DEF TypeInv

(* A turn of the first loop.                                               *)
LEMMA CheckTokenType ==
    ASSUME TypeInv, NEW r \in Call, CheckToken(r)
    PROVE  TypeInv'
<1>1. Len(req[r]) \in Nat /\ n[r] \in 1 .. Len(req[r])
  BY LenProperties DEF TypeInv, TypeOK, Shape, CheckToken
<1>2. TypeOK'
  <2>1. ControlOK'
    <3>1. ControlOK
      BY ControlType DEF TypeInv
    <3>2. QED BY <3>1 DEF ControlOK, CheckToken, Goto, Refuse
  <2>2. n' \in [Call -> Nat]
    <3>1. n \in [Call -> Nat]
      BY DEF TypeInv, TypeOK
    <3>2. n' = n \/ n' = [n EXCEPT ![r] = @ + 1] \/ n' = [n EXCEPT ![r] = 1]
      BY DEF CheckToken
    <3>3. QED BY <3>1, <3>2
  <2>3. UNCHANGED <<idpDb, spentBy, tokDb, req, resp, main, users, frTa, sess>>
    BY DEF CheckToken, shared
  <2>4. QED BY <2>1, <2>2, <2>3 DEF TypeInv, TypeOK, ControlOK
<1>3. Shape'
  BY <1>1 DEF TypeInv, TypeOK, Shape, CheckToken, Goto, Refuse, More
<1>4. QED BY <1>2, <1>3 DEF TypeInv

(* An exchange.                                                            *)
LEMMA CoopToType ==
    ASSUME TypeInv, NEW r \in Call, CoopTo(r)
    PROVE  TypeInv'
<1>1. At(r) \in Token /\ At(r).cod \in Code
  BY AtType, TokenType DEF TypeInv, Shape, CoopTo
<1>2. spentBy' \in [Code -> Call \cup {None}]
  <2>1. spentBy' \in {spentBy, [spentBy EXCEPT ![At(r).cod] = r]}
    BY Zenon DEF CoopTo
  <2>2. spentBy \in [Code -> Call \cup {None}]
    BY DEF TypeInv, TypeOK
  <2>3. QED BY <1>1, <2>1, <2>2
<1>3. resp' \in [Call -> CoopResponse \cup {None}]
  <2>1. resp' = resp \/ \E a \in Answers(At(r)) : resp' = [resp EXCEPT ![r] = a]
    BY Zenon DEF CoopTo
  <2>2. resp \in [Call -> CoopResponse \cup {None}]
    BY DEF TypeInv, TypeOK
  <2>3. QED BY <1>1, <2>1, <2>2, AnswersType
<1>4. TypeOK'
  <2>1. ControlOK'
    BY ControlType DEF TypeInv, ControlOK, CoopTo, Goto, Refuse
  <2>2. UNCHANGED <<idpDb, tokDb, req, n, main, users, frTa, sess>>
    BY DEF CoopTo
  <2>3. QED BY <1>2, <1>3, <2>1, <2>2 DEF TypeInv, TypeOK, ControlOK
<1>5. pc'[r] = "receive" => resp'[r] # None
  BY <1>1, AnswersType, RecordAssumption DEF TypeInv, TypeOK, CoopTo, Goto, Refuse
<1>6. \A q \in Call \ {r} : resp'[q] = resp[q] /\ pc'[q] = pc[q] /\ status'[q] = status[q]
  BY DEF TypeInv, TypeOK, CoopTo, Goto, Refuse
<1>7. pc'[r] \in {"receive", "done"} /\ (status'[r] # 0 => pc'[r] = "done")
  BY DEF TypeInv, TypeOK, Shape, CoopTo, Goto, Refuse
<1>8. Shape'
  BY <1>5, <1>6, <1>7 DEF TypeInv, Shape, CoopTo
<1>9. QED BY <1>4, <1>8 DEF TypeInv

(* A turn of the second loop ends in the next one, in the answer or in an  *)
(* error.                                                                  *)
LEMMA ReceiveTurns ==
    ASSUME NEW r \in Call, Receive(r)
    PROVE  \/ /\ SameFromTa(r) /\ frTa' = [frTa EXCEPT ![r] = resp[r].frTa]
              /\ IF More(r)
                 THEN n' = [n EXCEPT ![r] = @ + 1] /\ Goto(r, "send")
                 ELSE Goto(r, "respond") /\ UNCHANGED n
              /\ UNCHANGED status
           \/ UNCHANGED n /\ (Refuse(r, 400) \/ Refuse(r, 403) \/ Refuse(r, 500))
<1>1. \/ /\ SameFromTa(r) /\ frTa' = [frTa EXCEPT ![r] = resp[r].frTa]
         /\ IF More(r)
            THEN n' = [n EXCEPT ![r] = @ + 1] /\ Goto(r, "send")
            ELSE Goto(r, "respond") /\ UNCHANGED n
         /\ UNCHANGED status
      \/ UNCHANGED <<frTa, n>> /\ Refuse(r, 500)
      \/ UNCHANGED <<frTa, n>> /\ Refuse(r, 403)
      \/ UNCHANGED <<frTa, n>> /\ Refuse(r, 400)
  BY Zenon DEF Receive
<1>2. QED BY <1>1

(* A turn of the second loop after the answer.                             *)
LEMMA ReceiveType ==
    ASSUME TypeInv, NEW r \in Call, Receive(r)
    PROVE  TypeInv'
<1>1. pc[r] = "receive" /\ At(r) \in Token
  BY AtType DEF TypeInv, Shape, Receive
<1>2. Len(req[r]) \in Nat /\ n[r] \in 1 .. Len(req[r])
  BY <1>1, LenProperties DEF TypeInv, TypeOK, Shape
<1>3. UNCHANGED <<idpDb, spentBy, req, resp, sess>>
  BY DEF Receive
<1>4. tokDb' \in [Call -> SavedToken \cup {None}]
  <2>1. tokDb \in [Call -> SavedToken \cup {None}]
    BY DEF TypeInv, TypeOK
  <2>2. \/ tokDb' = tokDb
        \/ AnswerValid(r) /\ IsMain(At(r)) /\ tokDb' = [tokDb EXCEPT ![r] = NewToken(r)]
    BY Zenon DEF Receive
  <2>3. QED BY <1>1, <2>1, <2>2, NewTokenType
<1>5. main' \in [Call -> Attributes \cup {None}]
  <2>1. main \in [Call -> Attributes \cup {None}]
    BY DEF TypeInv, TypeOK
  <2>2. \/ main' = main
        \/ /\ AnswerValid(r) /\ MainTag(req[r]) \in TagsOf(At(r))
           /\ main' = [main EXCEPT ![r] = AttributesOf(r, MainTag(req[r]))]
    BY Zenon DEF Receive, Merge
  <2>3. QED BY <1>1, <2>1, <2>2, AttributesType
<1>6. users' \in [Call -> [Tag -> Attributes \cup {None}]]
  <2>1. users \in [Call -> [Tag -> Attributes \cup {None}]]
    BY DEF TypeInv, TypeOK
  <2>2. CASE users' = users
    BY <2>1, <2>2
  <2>3. CASE AnswerValid(r) /\ Merge(r)
    <3>1. \A h \in TagsOf(At(r)) : AttributesOf(r, h) \in Attributes
      BY <1>1, <2>3, AttributesType
    <3>2. QED BY <2>1, <2>3, <3>1 DEF Merge
  <2>4. QED BY <2>2, <2>3, Zenon DEF Receive
<1>7. frTa' \in [Call -> Ta \cup {None}]
  <2>1. frTa \in [Call -> Ta \cup {None}] /\ resp[r] \in CoopResponse
    BY <1>1 DEF TypeInv, TypeOK, Shape
  <2>2. frTa' = frTa \/ frTa' = [frTa EXCEPT ![r] = resp[r].frTa]
    BY Zenon DEF Receive
  <2>3. QED BY <2>1, <2>2 DEF CoopResponse
<1>8. ControlOK /\ n \in [Call -> Nat]
  BY ControlType DEF TypeInv, TypeOK
<1>9. \/ /\ More(r)
         /\ n' = [n EXCEPT ![r] = @ + 1]
         /\ Goto(r, "send") /\ status' = status
      \/ n' = n /\ Goto(r, "respond") /\ status' = status
      \/ n' = n /\ (Refuse(r, 400) \/ Refuse(r, 403) \/ Refuse(r, 500))
  BY ReceiveTurns
<1>10. ControlOK' /\ n' \in [Call -> Nat]
  BY <1>8, <1>9 DEF ControlOK, Goto, Refuse
<1>11. TypeOK'
  BY <1>3, <1>4, <1>5, <1>6, <1>7, <1>10 DEF TypeInv, TypeOK, ControlOK
<1>12. Shape'
  <2>1. /\ n'[r] \in 1 .. Len(req[r])
        /\ pc'[r] \in {"send", "respond", "done"}
        /\ status'[r] # 0 => pc'[r] = "done"
    BY <1>1, <1>2, <1>8, <1>9 DEF ControlOK, Goto, Refuse, More, TypeInv, Shape
  <2>2. \A q \in Call \ {r} : pc'[q] = pc[q] /\ n'[q] = n[q] /\ status'[q] = status[q]
    BY <1>8, <1>9 DEF ControlOK, Goto, Refuse
  <2>3. QED BY <1>3, <2>1, <2>2 DEF TypeInv, Shape
<1>13. QED BY <1>11, <1>12 DEF TypeInv

(* The answer.                                                             *)
LEMMA RespondType ==
    ASSUME TypeInv, NEW r \in Call, Respond(r)
    PROVE  TypeInv'
<1>1. ControlOK /\ sess \in [Call -> BOOLEAN]
  BY ControlType DEF TypeInv, TypeOK
<1>2. ControlOK'
  BY <1>1 DEF ControlOK, Respond, Goto
<1>3. SessionEnabled(r) \in BOOLEAN
  BY Zenon DEF SessionEnabled
<1>4. sess' \in [Call -> BOOLEAN]
  BY <1>1, <1>3 DEF Respond
<1>5. UNCHANGED <<idpDb, spentBy, tokDb, req, n, resp, main, users, frTa>>
  BY DEF Respond, shared
<1>6. TypeOK'
  BY <1>2, <1>4, <1>5 DEF TypeInv, TypeOK, ControlOK
<1>7. pc'[r] = "done" /\ \A q \in Call \ {r} : pc'[q] = pc[q] /\ status'[q] = status[q]
  BY <1>1 DEF ControlOK, Respond, Goto
<1>8. Shape'
  BY <1>5, <1>7 DEF TypeInv, Shape
<1>9. QED BY <1>6, <1>8 DEF TypeInv

(* A restart, and the synchronisation.                                     *)
LEMMA OutsideType ==
    ASSUME TypeInv, Crash \/ \E i \in Idp : SyncIdp(i)
    PROVE  TypeInv'
<1>1. CASE Crash
  <2>1. UNCHANGED <<idpDb, spentBy, req, n, resp, main, users, frTa, sess, status>>
    BY <1>1 DEF Crash, local
  <2>2. tokDb' \in [Call -> SavedToken \cup {None}]
    BY <1>1 DEF Crash, TypeInv, TypeOK
  <2>3. pc' = [r \in Call |-> IF r \in inFlight THEN "dead" ELSE pc[r]]
    BY <1>1 DEF Crash
  <2>4. ControlOK
    BY ControlType DEF TypeInv
  <2>5. ControlOK' /\ \A r \in Call : pc'[r] \in {"dead", pc[r]} /\ (pc[r] = "done" => pc'[r] = "done")
    BY <2>1, <2>3, <2>4 DEF ControlOK, inFlight
  <2>6. TypeOK'
    BY <2>1, <2>2, <2>5 DEF TypeInv, TypeOK, ControlOK
  <2>7. Shape'
    BY <2>1, <2>5 DEF TypeInv, Shape
  <2>8. QED BY <2>6, <2>7 DEF TypeInv
<1>2. CASE \E i \in Idp : SyncIdp(i)
  <2>1. UNCHANGED <<spentBy, tokDb, local, pc, status>> /\ idpDb' \in SUBSET Idp
    BY <1>2 DEF SyncIdp, TypeInv, TypeOK
  <2>2. QED BY <2>1 DEF TypeInv, TypeOK, Shape, local
<1>3. QED BY <1>1, <1>2

(* Every step keeps the types and the shape.                               *)
LEMMA TypeStep == TypeInv /\ [Next]_vars => TypeInv'
<1> SUFFICES ASSUME TypeInv, [Next]_vars PROVE TypeInv'
  OBVIOUS
<1>1. ASSUME NEW r \in Call, NEW s \in Requests, ReceiveRequest(r, s) PROVE TypeInv'
  BY <1>1, ReceiveRequestType
<1>2. ASSUME NEW r \in Call, ServeHTTP(r) PROVE TypeInv'
  BY <1>2, CheckTokenType, CoopToType, ReceiveType, RespondType DEF ServeHTTP
<1>3. CASE Crash \/ \E i \in Idp : SyncIdp(i)
  BY <1>3, OutsideType
<1>4. CASE UNCHANGED vars
  BY <1>4 DEF TypeInv, TypeOK, Shape, vars, shared, local
<1>5. QED BY <1>1, <1>2, <1>3, <1>4 DEF Next

(* Type correctness of the cooperation backend.                            *)
THEOREM TypeCorrect == Spec => []TypeOK
<1>1. Spec => []TypeInv
  BY TypeInit, TypeStep, PTL DEF Spec
<1>2. QED BY <1>1, PTL DEF TypeInv

(* Where the sender, the loops and an exchange lead to.                    *)
LEMMA ReceiveRequestGoes ==
    ASSUME TypeInv, NEW r \in Call, NEW s \in Requests, ReceiveRequest(r, s)
    PROVE  pc'[r] \in {"check", "done"} /\ status'[r] # 200 /\ n'[r] = 1
<1>1. ControlOK /\ status[r] = 0 /\ n'[r] = 1
  BY ControlType DEF TypeInv, Shape, ControlOK, ReceiveRequest
<1>2. (Goto(r, "check") /\ UNCHANGED status) \/ Refuse(r, 400)
  BY Zenon DEF ReceiveRequest
<1>3. QED BY <1>1, <1>2 DEF ControlOK, Goto, Refuse

(* Where a turn of the first loop leads, and what it leaves alone.         *)
LEMMA CheckTokenGoes ==
    ASSUME TypeInv, NEW r \in Call, CheckToken(r)
    PROVE  /\ UNCHANGED req /\ status'[r] # 200
           /\ pc'[r] \in {"check", "done"} \/ (pc'[r] = "send" /\ n'[r] = 1)
<1>1. ControlOK /\ n \in [Call -> Nat] /\ pc[r] = "check" /\ UNCHANGED req
  BY ControlType DEF TypeInv, TypeOK, CheckToken
<1>2. status[r] = 0
  BY <1>1 DEF TypeInv, Shape, ControlOK
<1>3. \/ UNCHANGED <<pc, status>>
      \/ Goto(r, "send") /\ n' = [n EXCEPT ![r] = 1] /\ UNCHANGED status
      \/ Refuse(r, 400) \/ Refuse(r, 500)
  BY Zenon DEF CheckToken
<1>4. QED BY <1>1, <1>2, <1>3 DEF ControlOK, Goto, Refuse

(* Where a request to an IdP leads, and what it leaves alone.              *)
LEMMA CoopToGoes ==
    ASSUME TypeInv, NEW r \in Call, CoopTo(r)
    PROVE  /\ UNCHANGED <<n, req, frTa>> /\ pc[r] = "send" /\ n[r] \in 1 .. Len(req[r])
           /\ status'[r] # 200
           /\ \/ pc'[r] = "done"
              \/ /\ pc'[r] = "receive"
                 /\ spentBy' = [spentBy EXCEPT ![At(r).cod] = r]
                 /\ \E a \in Answers(At(r)) : resp' = [resp EXCEPT ![r] = a]
<1>1. ControlOK /\ pc[r] = "send" /\ UNCHANGED <<n, req, frTa>>
  BY ControlType DEF TypeInv, CoopTo
<1>2. status[r] = 0 /\ n[r] \in 1 .. Len(req[r])
  BY <1>1 DEF TypeInv, Shape, ControlOK
<1>3. \/ Refuse(r, 400) \/ Refuse(r, 500)
      \/ /\ Goto(r, "receive") /\ UNCHANGED status
         /\ spentBy' = [spentBy EXCEPT ![At(r).cod] = r]
         /\ \E a \in Answers(At(r)) : resp' = [resp EXCEPT ![r] = a]
  BY Zenon DEF CoopTo
<1>4. QED BY <1>1, <1>2, <1>3 DEF ControlOK, Goto, Refuse

(* Where the answer of an IdP leads, and what it leaves alone.             *)
LEMMA ReceiveGoes ==
    ASSUME TypeInv, NEW r \in Call, Receive(r)
    PROVE  /\ UNCHANGED req /\ pc[r] = "receive" /\ n[r] \in 1 .. Len(req[r])
           /\ status'[r] # 200
           /\ \/ pc'[r] = "done"
              \/ /\ SameFromTa(r) /\ frTa' = [frTa EXCEPT ![r] = resp[r].frTa]
                 /\ \/ pc'[r] = "send" /\ n'[r] = n[r] + 1
                    \/ pc'[r] = "respond" /\ n[r] = Len(req[r])
<1>1. ControlOK /\ n \in [Call -> Nat] /\ pc[r] = "receive" /\ UNCHANGED req
  BY ControlType DEF TypeInv, TypeOK, Receive
<1>2. status[r] = 0 /\ Len(req[r]) \in Nat /\ n[r] \in 1 .. Len(req[r])
  BY <1>1, LenProperties DEF TypeInv, TypeOK, Shape, ControlOK
<1>3. CASE UNCHANGED n /\ (Refuse(r, 400) \/ Refuse(r, 403) \/ Refuse(r, 500))
  BY <1>1, <1>2, <1>3 DEF ControlOK, Goto, Refuse
<1>4. CASE /\ SameFromTa(r) /\ frTa' = [frTa EXCEPT ![r] = resp[r].frTa]
           /\ IF More(r)
              THEN n' = [n EXCEPT ![r] = @ + 1] /\ Goto(r, "send")
              ELSE Goto(r, "respond") /\ UNCHANGED n
           /\ UNCHANGED status
  <2>1. CASE More(r)
    BY <1>1, <1>2, <1>4, <2>1 DEF ControlOK, Goto
  <2>2. CASE ~More(r)
    <3>1. n[r] = Len(req[r])
      BY <1>2, <2>2 DEF More
    <3>2. QED BY <1>1, <1>2, <1>4, <2>2, <3>1 DEF ControlOK, Goto
  <2>3. QED BY <2>1, <2>2
<1>5. QED BY <1>3, <1>4, ReceiveTurns

(***************************************************************************)
(* Answered in full.                                                       *)
(***************************************************************************)
(* The first k codes of a call were exchanged by that call.                *)
Exchanged(r, k) == \A i \in 1 .. k : spentBy[req[r][i].cod] = r

(* Codes are exchanged in the order of the request, each before the next   *)
(* is sent, and none is passed over.                                       *)
InOrder(r) ==
    /\ pc[r] = "send" => Exchanged(r, n[r] - 1)
    /\ pc[r] = "receive" => Exchanged(r, n[r])
    /\ pc[r] = "respond" \/ status[r] = 200 => Exchanged(r, Len(req[r]))

OrderInv == TypeInv /\ \A r \in Call : InOrder(r)

(* An exchanged code stays with the call that exchanged it.                *)
LEMMA SpentStays ==
    ASSUME TypeInv, [Next]_vars, NEW c \in Code, spentBy[c] # None
    PROVE  spentBy'[c] = spentBy[c]
<1>1. ASSUME NEW r \in Call, CoopTo(r) PROVE spentBy'[c] = spentBy[c]
  <2>1. spentBy \in [Code -> Call \cup {None}]
    BY DEF TypeInv, TypeOK
  <2>2. spentBy' = spentBy \/ (spentBy[At(r).cod] = None /\ spentBy' = [spentBy EXCEPT ![At(r).cod] = r])
    BY <1>1 DEF CoopTo
  <2>3. QED BY <2>1, <2>2
<1>2. UNCHANGED spentBy \/ \E r \in Call : CoopTo(r)
  BY DEF Next, vars, shared, ReceiveRequest, ServeHTTP, CheckToken, Receive, Respond, SyncIdp, Crash
<1>3. QED BY <1>1, <1>2

(* So do the first k codes of a call.                                      *)
LEMMA ExchangedStays ==
    ASSUME TypeInv, [Next]_vars, NEW r \in Call, NEW k \in 0 .. Len(req[r]),
           Exchanged(r, k)
    PROVE  \A i \in 1 .. k : spentBy'[req[r][i].cod] = r
<1> SUFFICES ASSUME NEW i \in 1 .. k PROVE spentBy'[req[r][i].cod] = r
  OBVIOUS
<1>1. req[r][i] \in Token
  BY ElementOfSeq, LenProperties DEF TypeInv, TypeOK
<1>2. req[r][i].cod \in Code
  BY <1>1, TokenType
<1>3. spentBy[req[r][i].cod] = r /\ r # None
  BY NoneAssumption DEF Exchanged
<1>4. QED BY <1>2, <1>3, SpentStays

(* A step of a call leaves the others where they are.                      *)
LEMMA Elsewhere ==
    ASSUME TypeInv, NEW r \in Call, NEW q \in Call \ {r},
           ServeHTTP(r) \/ \E s \in Requests : ReceiveRequest(r, s)
    PROVE  UNCHANGED <<pc[q], n[q], req[q], status[q]>>
<1>1. ControlOK /\ n \in [Call -> Nat]
  BY ControlType DEF TypeInv, TypeOK
<1>2. UNCHANGED <<pc[q], status[q]>>
  <2>1. UNCHANGED pc \/ \E l : pc' = [pc EXCEPT ![r] = l]
    BY Zenon DEF ServeHTTP, ReceiveRequest, CheckToken, CoopTo, Receive, Respond, Goto, Refuse
  <2>2. UNCHANGED status \/ \E st : status' = [status EXCEPT ![r] = st]
    <3>1. UNCHANGED status \/ Respond(r) \/ Refuse(r, 400) \/ Refuse(r, 403) \/ Refuse(r, 500)
      BY Zenon DEF ServeHTTP, ReceiveRequest, CheckToken, CoopTo, Receive
    <3>2. QED BY <3>1 DEF Respond, Refuse
  <2>3. QED BY <1>1, <2>1, <2>2 DEF ControlOK
<1>3. n[q]' = n[q]
  <2>1. UNCHANGED n \/ \E k : n' = [n EXCEPT ![r] = k]
    BY Zenon DEF ServeHTTP, ReceiveRequest, CheckToken, CoopTo, Receive, Respond
  <2>2. QED BY <1>1, <2>1
<1>4. req[q]' = req[q]
  <2>1. UNCHANGED req \/ \E s : req' = [req EXCEPT ![r] = s]
    BY Zenon DEF ServeHTTP, ReceiveRequest, CheckToken, CoopTo, Receive, Respond
  <2>2. req \in [Call -> Seq(Token)]
    BY DEF TypeInv, TypeOK
  <2>3. QED BY <2>1, <2>2
<1>5. QED BY <1>2, <1>3, <1>4

(* So a step of r keeps what is known of the others.                       *)
LEMMA OrderElsewhere ==
    ASSUME OrderInv, [Next]_vars, NEW q \in Call,
           UNCHANGED <<n[q], req[q], status[q]>>,
           pc'[q] \in {pc[q], "dead"}
    PROVE  InOrder(q)'
<1>1. TypeInv /\ Len(req[q]) \in Nat
  BY LenProperties DEF OrderInv, TypeInv, TypeOK
<1>2. \A k \in 0 .. Len(req[q]) : Exchanged(q, k) =>
          \A i \in 1 .. k : spentBy'[req[q][i].cod] = q
  BY <1>1, ExchangedStays
<1>3. InOrder(q) /\ (pc[q] \in {"send", "receive"} => n[q] \in 1 .. Len(req[q]))
  BY DEF OrderInv, TypeInv, Shape
<1>4. CASE pc'[q] = "send"
  BY <1>1, <1>2, <1>3, <1>4 DEF InOrder, Exchanged
<1>5. CASE pc'[q] = "receive"
  BY <1>1, <1>2, <1>3, <1>5 DEF InOrder, Exchanged
<1>6. CASE pc'[q] = "respond" \/ status'[q] = 200
  BY <1>1, <1>2, <1>3, <1>6 DEF InOrder, Exchanged
<1>7. QED BY <1>4, <1>5, <1>6 DEF InOrder, Exchanged

(* The call that takes the step: its first codes stay exchanged, and it    *)
(* goes on to the next only after it exchanged the one at hand.            *)
LEMMA OrderHere ==
    ASSUME OrderInv, [Next]_vars, NEW r \in Call,
           ServeHTTP(r) \/ \E s \in Requests : ReceiveRequest(r, s)
    PROVE  InOrder(r)'
<1>1. TypeInv /\ ControlOK /\ n \in [Call -> Nat] /\ Len(req[r]) \in Nat
  BY LenProperties, ControlType DEF OrderInv, TypeInv, TypeOK
<1>2. \A k \in 0 .. Len(req[r]) : Exchanged(r, k) =>
          \A i \in 1 .. k : spentBy'[req[r][i].cod] = r
  BY <1>1, ExchangedStays
<1>3. CASE \E s \in Requests : ReceiveRequest(r, s)
  <2>1. pc'[r] \in {"check", "done"} /\ status'[r] # 200
    BY <1>1, <1>3, ReceiveRequestGoes
  <2>2. QED BY <2>1 DEF InOrder
<1>4. CASE CheckToken(r)
  <2>1. status'[r] # 200 /\ (\/ pc'[r] \in {"check", "done"}
                             \/ pc'[r] = "send" /\ n'[r] = 1)
    BY <1>1, <1>4, CheckTokenGoes
  <2>2. QED BY <2>1 DEF InOrder, Exchanged
<1>5. CASE CoopTo(r)
  <2>1. UNCHANGED <<n, req>> /\ status'[r] # 200 /\ n[r] \in 1 .. Len(req[r]) /\ pc[r] = "send"
    BY <1>1, <1>5, CoopToGoes
  <2>2. \/ pc'[r] = "done"
        \/ pc'[r] = "receive" /\ spentBy' = [spentBy EXCEPT ![At(r).cod] = r]
    BY <1>1, <1>5, CoopToGoes
  <2>3. CASE pc'[r] = "receive"
    <3>1. \A i \in 1 .. n[r] - 1 : spentBy'[req[r][i].cod] = r
      BY <1>1, <1>2, <2>1 DEF OrderInv, InOrder
    <3>2. spentBy'[At(r).cod] = r
      BY <1>1, <2>1, <2>2, <2>3, AtType, TokenType DEF TypeInv, TypeOK
    <3>3. Exchanged(r, n[r])'
      BY <2>1, <3>1, <3>2 DEF Exchanged, At
    <3>4. QED BY <2>1, <2>3, <3>3 DEF InOrder
  <2>4. QED BY <2>1, <2>2, <2>3 DEF InOrder
<1>6. CASE Receive(r)
  <2>1. pc[r] = "receive" /\ UNCHANGED req /\ n[r] \in 1 .. Len(req[r])
    BY <1>1, <1>6, ReceiveGoes
  <2>2. \A i \in 1 .. n[r] : spentBy'[req[r][i].cod] = r
    BY <1>1, <1>2, <2>1 DEF OrderInv, InOrder
  <2>3. /\ status'[r] # 200
        /\ \/ pc'[r] = "send" /\ n'[r] = n[r] + 1
           \/ pc'[r] = "respond" /\ n[r] = Len(req[r])
           \/ pc'[r] = "done"
    BY <1>1, <1>6, ReceiveGoes
  <2>4. QED BY <1>1, <2>1, <2>2, <2>3 DEF InOrder, Exchanged
<1>7. CASE Respond(r)
  <2>1. pc[r] = "respond" /\ UNCHANGED req /\ pc'[r] = "done"
    BY <1>1, <1>7 DEF ControlOK, Respond, Goto
  <2>2. QED BY <1>1, <1>2, <2>1 DEF OrderInv, InOrder, Exchanged
<1>8. QED BY <1>3, <1>4, <1>5, <1>6, <1>7 DEF ServeHTTP

(* Initially.                                                              *)
LEMMA OrderInit == Init => OrderInv
<1>1. Init => TypeInv
  BY TypeInit
<1>2. Init => \A r \in Call : InOrder(r)
  BY DEF Init, InOrder
<1>3. QED BY <1>1, <1>2 DEF OrderInv

(* Every step keeps the order.                                             *)
LEMMA OrderStep == OrderInv /\ [Next]_vars => OrderInv'
<1> SUFFICES ASSUME OrderInv, [Next]_vars PROVE OrderInv'
  OBVIOUS
<1>1. TypeInv /\ TypeInv'
  BY TypeStep DEF OrderInv
<1> SUFFICES ASSUME NEW q \in Call PROVE InOrder(q)'
  BY <1>1 DEF OrderInv
<1>2. ASSUME NEW r \in Call, ServeHTTP(r) \/ \E s \in Requests : ReceiveRequest(r, s)
      PROVE  InOrder(q)'
  <2>1. CASE r = q
    BY <1>2, <2>1, OrderHere
  <2>2. CASE r # q
    <3>1. UNCHANGED <<pc[q], n[q], req[q], status[q]>>
      BY <1>1, <1>2, <2>2, Elsewhere
    <3>2. QED BY <3>1, OrderElsewhere
  <2>3. QED BY <2>1, <2>2
<1>3. CASE Crash
  <2>1. pc'[q] \in {pc[q], "dead"} /\ UNCHANGED <<n[q], req[q], status[q]>>
    BY <1>3 DEF Crash, local
  <2>2. QED BY <2>1, OrderElsewhere
<1>4. CASE UNCHANGED vars \/ \E i \in Idp : SyncIdp(i)
  <2>1. pc'[q] \in {pc[q], "dead"} /\ UNCHANGED <<n[q], req[q], status[q]>>
    BY <1>4 DEF SyncIdp, vars, local
  <2>2. QED BY <2>1, OrderElsewhere
<1>5. QED BY <1>2, <1>3, <1>4 DEF Next

(* A request is answered with accounts only by the call that exchanged all *)
(* of its codes itself.                                                    *)
THEOREM InFull == Spec => []AnsweredInFull
<1>1. OrderInv => AnsweredInFull
  <2> SUFFICES ASSUME OrderInv, NEW r \in Call, status[r] = 200, NEW t \in TokensOf(r)
               PROVE  spentBy[t.cod] = r
    BY DEF AnsweredInFull
  <2>1. Exchanged(r, Len(req[r]))
    BY DEF OrderInv, InOrder
  <2>2. QED BY <2>1 DEF Exchanged, TokensOf
<1>2. QED BY <1>1, OrderInit, OrderStep, PTL DEF Spec

(***************************************************************************)
(* Sent together.                                                          *)
(***************************************************************************)
(* What the first loop has established of the first k code tokens.         *)
Vetted(s, k) ==
    \A i \in 1 .. k :
        /\ s[i].aud /\ Verifies(s[i])
        /\ Len(s) > 1 => s[i].refHash # None
        /\ \A j \in 1 .. i - 1 :
               /\ ~(IsMain(s[i]) /\ IsMain(s[j]))
               /\ s[i].refHash = s[j].refHash
               /\ s[i].acntTags \cap s[j].acntTags = {}

WhollyVetted(s) == Vetted(s, Len(s)) /\ HasMain(s)

VettedFirst(r) ==
    /\ pc[r] = "check" => Vetted(req[r], n[r] - 1)
    /\ pc[r] \in {"send", "receive", "respond"} => WhollyVetted(req[r])

(* A code that left was in a request vetted as a whole.                    *)
SentVetted ==
    \A c \in Code : spentBy[c] # None =>
        WhollyVetted(req[spentBy[c]]) /\ pc[spentBy[c]] # "idle"

VettedInv == TypeInv /\ SentVetted /\ \A r \in Call : VettedFirst(r)

(* One turn of the first loop vets one code token more.                    *)
LEMMA VetsOneMore ==
    ASSUME TypeInv, NEW r \in Call, pc[r] = "check", Vetted(req[r], n[r] - 1),
           Acceptable(r), Verifies(At(r))
    PROVE  Vetted(req[r], n[r])
<1> DEFINE s == req[r]
           m == n[r]
<1>1. s \in Seq(Token) /\ Len(s) \in Nat /\ m \in 1 .. Len(s)
  BY LenProperties DEF TypeInv, TypeOK, Shape
<1>2. s[m].aud /\ Verifies(s[m])
  BY DEF Acceptable, At
<1>3. Len(s) > 1 => s[m].refHash # None
  BY DEF Acceptable, SameReferral, At
<1>4. ASSUME NEW j \in 1 .. m - 1
      PROVE  /\ ~(IsMain(s[m]) /\ IsMain(s[j]))
             /\ s[m].refHash = s[j].refHash
             /\ s[m].acntTags \cap s[j].acntTags = {}
  <2>1. s[j] \in Before(r)
    BY DEF Before
  <2>2. ~(IsMain(s[m]) /\ IsMain(s[j]))
    BY <2>1 DEF Acceptable, MainOrSub, At, IsMain
  <2>3. s[m].refHash # None /\ s[j].refHash # None
    BY <1>1, <1>3 DEF Vetted
  <2>4. s[m].refHash = s[j].refHash
    BY <2>1, <2>3 DEF Acceptable, SameReferral, At
  <2>5. s[m].acntTags \cap s[j].acntTags = {}
    BY DEF Acceptable, NewTags, At
  <2>6. QED BY <2>2, <2>4, <2>5
<1>5. \A i \in 1 .. m : i = m \/ i \in 1 .. m - 1
  BY <1>1
<1>6. QED BY <1>2, <1>3, <1>4, <1>5 DEF Vetted

(* The call that takes the step.                                           *)
LEMMA VettedHere ==
    ASSUME TypeInv, NEW r \in Call, VettedFirst(r),
           ServeHTTP(r) \/ \E s \in Requests : ReceiveRequest(r, s)
    PROVE  VettedFirst(r)'
<1>1. ControlOK /\ n \in [Call -> Nat] /\ Len(req[r]) \in Nat
  BY LenProperties, ControlType DEF TypeInv, TypeOK
<1>2. CASE \E s \in Requests : ReceiveRequest(r, s)
  <2>1. pc'[r] \in {"check", "done"} /\ n'[r] = 1
    BY <1>2, ReceiveRequestGoes
  <2>2. QED BY <2>1 DEF VettedFirst, Vetted
<1>3. CASE CheckToken(r)
  <2>1. pc[r] = "check" /\ UNCHANGED req /\ n[r] \in 1 .. Len(req[r])
    BY <1>1, <1>3 DEF TypeInv, Shape, CheckToken
  <2>2. \/ Refuse(r, 400) \/ Refuse(r, 500)
        \/ /\ Acceptable(r) /\ Verifies(At(r))
           /\ \/ More(r) /\ n' = [n EXCEPT ![r] = @ + 1] /\ pc' = pc
              \/ ~More(r) /\ HasMain(req[r]) /\ Goto(r, "send")
    BY <1>3, Zenon DEF CheckToken
  <2>3. CASE Refuse(r, 400) \/ Refuse(r, 500)
    <3>1. pc'[r] = "done"
      BY <1>1, <2>3 DEF ControlOK, Refuse, Goto
    <3>2. QED BY <3>1 DEF VettedFirst
  <2>4. ASSUME Acceptable(r) /\ Verifies(At(r)) PROVE Vetted(req[r], n[r])
    BY <2>1, <2>4, VetsOneMore DEF VettedFirst
  <2>5. CASE /\ Acceptable(r) /\ Verifies(At(r))
             /\ More(r) /\ n' = [n EXCEPT ![r] = @ + 1] /\ pc' = pc
    <3>1. pc'[r] = "check" /\ n'[r] - 1 = n[r]
      BY <1>1, <2>1, <2>5
    <3>2. QED BY <2>1, <2>4, <2>5, <3>1 DEF VettedFirst, Vetted
  <2>6. CASE /\ Acceptable(r) /\ Verifies(At(r))
             /\ ~More(r) /\ HasMain(req[r]) /\ Goto(r, "send")
    <3>1. pc'[r] = "send" /\ n[r] = Len(req[r])
      BY <1>1, <2>1, <2>6 DEF ControlOK, Goto, More
    <3>2. WhollyVetted(req[r])
      BY <2>4, <2>6, <3>1 DEF WhollyVetted
    <3>3. QED BY <2>1, <3>1, <3>2 DEF VettedFirst, WhollyVetted, Vetted, HasMain
  <2>7. QED BY <2>2, <2>3, <2>5, <2>6
<1>4. CASE CoopTo(r) \/ Receive(r) \/ Respond(r)
  <2>1. pc[r] \in {"send", "receive", "respond"} /\ UNCHANGED req
    BY <1>4 DEF CoopTo, Receive, Respond
  <2>2. pc'[r] # "check"
    <3>1. \E l \in {"send", "receive", "respond", "done"} : Goto(r, l)
      BY <1>4 DEF CoopTo, Receive, Respond, Refuse
    <3>2. QED BY <1>1, <3>1 DEF ControlOK, Goto
  <2>3. QED BY <2>1, <2>2 DEF VettedFirst, WhollyVetted, Vetted, HasMain
<1>5. QED BY <1>2, <1>3, <1>4 DEF ServeHTTP

(* A request stays once it is there.                                       *)
LEMMA RequestStays ==
    ASSUME TypeInv, [Next]_vars, NEW q \in Call, pc[q] # "idle"
    PROVE  req'[q] = req[q] /\ pc'[q] # "idle"
<1>1. ControlOK /\ req \in [Call -> Seq(Token)]
  BY ControlType DEF TypeInv, TypeOK
<1>2. ASSUME NEW r \in Call, NEW s \in Requests, ReceiveRequest(r, s)
      PROVE  req'[q] = req[q] /\ pc'[q] # "idle"
  <2>1. r # q
    BY <1>2 DEF ReceiveRequest
  <2>2. QED BY <1>2, <2>1, Elsewhere
<1>3. ASSUME NEW r \in Call, ServeHTTP(r) PROVE req'[q] = req[q] /\ pc'[q] # "idle"
  <2>1. UNCHANGED req
    BY <1>3 DEF ServeHTTP, CheckToken, CoopTo, Receive, Respond
  <2>2. UNCHANGED pc \/ \E l \in {"send", "receive", "respond", "done"} : Goto(r, l)
    BY <1>3 DEF ServeHTTP, CheckToken, CoopTo, Receive, Respond, Refuse
  <2>3. QED BY <1>1, <2>1, <2>2 DEF ControlOK, Goto
<1>4. CASE Crash
  BY <1>1, <1>4 DEF Crash, local
<1>5. CASE UNCHANGED vars \/ \E i \in Idp : SyncIdp(i)
  BY <1>5 DEF vars, local, SyncIdp
<1>6. QED BY <1>2, <1>3, <1>4, <1>5 DEF Next

(* Codes leave only from a request that is wholly vetted.                  *)
LEMMA SentStep ==
    ASSUME VettedInv, [Next]_vars
    PROVE  SentVetted'
<1>1. TypeInv /\ TypeInv' /\ SentVetted
  BY TypeStep DEF VettedInv
<1> SUFFICES ASSUME NEW c \in Code, spentBy'[c] # None
             PROVE  WhollyVetted(req'[spentBy'[c]]) /\ pc'[spentBy'[c]] # "idle"
  BY DEF SentVetted, WhollyVetted, Vetted, HasMain
<1>2. ASSUME NEW q \in Call, pc[q] # "idle", WhollyVetted(req[q])
      PROVE  WhollyVetted(req'[q]) /\ pc'[q] # "idle"
  BY <1>1, <1>2, RequestStays
<1>3. CASE spentBy[c] # None
  <2>1. spentBy'[c] = spentBy[c] /\ spentBy[c] \in Call
    BY <1>1, <1>3, SpentStays DEF TypeInv, TypeOK
  <2>2. QED BY <1>1, <1>2, <1>3, <2>1 DEF SentVetted
<1>4. CASE spentBy[c] = None
  <2>1. PICK r \in Call : CoopTo(r)
    BY <1>4 DEF Next, vars, shared, ReceiveRequest, ServeHTTP, CheckToken, Receive, Respond, SyncIdp, Crash
  <2>2. spentBy'[c] = r
    <3>1. spentBy' = spentBy \/ spentBy' = [spentBy EXCEPT ![At(r).cod] = r]
      BY <2>1 DEF CoopTo
    <3>2. spentBy \in [Code -> Call \cup {None}]
      BY <1>1 DEF TypeInv, TypeOK
    <3>3. QED BY <1>4, <3>1, <3>2
  <2>3. pc[r] = "send" /\ WhollyVetted(req[r])
    BY <2>1 DEF CoopTo, VettedInv, VettedFirst
  <2>4. QED BY <1>2, <2>2, <2>3
<1>5. QED BY <1>3, <1>4

(* Initially.                                                              *)
LEMMA VettedInit == Init => VettedInv
<1>1. Init => TypeInv
  BY TypeInit
<1>2. Init => SentVetted /\ \A r \in Call : VettedFirst(r)
  BY DEF Init, SentVetted, VettedFirst
<1>3. QED BY <1>1, <1>2 DEF VettedInv

(* Every step keeps it.                                                    *)
LEMMA VettedStep == VettedInv /\ [Next]_vars => VettedInv'
<1> SUFFICES ASSUME VettedInv, [Next]_vars PROVE VettedInv'
  OBVIOUS
<1>1. TypeInv /\ TypeInv' /\ SentVetted'
  BY TypeStep, SentStep DEF VettedInv
<1> SUFFICES ASSUME NEW q \in Call PROVE VettedFirst(q)'
  BY <1>1 DEF VettedInv
<1>2. VettedFirst(q)
  BY DEF VettedInv
<1>3. ASSUME pc'[q] \in {pc[q], "dead"}, UNCHANGED <<n[q], req[q]>> PROVE VettedFirst(q)'
  BY <1>2, <1>3 DEF VettedFirst, WhollyVetted, Vetted, HasMain
<1>4. ASSUME NEW r \in Call, ServeHTTP(r) \/ \E s \in Requests : ReceiveRequest(r, s)
      PROVE  VettedFirst(q)'
  <2>1. CASE r = q
    BY <1>1, <1>2, <1>4, <2>1, VettedHere
  <2>2. CASE r # q
    BY <1>1, <1>3, <1>4, <2>2, Elsewhere
  <2>3. QED BY <2>1, <2>2
<1>5. CASE Crash
  <2>1. pc'[q] \in {pc[q], "dead"} /\ UNCHANGED <<n[q], req[q]>>
    BY <1>5 DEF Crash, local
  <2>2. QED BY <1>3, <2>1
<1>6. CASE UNCHANGED vars \/ \E i \in Idp : SyncIdp(i)
  <2>1. pc'[q] \in {pc[q], "dead"} /\ UNCHANGED <<n[q], req[q]>>
    BY <1>6 DEF SyncIdp, vars, local
  <2>2. QED BY <1>3, <2>1
<1>7. QED BY <1>4, <1>5, <1>6 DEF Next

(* A wholly vetted request has one main token.                             *)
LEMMA OneMain ==
    ASSUME NEW s \in Seq(Token), WhollyVetted(s)
    PROVE  Cardinality({i \in 1 .. Len(s) : IsMain(s[i])}) = 1
<1>1. Len(s) \in Nat
  BY LenProperties
<1>2. PICK m \in 1 .. Len(s) : IsMain(s[m])
  BY DEF WhollyVetted, HasMain, IsMain
<1>3. ASSUME NEW i \in 1 .. Len(s), IsMain(s[i]) PROVE i = m
  BY <1>1, <1>2, <1>3 DEF WhollyVetted, Vetted
<1>4. {i \in 1 .. Len(s) : IsMain(s[i])} = {m}
  BY <1>2, <1>3
<1>5. QED BY <1>4, FS_Singleton

(* No code leaves for its IdP unless the whole request it came in has been *)
(* found good.                                                             *)
THEOREM Together == Spec => []SentTogether
<1>1. VettedInv => SentTogether
  <2> SUFFICES ASSUME VettedInv, NEW c \in Code, spentBy[c] # None
               PROVE  LET s == req[spentBy[c]]
                      IN  /\ Cardinality({i \in 1 .. Len(s) : IsMain(s[i])}) = 1
                          /\ \A i \in 1 .. Len(s) : s[i].aud /\ Verifies(s[i])
                          /\ \A i, j \in 1 .. Len(s) : i # j =>
                                 /\ s[i].refHash = s[j].refHash /\ s[i].refHash # None
                                 /\ s[i].acntTags \cap s[j].acntTags = {}
    BY DEF SentTogether
  <2> DEFINE s == req[spentBy[c]]
  <2>1. s \in Seq(Token) /\ Len(s) \in Nat /\ WhollyVetted(s)
    BY LenProperties DEF VettedInv, SentVetted, TypeInv, TypeOK
  <2>2. \A i \in 1 .. Len(s) : s[i].aud /\ Verifies(s[i])
    BY <2>1 DEF WhollyVetted, Vetted
  <2>3. ASSUME NEW i \in 1 .. Len(s), NEW j \in 1 .. Len(s), i # j
        PROVE  /\ s[i].refHash = s[j].refHash /\ s[i].refHash # None
               /\ s[i].acntTags \cap s[j].acntTags = {}
    <3>1. Len(s) > 1 /\ (j \in 1 .. i - 1 \/ i \in 1 .. j - 1)
      BY <2>1, <2>3
    <3>2. QED BY <2>1, <3>1 DEF WhollyVetted, Vetted
  <2>4. QED BY <2>1, <2>2, <2>3, OneMain
<1>2. QED BY <1>1, VettedInit, VettedStep, PTL DEF Spec

(***************************************************************************)
(* One from-TA.                                                            *)
(***************************************************************************)
(* The first k codes of a call were issued to the from-TA it has.          *)
IssuedTo(r, k) == \A i \in 1 .. k : frTa[r] = FrTa[req[r][i].cod]

OneFrom(r) ==
    /\ pc[r] \in {"send", "receive"} => IssuedTo(r, n[r] - 1)
    /\ pc[r] = "receive" => resp[r].frTa = FrTa[At(r).cod]
    /\ pc[r] = "respond" \/ status[r] = 200 => IssuedTo(r, Len(req[r]))

FromInv == TypeInv /\ \A r \in Call : OneFrom(r)

(* The call that takes the step.                                           *)
LEMMA FromHere ==
    ASSUME TypeInv, NEW r \in Call, OneFrom(r),
           ServeHTTP(r) \/ \E s \in Requests : ReceiveRequest(r, s)
    PROVE  OneFrom(r)'
<1>1. ControlOK /\ n \in [Call -> Nat] /\ Len(req[r]) \in Nat
  BY LenProperties, ControlType DEF TypeInv, TypeOK
<1>2. CASE \E s \in Requests : ReceiveRequest(r, s)
  <2>1. pc'[r] \in {"check", "done"} /\ status'[r] # 200
    BY <1>2, ReceiveRequestGoes
  <2>2. QED BY <2>1 DEF OneFrom
<1>3. CASE CheckToken(r)
  <2>1. status'[r] # 200 /\ (\/ pc'[r] \in {"check", "done"}
                             \/ pc'[r] = "send" /\ n'[r] = 1)
    BY <1>3, CheckTokenGoes
  <2>2. QED BY <2>1 DEF OneFrom, IssuedTo
<1>4. CASE CoopTo(r)
  <2>1. UNCHANGED <<n, req, frTa>> /\ pc[r] = "send" /\ status'[r] # 200
    BY <1>4, CoopToGoes
  <2>2. \/ pc'[r] = "done"
        \/ pc'[r] = "receive" /\ \E a \in Answers(At(r)) : resp' = [resp EXCEPT ![r] = a]
    BY <1>4, CoopToGoes
  <2>3. resp \in [Call -> CoopResponse \cup {None}]
    BY DEF TypeInv, TypeOK
  <2>4. \A a \in Answers(At(r)) : a.frTa = FrTa[At(r).cod]
    BY DEF Answers
  <2>5. pc'[r] = "receive" => resp'[r].frTa = FrTa[At(r).cod]
    BY <2>2, <2>3, <2>4
  <2>6. QED BY <2>1, <2>2, <2>5 DEF OneFrom, IssuedTo, At
<1>5. CASE Receive(r)
  <2>1. pc[r] = "receive" /\ UNCHANGED req /\ n[r] \in 1 .. Len(req[r]) /\ status'[r] # 200
    BY <1>5, ReceiveGoes
  <2>2. CASE pc'[r] = "done"
    BY <2>1, <2>2 DEF OneFrom
  <2>3. CASE pc'[r] # "done"
    <3>1. /\ SameFromTa(r) /\ frTa' = [frTa EXCEPT ![r] = resp[r].frTa]
          /\ \/ pc'[r] = "send" /\ n'[r] = n[r] + 1
             \/ pc'[r] = "respond" /\ n[r] = Len(req[r])
      BY <1>5, <2>3, ReceiveGoes
    <3>2. frTa'[r] = FrTa[At(r).cod]
      BY <2>1, <3>1 DEF OneFrom, TypeInv, TypeOK
    <3>3. ASSUME NEW i \in 1 .. n[r] - 1 PROVE frTa[r] = frTa'[r]
      <4>1. req[r][i].cod \in Code
        BY <1>1, <2>1, ElementOfSeq, TokenType DEF TypeInv, TypeOK
      <4>2. frTa[r] = FrTa[req[r][i].cod] /\ frTa[r] # None
        BY <2>1, <4>1, FrTaAssumption, NoneAssumption DEF OneFrom, IssuedTo
      <4>3. QED BY <2>1, <3>1, <3>2, <4>2 DEF SameFromTa, OneFrom
    <3>4. \A i \in 1 .. n[r] : frTa'[r] = FrTa[req[r][i].cod]
      BY <1>1, <2>1, <3>2, <3>3 DEF OneFrom, IssuedTo, At
    <3>5. QED BY <1>1, <2>1, <3>1, <3>4 DEF OneFrom, IssuedTo
  <2>4. QED BY <2>2, <2>3
<1>6. CASE Respond(r)
  <2>1. pc[r] = "respond" /\ UNCHANGED <<req, frTa>> /\ pc'[r] = "done"
    BY <1>1, <1>6 DEF ControlOK, Respond, Goto
  <2>2. QED BY <2>1 DEF OneFrom, IssuedTo
<1>7. QED BY <1>2, <1>3, <1>4, <1>5, <1>6 DEF ServeHTTP

(* Initially.                                                              *)
LEMMA FromInit == Init => FromInv
<1>1. Init => TypeInv
  BY TypeInit
<1>2. Init => \A r \in Call : OneFrom(r)
  BY DEF Init, OneFrom
<1>3. QED BY <1>1, <1>2 DEF FromInv

(* Every step keeps it.                                                    *)
LEMMA FromStep == FromInv /\ [Next]_vars => FromInv'
<1> SUFFICES ASSUME FromInv, [Next]_vars PROVE FromInv'
  OBVIOUS
<1>1. TypeInv /\ TypeInv'
  BY TypeStep DEF FromInv
<1> SUFFICES ASSUME NEW q \in Call PROVE OneFrom(q)'
  BY <1>1 DEF FromInv
<1>2. OneFrom(q)
  BY DEF FromInv
<1>3. ASSUME pc'[q] \in {pc[q], "dead"}, UNCHANGED <<n[q], req[q], status[q], frTa[q], resp[q]>>
      PROVE  OneFrom(q)'
  BY <1>2, <1>3 DEF OneFrom, IssuedTo, At
<1>4. ASSUME NEW r \in Call, ServeHTTP(r) \/ \E s \in Requests : ReceiveRequest(r, s)
      PROVE  OneFrom(q)'
  <2>1. CASE r = q
    BY <1>1, <1>2, <1>4, <2>1, FromHere
  <2>2. CASE r # q
    <3>1. UNCHANGED <<pc[q], n[q], req[q], status[q]>>
      BY <1>1, <1>4, <2>2, Elsewhere
    <3>2. frTa'[q] = frTa[q]
      <4>1. UNCHANGED frTa \/ frTa' = [frTa EXCEPT ![r] = resp[r].frTa]
        BY <1>4, Zenon DEF ServeHTTP, ReceiveRequest, CheckToken, CoopTo, Receive, Respond
      <4>2. frTa \in [Call -> Ta \cup {None}]
        BY <1>1 DEF TypeInv, TypeOK
      <4>3. QED BY <2>2, <4>1, <4>2
    <3>3. resp'[q] = resp[q]
      <4>1. UNCHANGED resp \/ \E a : resp' = [resp EXCEPT ![r] = a]
        BY <1>4, Zenon DEF ServeHTTP, ReceiveRequest, CheckToken, CoopTo, Receive, Respond
      <4>2. resp \in [Call -> CoopResponse \cup {None}]
        BY <1>1 DEF TypeInv, TypeOK
      <4>3. QED BY <2>2, <4>1, <4>2
    <3>4. QED BY <1>3, <3>1, <3>2, <3>3
  <2>3. QED BY <2>1, <2>2
<1>5. CASE Crash
  <2>1. pc'[q] \in {pc[q], "dead"} /\ UNCHANGED local /\ UNCHANGED status
    BY <1>5 DEF Crash
  <2>2. QED BY <1>3, <2>1 DEF local
<1>6. CASE UNCHANGED vars \/ \E i \in Idp : SyncIdp(i)
  <2>1. pc'[q] \in {pc[q], "dead"} /\ UNCHANGED local /\ UNCHANGED status
    BY <1>6 DEF SyncIdp, vars
  <2>2. QED BY <1>3, <2>1 DEF local
<1>7. QED BY <1>4, <1>5, <1>6 DEF Next

(* X-Auth-From-Id is the TA that every one of the codes was issued to.     *)
THEOREM FromOne == Spec => []OneFromTa
<1>1. FromInv => OneFromTa
  <2> SUFFICES ASSUME FromInv, NEW r \in Call, status[r] = 200, NEW t \in TokensOf(r)
               PROVE  frTa[r] = FrTa[t.cod]
    BY DEF OneFromTa
  <2>1. IssuedTo(r, Len(req[r]))
    BY DEF FromInv, OneFrom
  <2>2. QED BY <2>1 DEF IssuedTo, TokensOf
<1>2. QED BY <1>1, FromInit, FromStep, PTL DEF Spec
=============================================================================
