------------------------------- MODULE MCCoop -------------------------------
EXTENDS Coop

CONSTANTS
    i1, i2, c1, c2, c3, c4, c5, c6, c7, g1, g2, g3, g4, a1, a2, h1, h2

CodTok(i, c, g, gs, h) ==
    [idp |-> i, cod |-> c, aud |-> TRUE, frTa |-> IF g = None THEN None ELSE a1,
     acntTag |-> g, acntTags |-> gs, refHash |-> h, sign |-> i]

(* A referral of a1: the main token and two for other accounts.            *)
Main  == CodTok(i1, c1, g1, {g2}, h1)
Sub   == CodTok(i2, c2, None, {g3}, h1)
Third == CodTok(i1, c7, None, {g4}, h1)

(* A referral of its own, with one token.                                  *)
Single == CodTok(i2, c3, g2, {g3}, h2)

(* Code tokens that do not fit in with them.                               *)
BadSub     == [Sub EXCEPT !.sign = None]
LoneSub    == CodTok(i2, c4, None, {g3}, None)
AgainSub   == CodTok(i2, c5, None, {g2}, h1)
MainTagSub == CodTok(i2, c6, None, {g1}, h1)

Referral    == {Main, Sub, Third}
MixedTokens == {Main, Sub, Third, Single, BadSub, LoneSub, AgainSub, MainTagSub}
ClashTokens == {Main, Sub, MainTagSub}

OneTa  == [c \in Code |-> a1]
TwoTas == [c \in Code |-> IF c = c7 THEN a2 ELSE a1]
=============================================================================
