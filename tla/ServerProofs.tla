---------------------------- MODULE ServerProofs ----------------------------
(***************************************************************************)
(* Proofs about the process, for any number of requests, whatever it is    *)
(* called with and however its start fails.                                *)
(***************************************************************************)
EXTENDS Server, TLAPS, WellFoundedInduction

(***************************************************************************)
(* The command line has the last word.                                     *)
(***************************************************************************)
(* Reading the command line before and after the file gives each flag the  *)
(* value of the last setting on the command line, else in the file.        *)
LEMMA ReadTwice ==
    ASSUME NEW args, NEW files
    PROVE  ParseParameters(args, files) = Effective(args, files)
<1> DEFINE first == Parse(args, Default)
           conf == Config(args, files)
           second == IF conf = Missing THEN first ELSE Parse(conf, first)
<1>1. \A f \in Flag :
         first[f] = IF Setting(args, f) # {} THEN Value(args, f) ELSE Default[f]
  BY DEF Parse
<1>2. \A f \in Flag :
         second[f] = IF conf # Missing /\ Setting(conf, f) # {} THEN Value(conf, f) ELSE first[f]
  BY DEF Parse
<1>3. ParseParameters(args, files) =
        [f \in Flag |-> IF Setting(args, f) # {} THEN Value(args, f) ELSE second[f]]
  BY DEF ParseParameters, Parse
<1> HIDE DEF first, second, conf
<1>4. \A f \in Flag :
         (IF Setting(args, f) # {} THEN Value(args, f) ELSE second[f])
           = IF Setting(args, f) # {} THEN Value(args, f)
             ELSE IF conf # Missing /\ Setting(conf, f) # {} THEN Value(conf, f)
             ELSE Default[f]
  BY <1>1, <1>2
<1>5. Effective(args, files) =
        [f \in Flag |-> IF Setting(args, f) # {} THEN Value(args, f)
                        ELSE IF conf # Missing /\ Setting(conf, f) # {} THEN Value(conf, f)
                        ELSE Default[f]]
  BY DEF Effective, conf
<1>6. QED BY <1>3, <1>4, <1>5

(***************************************************************************)
(* The parameters have values.                                             *)
(***************************************************************************)
(* A set of natural numbers has a least element.                           *)
LEMMA HasMin ==
    ASSUME NEW T, T \subseteq Nat, T # {}
    PROVE  \E x \in T : \A y \in T : x <= y
<1> DEFINE R == OpToRel(<, Nat)
<1>1. IsWellFoundedOn(R, Nat)
  BY NatLessThanWellFounded
<1>2. R = {ss \in Nat \X Nat : ss[1] < ss[2]}
  BY DEF OpToRel
<1> HIDE DEF R
<1>3. PICK x \in T : \A y \in T : ~(<<y, x>> \in R)
  BY <1>1, WFMin, Zenon
<1>4. ASSUME NEW y \in T PROVE x <= y
  <2>1. x \in Nat /\ y \in Nat /\ <<y, x>> \in Nat \X Nat
    OBVIOUS
  <2>2. y < x => <<y, x>> \in R
    BY <1>2, <2>1
  <2>3. QED BY <1>3, <2>1, <2>2
<1>5. QED BY <1>4

(* A set of positions has a last one.                                      *)
LEMMA HasMax ==
    ASSUME NEW n \in Nat, NEW T \in SUBSET (1 .. n), T # {}
    PROVE  \E x \in T : \A y \in T : y <= x
<1> DEFINE U == {n - i : i \in T}
<1>1. U \subseteq Nat /\ U # {}
  <2>1. PICK i \in T : TRUE
    OBVIOUS
  <2>2. n - i \in U
    OBVIOUS
  <2>3. \A j \in T : n - j \in Nat
    OBVIOUS
  <2>4. QED BY <2>2, <2>3
<1>2. PICK u \in U : \A v \in U : u <= v
  BY <1>1, HasMin
<1>3. PICK x \in T : u = n - x
  BY <1>2
<1>4. \A y \in T : n - x <= n - y
  BY <1>2, <1>3
<1>5. \A y \in T : y <= x
  BY <1>4
<1>6. QED BY <1>5

(* The defaults are values.                                                *)
LEMMA DefaultType == Default \in [Flag -> Text]
<1>1. Default = [f \in Flag |-> Default[f]]
  BY DEF Default, Flag
<1>2. QED BY <1>1, TextAssumption

(* The last of the settings of a flag has a value.                         *)
LEMMA ValueType ==
    ASSUME NEW words \in Seq(Word), NEW f, Setting(words, f) # {}
    PROVE  Value(words, f) \in Text
<1>1. Len(words) \in Nat /\ Setting(words, f) \subseteq 1 .. Len(words)
  BY DEF Setting, Read
<1>2. \E i \in Setting(words, f) : \A j \in Setting(words, f) : j <= i
  BY <1>1, HasMax
<1> DEFINE i == CHOOSE i \in Setting(words, f) : \A j \in Setting(words, f) : j <= i
<1>3. i \in Setting(words, f)
  BY <1>2
<1> HIDE DEF i
<1>4. words[i] \in Word /\ words[i] # Plain /\ words[i] # Malformed
  <2>1. i \in 1 .. Len(words) /\ i \in 1 .. i
    BY <1>1, <1>3
  <2>2. QED BY <1>3, <2>1 DEF Setting, Read
<1>5. words[i].value \in Text
  BY <1>4 DEF Word
<1>6. Value(words, f) = words[i].value
  BY DEF Value, i
<1>7. QED BY <1>5, <1>6

(* Reading words over parameters that have values leaves them values.      *)
LEMMA ParseType ==
    ASSUME NEW words \in Seq(Word), NEW v \in [Flag -> Text]
    PROVE  Parse(words, v) \in [Flag -> Text]
<1>1. \A f \in Flag : Setting(words, f) # {} => Value(words, f) \in Text
  BY ValueType
<1>2. QED BY <1>1 DEF Parse

(* So does all that main reads.                                            *)
LEMMA ParametersType ==
    ASSUME NEW a \in Args, NEW f \in Files, Config(a, f) # Unreadable
    PROVE  ParseParameters(a, f) \in [Flag -> Text]
<1>1. Default \in [Flag -> Text]
  BY DefaultType
<1>2. a \in Seq(Word) /\ Config(a, f) \in Seq(Word) \cup {Missing}
  BY ArgsAssumption
<1>3. Parse(a, Default) \in [Flag -> Text]
  BY <1>1, <1>2, ParseType
<1>4. QED BY <1>2, <1>3, ParseType DEF ParseParameters

(***************************************************************************)
(* The invariant.                                                          *)
(***************************************************************************)
(* What main is called with is parsed once.                                *)
ParsedOnce == phase # "parse" => given = Missing

(* Requests come only to a server that listens, and it listens only once   *)
(* everything is set up.                                                   *)
NoneBeforeServing ==
    /\ phase \in {"parse", "log", "setup"} => ~served
    /\ ~served => stops = {} /\ \A r \in Req : pc[r] = "idle"

(* The stopper knows of every handler at work.                             *)
WorkAnnounced == \A r \in Req : pc[r] \in Working => r \in stops

(* Whoever is announced after the wait has announced itself after it.      *)
OnlyLateAfterWait == phase \in Drained => stops \subseteq late

(* Which pools are open when.                                              *)
PoolsByPhase ==
    /\ pools \subseteq Pool
    /\ phase \in {"parse", "log", "exit", "exited"} => pools = {}
    /\ phase \in {"setup", "serve"} \cup Waiting => pools = Pool
    /\ phase = "closeRed" => pools \subseteq {"redis"}

(* Until the server listens, only a failure ends the process.              *)
CodeTells == phase \in Waiting \cup Drained => code # 0 \/ served

Places ==
    /\ phase \in {"parse", "log", "setup", "serve"} \cup Waiting \cup Drained
    /\ pc \in [Req -> {"idle", "routed", "flush", "answered"} \cup Working]

Inv ==
    /\ Places
    /\ ParsedOnce
    /\ NoneBeforeServing
    /\ WorkAnnounced
    /\ OnlyLateAfterWait
    /\ PoolsByPhase
    /\ CodeTells
    /\ met \subseteq late

(* A handler never finds a DB of its own behind a pool that is not there.  *)
LEMMA BehindPools == ASSUME NEW k PROVE Behind(k) \subseteq Pool
BY DEF Behind, Pool

(* The process starts with nothing open and nobody at work.                *)
LEMMA InvInit == Init => Inv
BY DEF Init, Inv, Places, ParsedOnce, NoneBeforeServing, WorkAnnounced, OnlyLateAfterWait,
       PoolsByPhase, CodeTells, Working, Waiting, Drained, Pool

USE DEF Working, Waiting, Drained, Pool, Goto, Fails

(* Until the server listens nobody is at work.                             *)
LEMMA StartKeepsInv ==
    ASSUME Inv, ParseArgs \/ SetupLog \/ Setup \/ Listen
    PROVE  Inv'
<1> USE DEF Inv, Places, ParsedOnce, NoneBeforeServing, WorkAnnounced, OnlyLateAfterWait,
            PoolsByPhase, CodeTells, reqVars
<1>1. CASE ParseArgs
  BY <1>1 DEF ParseArgs
<1>2. CASE SetupLog
  <2>1. ~served /\ phase = "log" /\ UNCHANGED <<given, served, pc, stops, late, met>>
    BY <1>2 DEF SetupLog
  <2>2. \/ phase' = "setup" /\ pools' = Pool
        \/ phase' = "exit" /\ code' = 1 /\ pools' = {}
    BY <1>2 DEF SetupLog
  <2>3. QED BY <2>1, <2>2
<1>3. CASE Setup
  <2>1. ~served /\ phase = "setup" /\ UNCHANGED <<given, served, pools, pc, stops, late, met>>
    BY <1>3 DEF Setup
  <2>2. phase' = "serve" \/ (phase' = "closeMon" /\ code' \in {1, 2})
    BY <1>3 DEF Setup
  <2>3. QED BY <2>1, <2>2
<1>4. CASE Listen
  BY <1>4 DEF Listen
<1>5. QED BY <1>1, <1>2, <1>3, <1>4

(* Each step of the shutdown keeps what is known.                          *)
LEMMA EndKeepsInv ==
    ASSUME Inv, Shutdown \/ Wait \/ ClosePool \/ Exit
    PROVE  Inv'
<1> USE DEF Inv, Places, ParsedOnce, NoneBeforeServing, WorkAnnounced, OnlyLateAfterWait,
            PoolsByPhase, CodeTells, reqVars
<1>1. CASE Shutdown
  BY <1>1 DEF Shutdown
<1>2. CASE Wait
  BY <1>2 DEF Wait
<1>3. CASE ClosePool
  BY <1>3 DEF ClosePool
<1>4. CASE Exit
  BY <1>4 DEF Exit
<1>5. QED BY <1>1, <1>2, <1>3, <1>4

(* So does each step of a handler.                                         *)
LEMMA HandlerKeepsInv ==
    ASSUME Inv, NEW r \in Req,
           (\E p \in Path : Accept(r, p)) \/ Handler(r) \/ IdpAnswers(r)
    PROVE  Inv'
<1> USE DEF Inv, Places, ParsedOnce, NoneBeforeServing, WorkAnnounced, OnlyLateAfterWait,
            PoolsByPhase, CodeTells, mainVars, ReqGoto
<1>1. CASE \E p \in Path : Accept(r, p)
  BY <1>1 DEF Accept
<1>2. CASE Stop(r)
  BY <1>2 DEF Stop
<1>3. CASE Work(r)
  \* Only a handler that is late finds a pool closed.
  <2>1. pc[r] \in Working /\ r \in stops /\ served /\ phase # "exited"
    BY <1>3 DEF Work
  <2>2. ASSUME ~(Behind(kind[r]) \subseteq pools) PROVE r \in late
    <3>1. pools # Pool
      BY <2>2, BehindPools
    <3>2. phase \in Drained
      BY <2>1, <3>1
    <3>3. QED BY <2>1, <3>2
  <2>3. UNCHANGED <<given, param, phase, code, served, pools, kind, stops, late>>
    BY <1>3 DEF Work
  <2>4. met' \subseteq late
    BY <1>3, <2>2 DEF Work
  <2>5. \E l \in {"asking", "respond", "unwind"} : pc' = [pc EXCEPT ![r] = l]
    BY <1>3 DEF Work
  <2>6. QED BY <2>1, <2>3, <2>4, <2>5
<1>4. CASE Unstop(r)
  BY <1>4 DEF Unstop, SignsOff, Woken
<1>5. CASE Flush(r)
  BY <1>5 DEF Flush
<1>6. CASE IdpAnswers(r)
  BY <1>6 DEF IdpAnswers
<1>7. QED BY <1>1, <1>2, <1>3, <1>4, <1>5, <1>6 DEF Handler

(* Every step of the server keeps the invariant.                           *)
LEMMA InvStep == Inv /\ [Next]_vars => Inv'
<1> SUFFICES ASSUME Inv, [Next]_vars PROVE Inv'
  OBVIOUS
<1>1. CASE Main
  BY <1>1, StartKeepsInv, EndKeepsInv DEF Main
<1>2. CASE Shutdown
  BY <1>2, EndKeepsInv
<1>3. CASE \E r \in Req, p \in Path : Accept(r, p)
  BY <1>3, HandlerKeepsInv
<1>4. CASE \E r \in Req : Handler(r) \/ IdpAnswers(r)
  BY <1>4, HandlerKeepsInv
<1>5. CASE UNCHANGED vars
  BY <1>5 DEF Inv, Places, ParsedOnce, NoneBeforeServing, WorkAnnounced, OnlyLateAfterWait,
              PoolsByPhase, CodeTells, vars, mainVars, reqVars
<1>6. QED BY <1>1, <1>2, <1>3, <1>4, <1>5 DEF Next

(* All of it holds for as long as the server runs (main, serve).           *)
THEOREM Invariance == Spec => []Inv
BY InvInit, InvStep, PTL DEF Spec

(***************************************************************************)
(* The theorems.                                                           *)
(***************************************************************************)
(* main waits long enough: of the handlers that announced themselves       *)
(* before it was done waiting, none meets a closed pool and none is cut    *)
(* off in its work by the end of the process.                              *)
THEOREM WaitsForHandlers == Spec => []ServedOut
<1>1. Inv => ServedOut
  BY DEF Inv, OnlyLateAfterWait, WorkAnnounced, ServedOut
<1>2. QED BY Invariance, <1>1, PTL

(* However the start fails and however the server ends, the pools are      *)
(* closed and the exit code tells of the failure.                          *)
THEOREM EndsClean == Spec => []ExitsClean
<1>1. Inv => ExitsClean
  BY DEF Inv, PoolsByPhase, CodeTells, ExitsClean
<1>2. QED BY Invariance, <1>1, PTL

(* The parameters that the server goes on with are those of the command    *)
(* line, then of the file, then the defaults.                              *)
THEOREM LastWord == Spec => CommandLineWins
<1> DEFINE Wins ==
      given # Missing /\ phase' = "log" => param' = Effective(given.args, given.files)
<1>1. ASSUME Inv, [Next]_vars PROVE [Wins]_vars
  <2> SUFFICES ASSUME given # Missing, phase' = "log", ~UNCHANGED vars
               PROVE  param' = Effective(given.args, given.files)
    OBVIOUS
  <2>1. phase = "parse"
    BY <1>1 DEF Inv, ParsedOnce
  <2>2. ParseArgs
    <3>1. Next
      BY <1>1
    <3>2. ~SetupLog /\ ~Setup /\ ~Listen /\ ~Wait /\ ~ClosePool /\ ~Exit /\ ~Shutdown
      BY <2>1 DEF SetupLog, Setup, Listen, Wait, ClosePool, Exit, Shutdown
    <3>3. \A r \in Req : /\ \A p \in Path : ~Accept(r, p)
                         /\ ~Handler(r) /\ ~IdpAnswers(r)
      <4> SUFFICES ASSUME NEW r \in Req,
                          (\E p \in Path : Accept(r, p)) \/ Handler(r) \/ IdpAnswers(r)
                   PROVE  phase' = "parse"
        OBVIOUS
      <4>1. QED BY <2>1 DEF Accept, Handler, IdpAnswers, Stop, Work, Unstop, Flush, mainVars
    <3>4. QED BY <3>1, <3>2, <3>3 DEF Next, Main
  <2>3. param' = ParseParameters(given.args, given.files)
    BY <2>2 DEF ParseArgs
  <2>4. QED BY <2>3, ReadTwice
<1>2. QED BY <1>1, Invariance, PTL DEF Spec, CommandLineWins

(***************************************************************************)
(* Type correctness.                                                       *)
(***************************************************************************)
(* What main is called with is there until it is parsed.                   *)
TypeInv == TypeOK /\ (phase = "parse" => given \in [args : Args, files : Files])

(* The process has its parameters, the handlers their places and routes.   *)
LEMMA TypeInit == Init => TypeInv
<1>1. Default \in [Flag -> Text]
  BY DefaultType
<1> SUFFICES ASSUME Init PROVE TypeInv
  OBVIOUS
<1>2. param \in [Flag -> Text] /\ given \in [args : Args, files : Files]
  BY <1>1 DEF Init
<1>3. phase = "parse" /\ code = 0 /\ pools = {} /\ stops = {} /\ late = {} /\ met = {}
  BY DEF Init
<1>4. served \in BOOLEAN
  BY DEF Init
<1>5. /\ pc \in [Req -> {"idle", "routed", "flush", "answered"} \cup Working]
      /\ kind \in [Req -> Kind]
  BY DEF Init, Kind
<1>6. QED BY <1>2, <1>3, <1>4, <1>5 DEF TypeInv, TypeOK

(* A path leads to one of the handlers.                                    *)
LEMMA RouteType == ASSUME NEW p PROVE Route(p) \in Kind
BY DEF Route, Kind

(* Every step keeps the types.                                             *)
LEMMA TypeStep == TypeInv /\ [Next]_vars => TypeInv'
<1> SUFFICES ASSUME TypeInv, [Next]_vars PROVE TypeInv'
  OBVIOUS
<1> USE DEF TypeInv, TypeOK
<1>1. CASE ParseArgs
  <2>1. given' = Missing /\ phase' # "parse" /\ UNCHANGED <<served, pools, reqVars>>
    BY <1>1 DEF ParseArgs
  <2>2. phase' \in {"exited", "exit", "log"} /\ code' \in 0 .. 2
    BY <1>1 DEF ParseArgs
  <2>3. param' \in [Flag -> Text]
    <3>1. given.args \in Args /\ given.files \in Files
      BY <1>1 DEF ParseArgs
    <3>2. \/ UNCHANGED param
          \/ /\ Config(given.args, given.files) # Unreadable
             /\ param' = ParseParameters(given.args, given.files)
      BY <1>1 DEF ParseArgs
    <3>3. QED BY <3>1, <3>2, ParametersType
  <2>4. QED BY <2>1, <2>2, <2>3 DEF reqVars
<1>2. CASE SetupLog \/ Setup \/ Listen \/ Shutdown
  <2>1. UNCHANGED <<given, param, reqVars>> /\ phase' \in {"setup", "exit", "serve", "closeMon", "wait"}
    BY <1>2 DEF SetupLog, Setup, Listen, Shutdown
  <2>2. code' \in 0 .. 2 /\ pools' \in SUBSET Pool
    <3>1. code' \in {code, 0, 1, 2}
      <4>1. CASE SetupLog
        BY <4>1 DEF SetupLog
      <4>2. CASE Setup
        BY <4>2 DEF Setup
      <4>3. CASE Listen
        BY <4>3 DEF Listen
      <4>4. CASE Shutdown
        BY <4>4 DEF Shutdown
      <4>5. QED BY <1>2, <4>1, <4>2, <4>3, <4>4
    <3>2. pools' \in {pools, Pool}
      BY <1>2 DEF SetupLog, Setup, Listen, Shutdown
    <3>3. QED BY <3>1, <3>2
  <2>3. served' = served \/ served' = TRUE
    BY <1>2 DEF SetupLog, Setup, Listen, Shutdown
  <2>4. QED BY <2>1, <2>2, <2>3 DEF reqVars
<1>3. CASE Wait \/ ClosePool \/ Exit
  BY <1>3 DEF Wait, ClosePool, Exit, reqVars
<1>4. ASSUME NEW r \in Req, NEW p \in Path, Accept(r, p) PROVE TypeInv'
  BY <1>4, RouteType DEF Accept, ReqGoto, mainVars
<1>5. ASSUME NEW r \in Req, Handler(r) \/ IdpAnswers(r) PROVE TypeInv'
  <2>1. \E l \in {"work", "respond", "asking", "unwind", "asked", "flush", "answered"} :
           ReqGoto(r, l)
    BY <1>5 DEF Handler, Stop, Work, Unstop, Flush, IdpAnswers
  <2>2. pc' \in [Req -> {"idle", "routed", "flush", "answered"} \cup Working]
    BY <2>1 DEF ReqGoto
  <2>3. stops' \in SUBSET Req /\ late' \in SUBSET Req /\ met' \in SUBSET Req
    BY <1>5 DEF Handler, Stop, Work, Unstop, Flush, IdpAnswers
  <2>4. UNCHANGED <<given, param, code, served, pools, kind>>
    BY <1>5 DEF Handler, Stop, Work, Unstop, Flush, IdpAnswers, mainVars
  <2>5. phase' \in {phase, "wait"}
    BY <1>5 DEF Handler, Stop, Work, Unstop, Flush, IdpAnswers, mainVars, Woken
  <2>6. QED BY <2>2, <2>3, <2>4, <2>5
<1>6. CASE UNCHANGED vars
  BY <1>6 DEF vars, mainVars, reqVars
<1>7. QED BY <1>1, <1>2, <1>3, <1>4, <1>5, <1>6 DEF Next, Main

(* The variables of the process keep their types; with parameters of words *)
(* the flags end up with values.                                           *)
THEOREM TypeCorrect == Spec => []TypeOK
<1>1. TypeInv => TypeOK
  BY DEF TypeInv
<1>2. QED BY <1>1, TypeInit, TypeStep, PTL DEF Spec
=============================================================================
