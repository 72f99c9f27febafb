------------------------------- MODULE Server -------------------------------
(***************************************************************************)
(* The process (main.go): it reads its parameters, opens the connection    *)
(* pools, serves, and when server.Serve returns waits for the handlers     *)
(* before it closes the pools that they use.  Each handler announces       *)
(* itself to the stopper with Stop and signs off with Unstop.              *)
(*                                                                         *)
(* The stopper of edo-lib counts announced handlers under a lock that the  *)
(* waiting side shares; here it is the set of them.  server.Serve returns  *)
(* once the listener is closed, while requests may still come in over      *)
(* connections that were kept.                                             *)
(***************************************************************************)
EXTENDS Parameters

CONSTANTS
    Req,        \* requests
    Path,       \* the paths they ask for
    Args,       \* command lines
    Files       \* contents of the config files

(* A file that a command line names can be read, or not, or is not there.  *)
ASSUME ArgsAssumption ==
    /\ Args \subseteq Seq(Word)
    /\ \A a \in Args, f \in Files : Config(a, f) \in Seq(Word) \cup {Missing, Unreadable}

VARIABLES
    given,      \* what main is called with, until it is parsed
    param,
    phase,      \* where main is
    code,       \* the exit code
    served,     \* the listener has been up
    pools,      \* the pool sets that are open
    pc,         \* [Req -> ..]: where each handler is
    kind,       \* [Req -> ..]: the handler of the request's path
    stops,      \* the handlers announced to the stopper
    late,       \* those that announced themselves after the wait was over
    met         \* those that found a pool closed

mainVars == <<given, param, phase, code, served, pools>>
reqVars == <<pc, kind, stops, late, met>>
vars == <<mainVars, reqVars>>

Pool == {"redis", "mongo"}
Kind == {"ok", "auth", "cb", "coop", "invalid"}
Drained == {"closeMon", "closeRed", "exit", "exited"}
Waiting == {"wait", "asleep"}
Up == {"serve"} \cup Waiting \cup (Drained \ {"exited"})

(* Between Stop and Unstop.                                                *)
Working == {"work", "asking", "asked", "respond", "unwind"}

TypeOK ==
    /\ given \in [args : Args, files : Files] \cup {Missing}
    /\ param \in [Flag -> Text]
    /\ phase \in {"parse", "log", "setup", "serve"} \cup Waiting \cup Drained
    /\ code \in 0 .. 2
    /\ served \in BOOLEAN
    /\ pools \in SUBSET Pool
    /\ pc \in [Req -> {"idle", "routed", "flush", "answered"} \cup Working]
    /\ kind \in [Req -> Kind]
    /\ stops \in SUBSET Req /\ late \in SUBSET Req /\ met \in SUBSET Req

Init ==
    /\ given \in [args : Args, files : Files]
    /\ param = Default
    /\ phase = "parse"
    /\ code = 0
    /\ served = FALSE
    /\ pools = {}
    /\ pc = [r \in Req |-> "idle"]
    /\ kind = [r \in Req |-> "ok"]
    /\ stops = {}
    /\ late = {}
    /\ met = {}

(***************************************************************************)
(* main and serve.                                                         *)
(***************************************************************************)
Goto(l) == phase' = l

(* A mutant: the error is lost.                                            *)
FailsSilently(l, c) == Goto(l) /\ UNCHANGED code

Fails(l, c) == Goto(l) /\ code' = c

ParseArgs ==
    /\ phase = "parse"
    /\ given' = Missing
    /\ \/ /\ Exits(given.args, given.files)
          /\ Fails("exited", 2)
          /\ UNCHANGED param
       \/ /\ ~Refused(given.args)
          /\ Config(given.args, given.files) = Unreadable
          /\ Fails("exit", 1)
          /\ UNCHANGED param
       \/ /\ ~Exits(given.args, given.files)
          /\ Config(given.args, given.files) # Unreadable
          /\ param' = ParseParameters(given.args, given.files)
          /\ Goto("log")
          /\ UNCHANGED code
    /\ UNCHANGED <<served, pools, reqVars>>

(* logutil.Setup may fail.  The pools are the first that serve makes.      *)
SetupLog ==
    /\ phase = "log"
    /\ \/ Goto("setup") /\ pools' = Pool /\ UNCHANGED code
       \/ param.logType # "" /\ Fails("exit", 1) /\ UNCHANGED pools
    /\ UNCHANGED <<given, param, served, reqVars>>

KnownTypes ==
    /\ param.keyDbType \in {"file", "redis"}
    /\ param.webDbType \in {"direct", "redis"}
    /\ param.idpDbType = "mongo"
    /\ param.asessDbType \in {"memory", "redis"}
    /\ param.tokDbType \in {"memory", "redis"}

Routes == {param.pathOk, param.pathAuth, param.pathCb, param.pathCoop}

(* ServeMux panics at an empty path and at the second handler of one path. *)
BadRoute ==
    \/ "" \in Routes
    \/ \E f, g \in {"pathOk", "pathAuth", "pathCb", "pathCoop"} : f # g /\ param[f] = param[g]

(* The deferred calls close the pools whatever becomes of the rest.        *)
Setup ==
    /\ phase = "setup"
    /\ \/ KnownTypes /\ ~BadRoute /\ Goto("serve") /\ UNCHANGED code
       \/ ~KnownTypes /\ Fails("closeMon", 1)
       \/ param.idpDbType = "mongo" /\ Fails("closeMon", 1)
       \/ KnownTypes /\ param.tmplErr # "" /\ Fails("closeMon", 1)
       \/ KnownTypes /\ BadRoute /\ Fails("closeMon", 2)
    /\ UNCHANGED <<given, param, served, pools, reqVars>>

(* server.Serve: it listens, and returns without an error when told to.    *)
Listen ==
    /\ phase = "serve" /\ ~served
    /\ \/ served' = TRUE /\ UNCHANGED <<phase, code>>
       \/ Fails("wait", 1) /\ UNCHANGED served
    /\ UNCHANGED <<given, param, pools, reqVars>>

Shutdown ==
    /\ phase = "serve" /\ served
    /\ \E c \in {0, 1} : Fails("wait", c)
    /\ UNCHANGED <<given, param, served, pools, reqVars>>

(* The lock is held from the check until the wait.                         *)
Wait ==
    /\ phase = "wait"
    /\ Goto(IF stops = {} THEN "closeMon" ELSE "asleep")
    /\ UNCHANGED <<given, param, code, served, pools, reqVars>>

(* A mutant: "if" for "for".                                               *)
WokenOnce == "closeMon"

(* Where main goes on when Unstop wakes it.                                *)
Woken == "wait"

ClosePool ==
    /\ \/ phase = "closeMon" /\ pools' = pools \ {"mongo"} /\ Goto("closeRed")
       \/ phase = "closeRed" /\ pools' = pools \ {"redis"} /\ Goto("exit")
    /\ UNCHANGED <<given, param, code, served, reqVars>>

(* The end of main, and of every handler that is left.                     *)
Exit ==
    /\ phase = "exit"
    /\ Goto("exited")
    /\ UNCHANGED <<given, param, code, served, pools, reqVars>>

(***************************************************************************)
(* The handlers.                                                           *)
(***************************************************************************)
ReqGoto(r, l) == pc' = [pc EXCEPT ![r] = l]

(* A mutant: nothing stands in for "/".                                    *)
RouteExact(p) ==
    CASE p = param.pathOk -> "ok"
      [] p = param.pathAuth -> "auth"
      [] p = param.pathCb -> "cb"
      [] p = param.pathCoop -> "coop"
      [] OTHER -> Missing

(* The handler that the ServeMux has for a path: "/" takes what is no      *)
(* route of its own, and serve answers it if nobody else does.             *)
Route(p) ==
    LET q == IF p \in Routes THEN p ELSE "/"
    IN  CASE q = param.pathOk -> "ok"
          [] q = param.pathAuth -> "auth"
          [] q = param.pathCb -> "cb"
          [] q = param.pathCoop -> "coop"
          [] OTHER -> "invalid"

Accept(r, p) ==
    /\ phase \in Up /\ served
    /\ pc[r] = "idle"
    /\ kind' = [kind EXCEPT ![r] = Route(p)]
    /\ ReqGoto(r, "routed")
    /\ UNCHANGED <<mainVars, stops, late, met>>

Stop(r) ==
    /\ phase # "exited"
    /\ pc[r] = "routed"
    /\ stops' = stops \cup {r}
    /\ late' = IF phase \in Drained THEN late \cup {r} ELSE late
    /\ ReqGoto(r, "work")
    /\ UNCHANGED <<mainVars, kind, met>>

(* The pools behind the DBs of a handler.                                  *)
Behind(k) ==
    LET types == CASE k = "auth" -> {param.webDbType, param.asessDbType}
                   [] k = "cb" -> {param.webDbType, param.asessDbType, param.keyDbType,
                                   param.tokDbType}
                   [] k = "coop" -> {param.webDbType, param.keyDbType, param.tokDbType}
                   [] OTHER -> {}
    IN  IF k \in {"ok", "invalid"} THEN {}
        ELSE {"mongo"} \cup (types \cap {"redis"})

(* A handler accesses its DBs, asks an IdP in between (HandleAuth does     *)
(* not), responds at any point, or panics.                                 *)
Work(r) ==
    /\ phase # "exited"
    /\ \/ /\ pc[r] \in {"work", "asked"}
          /\ ~(Behind(kind[r]) \subseteq pools)
          /\ met' = met \cup {r}
          /\ ReqGoto(r, "respond")
       \/ /\ pc[r] = "work" /\ kind[r] \in {"cb", "coop"}
          /\ ReqGoto(r, "asking")
          /\ UNCHANGED met
       \/ /\ pc[r] \in {"work", "asked"}
          /\ \E l \in {"respond", "unwind"} : ReqGoto(r, l)
          /\ UNCHANGED met
    /\ UNCHANGED <<mainVars, kind, stops, late>>

(* http.Client has no timeout: it waits for the IdP.                       *)
IdpAnswers(r) ==
    /\ phase # "exited"
    /\ pc[r] = "asking"
    /\ ReqGoto(r, "asked")
    /\ UNCHANGED <<mainVars, kind, stops, late, met>>

(* A mutant: Unstop is not deferred, so that a panic passes it by.         *)
SignsOffWhenDone(r) == pc[r] = "respond"

(* Unstop is deferred: it comes after the answer and also when a panic     *)
(* unwinds the handler, which is recovered after it.                       *)
SignsOff(r) == pc[r] \in {"respond", "unwind"}

Unstop(r) ==
    /\ phase # "exited"
    /\ pc[r] \in {"respond", "unwind"}
    /\ \/ /\ SignsOff(r)
          /\ stops' = stops \ {r}
          /\ phase' = IF phase = "asleep" THEN Woken ELSE phase
       \/ ~SignsOff(r) /\ UNCHANGED <<stops, phase>>
    /\ ReqGoto(r, "flush")
    /\ UNCHANGED <<given, param, code, served, pools, kind, late, met>>

(* net/http sends what it has buffered.                                    *)
Flush(r) ==
    /\ phase # "exited"
    /\ pc[r] = "flush"
    /\ ReqGoto(r, "answered")
    /\ UNCHANGED <<mainVars, kind, stops, late, met>>

Main == ParseArgs \/ SetupLog \/ Setup \/ Listen \/ Wait \/ ClosePool \/ Exit
Handler(r) == Stop(r) \/ Work(r) \/ Unstop(r) \/ Flush(r)

Next ==
    \/ Main
    \/ Shutdown
    \/ \E r \in Req, p \in Path : Accept(r, p)
    \/ \E r \in Req : Handler(r) \/ IdpAnswers(r)

(* main and the handlers are goroutines, which the Go scheduler runs.      *)
(* Nobody has to shut the server down and no IdP has to answer.            *)
Spec == Init /\ [][Next]_vars
FairSpec == Spec /\ WF_vars(Main) /\ \A r \in Req : WF_vars(Handler(r))

(***************************************************************************)
(* Properties.                                                             *)
(***************************************************************************)
(* The server runs with the parameters of the command line, then those of  *)
(* the config file, then the defaults, in whatever order and however often *)
(* they are given: what reading the command line twice is for.             *)
CommandLineWins ==
    [][given # Missing /\ phase' = "log" =>
           param' = Effective(given.args, given.files)]_vars

(* A handler that announced itself before main was done waiting works with *)
(* open pools to its end: none finds a pool closed, and none is still at   *)
(* work when the process exits.                                            *)
ServedOut ==
    /\ met \subseteq late
    /\ phase = "exited" => {r \in Req : pc[r] \in Working} \subseteq late

(* Whatever ended the server, both pools are closed by then, and 0 is the  *)
(* exit code only of one that has served.                                  *)
ExitsClean ==
    phase = "exited" => pools = {} /\ (code = 0 => served)

(* When server.Serve has returned, the process exits, panics of handlers   *)
(* or not, unless some handler waits for its IdP for ever.  Requests are   *)
(* one-shot and finitely many here: clients that keep sending over kept    *)
(* connections, so that some handler is always at work, would keep main    *)
(* waiting.                                                                *)
ShutsDown ==
    (\A r \in Req : pc[r] = "asking" ~> pc[r] # "asking")
        => (phase = "wait" ~> phase = "exited")
=============================================================================
