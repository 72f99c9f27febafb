----------------------------- MODULE Parameters -----------------------------
(***************************************************************************)
(* parseParameters (parameter.go): the flags of the command line and of    *)
(* the file that the flag -c names.  Only the flags that steer the server  *)
(* are kept; types, lengths and lifetimes are left to the modules they     *)
(* matter to.                                                              *)
(***************************************************************************)
EXTENDS Naturals, Sequences

CONSTANTS
    Text,       \* the values of flags
    Plain,      \* a word that is not a flag
    Malformed,  \* a flag nobody knows, or with a value not of its type
    Missing,    \* the content of a file that does not exist
    Unreadable  \* the content of a file that cannot be read

Default ==
    [c |-> "", logType |-> "", tmplErr |-> "",
     pathOk |-> "/ok", pathAuth |-> "/", pathCb |-> "/callback", pathCoop |-> "/api",
     keyDbType |-> "file", webDbType |-> "redis", idpDbType |-> "mongo",
     asessDbType |-> "redis", tokDbType |-> "redis"]

Flag == DOMAIN Default

ASSUME TextAssumption == \A f \in Flag : Default[f] \in Text

(* What FlagSet.Parse makes of the words of a command line or of a file.   *)
Word == [flag : Flag, value : Text] \cup {Plain, Malformed}

(* FlagSet.Parse stops at the first word that is not a flag.               *)
Read(words) == {i \in DOMAIN words : \A j \in 1 .. i : words[j] # Plain}
Refused(words) == \E i \in Read(words) : words[i] = Malformed
Setting(words, f) == {i \in Read(words) : words[i] # Malformed /\ words[i].flag = f}

(* The last one of several settings counts.                                *)
Value(words, f) ==
    words[CHOOSE i \in Setting(words, f) : \A j \in Setting(words, f) : j <= i].value

(* FlagSet.Parse over variables that have the values v.                    *)
Parse(words, v) ==
    [f \in Flag |-> IF Setting(words, f) # {} THEN Value(words, f) ELSE v[f]]

(* The content of the file that the command line names.                    *)
Config(args, files) ==
    LET name == Parse(args, Default).c IN IF name = "" THEN Missing ELSE files[name]

(* flag.ExitOnError ends the process.                                      *)
Exits(args, files) ==
    \/ Refused(args)
    \/ Config(args, files) \notin {Missing, Unreadable} /\ Refused(Config(args, files))

(* A mutant: the command line is not read again.                           *)
ParseParametersOnce(args, files) ==
    LET first == Parse(args, Default)
    IN  IF Config(args, files) = Missing THEN first ELSE Parse(Config(args, files), first)

(* The command line is read, then the file it names, then the command line *)
(* again.  A file that does not exist is passed over.                      *)
ParseParameters(args, files) ==
    LET first == Parse(args, Default)
        second == IF Config(args, files) = Missing THEN first
                  ELSE Parse(Config(args, files), first)
    IN  Parse(args, second)

(* What the parameters are meant to be: those of the command line over     *)
(* those of the file over the defaults.                                    *)
Effective(args, files) ==
    [f \in Flag |->
        IF Setting(args, f) # {} THEN Value(args, f)
        ELSE IF Config(args, files) # Missing /\ Setting(Config(args, files), f) # {}
             THEN Value(Config(args, files), f)
        ELSE Default[f]]
=============================================================================
