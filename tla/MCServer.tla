------------------------------ MODULE MCServer ------------------------------
(* Instance of Server for TLC.                                             *)
EXTENDS Server

SomeText ==
    {Default[f] : f \in Flag} \cup {"conf", "memory", "nosql", "error.html"}

Set(f, v) == [flag |-> f, value |-> v]
UpTo(n, words) == UNION {[1 .. k -> words] : k \in 0 .. n}

(* A flag that the file sets too, one that it does not, a path twice or    *)
(* empty, an unknown DB.                                                   *)
SomeArgs ==
    UpTo(2, {Set("c", "conf"), Set("asessDbType", "memory"), Set("tmplErr", "error.html"),
             Plain, Malformed})

Contents ==
    UpTo(1, {Set("pathCb", ""), Set("logType", "file")})
        \cup UpTo(2, {Set("asessDbType", "redis"), Set("asessDbType", "nosql"),
                      Set("pathCb", "/ok"), Plain, Malformed})

SomeFiles == [{"conf"} -> Contents \cup {Missing, Unreadable}]
SomePaths == {"/ok", "/callback", "/favicon.ico"}
=============================================================================
