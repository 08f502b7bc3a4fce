----------------------------- MODULE MC_Config -----------------------------
(* Instantiation of Config for TLC: command lines of up to three          *)
(* arguments over an int, a string, a bool flag, -config and -version,    *)
(* the words "0" (a number) and "x" (a string, and the one readable       *)
(* server file), which sets the db path, the port, the log level and      *)
(* pprof.                                                                 *)
EXTENDS Config

MCNames == {"config", "server-port", "log-level", "pprof-enable", "version"}
MCWords == {"0", "x"}
MCFiles ==
  "x" :> [k \in {"db-conf", "server-port", "log-level", "pprof-enable"} |->
            IF k = "pprof-enable" THEN Lit("true") ELSE Lit("file")]
=============================================================================
