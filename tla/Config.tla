------------------------------- MODULE Config -------------------------------
(***************************************************************************)
(* Start-up configuration of the proxy: config.InitConfig (config.go) run  *)
(* on one command line.  Settings start at the defaults of init(), a       *)
(* server file named by -config overrides the non-zero fields it carries, *)
(* then the flag package parses the command line and mergeWithFlags       *)
(* copies every flag it finds named on the command line.                  *)
(*                                                                         *)
(* Data is abstracted to what the precedence rules tell apart.  A command- *)
(* line argument is a record [dash, name, val] standing for the string     *)
(* of dash '-' characters, then name, then "=val" when val # NoVal; a     *)
(* plain word has dash = 0.  A setting's value is a literal Lit("zero")    *)
(* (Go's zero value, Lit("false") for a bool), Lit("dflt") (the constant   *)
(* of type.go it starts from), Lit("file") (a non-zero value read from the *)
(* server file), Lit("true"), the pprof address literal, or [arg |-> a]    *)
(* for the string of argument a.                                          *)
(***************************************************************************)
EXTENDS Naturals, Sequences, SequencesExt

CONSTANTS
  Names,     \* flag names written on the command lines considered
  Words,     \* plain words; Numeral is the one that parses as a number
  Numeral,
  NoVal,     \* "no =value part"
  Files,     \* file name (a word) -> [fields the server file sets -> value]
  MaxArgs    \* longest command line considered

VARIABLES
  argv,      \* os.Args[1:]
  conf,      \* InitConfig's conf: the server file name found, "" if none
  cfg,       \* Cfg.dbConfPath, *Cfg.server and *Cfg.log, by flag name
  flags,     \* what fs.Parse set: flag name -> value (the fs.actual map)
  pc,        \* the step of InitConfig about to run
  exit       \* how start-up ended: "none", "usage", "version", "error", "panic"

vars == <<argv, conf, cfg, flags, pc, exit>>

Arg(d, n, v) == [dash |-> d, name |-> n, val |-> v]
Word(w) == Arg(0, w, NoVal)
Empty == Word("")
Lit(s) == [lit |-> s]

(* The flags InitConfig declares and mergeWithFlags copies.              *)
Settings ==
  {"db-conf", "server-name", "server-address", "server-port", "monitor-port",
   "client-max-num", "client-max-idle", "time-task-interval", "log-module",
   "log-level", "log-dir", "log-suffix", "log-max-cout", "pprof-enable",
   "pprof-addr"}
IntFlags ==
  {"server-port", "monitor-port", "client-max-num", "client-max-idle",
   "time-task-interval", "log-max-cout"}
BoolFlags == {"pprof-enable", "version"}
FlagNames == Settings \cup {"config", "version"}

ZeroOf(k) == IF k \in BoolFlags THEN Lit("false") ELSE Lit("zero")

(* The default each flag is declared with. *)
FlagDefault(k) ==
  CASE k \in {"db-conf", "config"} -> Lit("zero")
    [] k = "pprof-enable"          -> Lit("true")
    [] k = "pprof-addr"            -> Lit("localhost:6060")
    [] k = "version"               -> Lit("false")
    [] OTHER                       -> Lit("dflt")

(* Cfg as init() leaves it: the pprof fields are not set. *)
InitCfg == [k \in Settings |-> IF k \in {"pprof-enable", "pprof-addr"}
                                THEN ZeroOf(k) ELSE Lit("dflt")]

StringInSlice(needle, s) == SelectInSeq(s, LAMBDA a : a = needle)
HasPrefixWithInSlice(s) ==
  SelectInSeq(s, LAMBDA a : a.dash = 1 /\ a.name = "config" /\ a.val # NoVal)

(* The string of an argument as a value; the empty string is zero. *)
StrVal(a) == IF a = Empty THEN Lit("zero") ELSE [arg |-> a]

(* parseServerConfFromFile: the file can be read and decoded (it is one  *)
(* of Files), and then the fields it sets.                                *)
Readable(name) ==
  "arg" \in DOMAIN name /\ name.arg.dash = 0 /\ name.arg.name \in DOMAIN Files
ParseServerConfFromFile(name) == Files[name.arg.name]

(* mergeServerConf and mergeLogConf, with the dbconf copy before them:    *)
(* every non-zero field but the two pprof ones.                           *)
MergeFileConf(c, file) ==
  [k \in Settings |->
     IF k \in DOMAIN file \ {"pprof-enable", "pprof-addr"} /\ file[k] # ZeroOf(k)
     THEN file[k] ELSE c[k]]

(* flag.Value.Set on a string s: ints and bools accept only the numeral   *)
(* (0, false) of the words considered; Bad is a parse error.              *)
Bad == Lit("bad")
SetValue(k, s) ==
  CASE k \in IntFlags  -> IF s = Word(Numeral) THEN Lit("zero") ELSE Bad
    [] k \in BoolFlags -> IF s = Word(Numeral) THEN Lit("false") ELSE Bad
    [] OTHER           -> StrVal(s)

(* fs.Parse with ContinueOnError (Go flag.FlagSet.parseOne in a loop):    *)
(* stops at the first non-flag argument or after "--"; "-name=v",         *)
(* "--name=v", "-name v" and "--name v" set a flag, a bool flag needs no  *)
(* value; an unknown name, a bad value or a missing value is an error.    *)
RECURSIVE ParseArgs(_, _)
ParseArgs(args, actual) ==
  LET a    == Head(args)
      k    == a.name
      Fail == [err |-> "fail", actual |-> actual]
      Put(v, rest) == IF v = Bad THEN Fail
                      ELSE ParseArgs(rest, (k :> v) @@ actual)
  IN CASE args = <<>>                                -> [err |-> "nil", actual |-> actual]
       [] a.dash = 0 \/ a = Arg(1, "", NoVal)        -> [err |-> "nil", actual |-> actual]
       [] a = Arg(2, "", NoVal)                      -> [err |-> "nil", actual |-> actual]
       [] k = ""                                     -> Fail
       [] k \in {"h", "help"}                        -> [err |-> "help", actual |-> actual]
       [] k \notin FlagNames                         -> Fail
       [] k \in BoolFlags /\ a.val = NoVal           -> Put(Lit("true"), Tail(args))
       [] a.val # NoVal                              -> Put(SetValue(k, Word(a.val)), Tail(args))
       [] k \notin BoolFlags /\ Len(args) > 1        -> Put(SetValue(k, args[2]), Tail(Tail(args)))
       [] OTHER                                      -> Fail

(* mergeWithFlags: every argument starting with one '-' whose name is a   *)
(* setting copies that flag's variable, set by fs.Parse or still at its   *)
(* default; v[0] of an empty argument is an index-out-of-range panic.     *)
Named(args) == {args[i].name : i \in {j \in DOMAIN args : args[j].dash = 1}} \cap Settings
MergeWithFlags(c, actual, args) ==
  [k \in Settings |->
     IF k \notin Named(args) THEN c[k]
     ELSE IF k \in DOMAIN actual THEN actual[k] ELSE FlagDefault(k)]

-----------------------------------------------------------------------------
(* The arguments considered: the words, the empty string, and one or two *)
(* dashes before a name (or none, as in "-" and "--"), with or without a  *)
(* value.                                                                 *)
ArgSet == {Word(w) : w \in Words \cup {""}}
          \cup {Arg(d, n, v) : d \in {1, 2}, n \in Names \cup {""}, v \in Words \cup {NoVal}}
Args == UNION {[1..n -> ArgSet] : n \in 0..MaxArgs}

Init ==
  /\ argv \in Args
  /\ conf = Lit("zero")
  /\ cfg = InitCfg
  /\ flags = <<>>
  /\ pc = "scan"
  /\ exit = "none"

Exit(how) == pc' = "exit" /\ exit' = how

(* The hand scan for the server file: "-config f" or "-config=f". *)
ScanConfigFlag ==
  LET i == StringInSlice(Arg(1, "config", NoVal), argv)
      j == HasPrefixWithInSlice(argv)
  IN /\ pc = "scan"
     /\ \/ i # 0 /\ Len(argv) < i + 1 /\ Exit("usage") /\ UNCHANGED conf
        \/ i # 0 /\ Len(argv) >= i + 1 /\ conf' = StrVal(argv[i + 1])
           /\ pc' = "file" /\ UNCHANGED exit
        \/ i = 0 /\ j # 0 /\ conf' = StrVal(Word(argv[j].val))
           /\ pc' = "file" /\ UNCHANGED exit
        \/ i = 0 /\ j = 0 /\ pc' = "file" /\ UNCHANGED <<conf, exit>>
     /\ UNCHANGED <<argv, cfg, flags>>

(* Read the server file and replace the defaults it sets. *)
LoadServerFile ==
  /\ pc = "file"
  /\ \/ conf = Lit("zero") /\ pc' = "flags" /\ UNCHANGED <<cfg, exit>>
     \/ conf # Lit("zero") /\ ~Readable(conf) /\ Exit("error") /\ UNCHANGED cfg
     \/ conf # Lit("zero") /\ Readable(conf)
        /\ cfg' = MergeFileConf(cfg, ParseServerConfFromFile(conf))
        /\ pc' = "flags" /\ UNCHANGED exit
  /\ UNCHANGED <<argv, conf, flags>>

(* fs.Parse, then -h/-help prints the flags and exits, an error exits 2,  *)
(* -version prints the version and exits.                                 *)
ParseCmdLine ==
  LET r        == ParseArgs(argv, <<>>)
      printVer == "version" \in DOMAIN r.actual /\ r.actual["version"] = Lit("true")
  IN /\ pc = "flags"
     /\ \/ r.err = "help" /\ Exit("usage") /\ UNCHANGED flags
        \/ r.err = "fail" /\ Exit("error") /\ UNCHANGED flags
        \/ r.err = "nil" /\ printVer /\ Exit("version") /\ UNCHANGED flags
        \/ r.err = "nil" /\ ~printVer /\ flags' = r.actual /\ pc' = "merge"
           /\ UNCHANGED exit
     /\ UNCHANGED <<argv, conf, cfg>>

MergeFlags ==
  /\ pc = "merge"
  /\ \/ Empty \in Range(argv) /\ Exit("panic") /\ UNCHANGED cfg
     \/ Empty \notin Range(argv) /\ cfg' = MergeWithFlags(cfg, flags, argv)
        /\ pc' = "backends" /\ UNCHANGED exit
  /\ UNCHANGED <<argv, conf, flags>>

(* The db file named by dbConfPath is read or start-up fails; its content *)
(* (the backends) is not modelled here.                                   *)
LoadBackends ==
  /\ pc = "backends"
  /\ \/ pc' = "started" /\ UNCHANGED exit
     \/ Exit("error")
  /\ UNCHANGED <<argv, conf, cfg, flags>>

Next == ScanConfigFlag \/ LoadServerFile \/ ParseCmdLine \/ MergeFlags \/ LoadBackends

Spec == Init /\ [][Next]_vars

-----------------------------------------------------------------------------
TypeOK ==
  /\ argv \in Seq(ArgSet)
  /\ DOMAIN cfg = Settings
  /\ DOMAIN flags \subseteq FlagNames
  /\ pc \in {"scan", "file", "flags", "merge", "backends", "started", "exit"}
  /\ exit \in {"none", "usage", "version", "error", "panic"}

(* The precedence TestInitConfigWithFileAndFlags states for InitConfig:   *)
(* once the flags are merged, a setting the flag package parsed from the  *)
(* command line has that value, and one it did not parse keeps the value *)
(* the -config file the flag package saw gives it.                       *)
FileNamed == "config" \in DOMAIN flags /\ Readable(flags["config"])
ConfigPrecedence ==
  pc \in {"backends", "started"} =>
    \A k \in Settings :
      IF k \in DOMAIN flags THEN cfg[k] = flags[k]
      ELSE FileNamed /\ k \in DOMAIN ParseServerConfFromFile(flags["config"])
           => cfg[k] = ParseServerConfFromFile(flags["config"])[k]
=============================================================================
