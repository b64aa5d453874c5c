---------------------------- MODULE Configuration ----------------------------
(***************************************************************************)
(* The configuration of the server (pkg/config/config.go) and what main    *)
(* makes of it with the command line.  A file name is "" or given.  The    *)
(* address and the durations, which the environment and flags can set, are *)
(* one setting, valid or not; the number of concurrent installs has no     *)
(* flag.  The directory has a default and is never empty.                  *)
(***************************************************************************)

Setting == {"valid", "invalid"}
File == {"", "given"}

Environment ==
  [settings : Setting, installs : Setting, tls : BOOLEAN, cert : File, key : File,
   insecure : BOOLEAN,   \* XFUNCJS_INSECURE, from the name of the field
   certsDir : BOOLEAN]   \* TLS_SERVER_CERTS_DIR, the legacy variable

Flags ==
  [settings : Setting \cup {"absent"}, tls : {"true", "false", "absent"},
   cert : File, key : File, insecure : BOOLEAN]

Config ==
  [settings : Setting, installs : Setting, tls : BOOLEAN, insecure : BOOLEAN,
   cert : File, key : File]

NoConfig ==
  [settings |-> "invalid", installs |-> "invalid", tls |-> FALSE, insecure |-> FALSE,
   cert |-> "", key |-> ""]

(* LoadConfig before it validates.                                         *)
Loaded(env) ==
  [settings |-> env.settings,
   installs |-> env.installs,
   tls |-> env.tls \/ env.certsDir,
   insecure |-> env.insecure,
   cert |-> IF env.certsDir THEN "given" ELSE env.cert,
   key |-> IF env.certsDir THEN "given" ELSE env.key]

(* Validate.                                                               *)
Valid(c) ==
  /\ c.settings = "valid"
  /\ c.tls /\ ~c.insecure => c.cert # "" /\ c.key # ""
  /\ c.installs = "valid"

(* What the credentials are loaded from.                                   *)
HasFiles(c) == c.cert # "" /\ c.key # ""

(* main: the flags have the configuration as their defaults; an empty file *)
(* name is no name, and --insecure overrides what concerns TLS.  No flag   *)
(* takes back what the environment said of insecure.                       *)
Override(c, f) ==
  [settings |-> IF f.settings = "absent" THEN c.settings ELSE f.settings,
   installs |-> c.installs,
   tls |-> ~f.insecure /\ (IF f.tls = "absent" THEN c.tls ELSE f.tls = "true"),
   insecure |-> c.insecure \/ f.insecure,
   cert |-> IF f.insecure \/ f.cert = "" THEN c.cert ELSE f.cert,
   key |-> IF f.insecure \/ f.key = "" THEN c.key ELSE f.key]
=============================================================================
