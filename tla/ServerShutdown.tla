--------------------------- MODULE ServerShutdown ---------------------------
(***************************************************************************)
(* Start and shutdown of the server (cmd/server/main.go, pkg/http and      *)
(* pkg/grpc): the main goroutine, the goroutine that serves gRPC, the one  *)
(* that serves health checks, and the RunFunction calls in flight.  Each   *)
(* Start sets the server field that Stop reads, with no synchronisation.   *)
(***************************************************************************)
EXTENDS Configuration

CONSTANT Calls   \* RunFunction calls a client may have in flight

VARIABLES
  main,      \* the main goroutine
  cfg,       \* its configuration
  httpd,     \* the goroutine of the health check server
  httpErr,   \* what its ListenAndServe returned
  httpShut,  \* has Shutdown been called on its server?
  grpcd,     \* the goroutine of the gRPC server
  grpcShut,  \* has GracefulStop been called on its server?
  call,      \* the calls
  exit       \* exit code of the process

vars == <<main, cfg, httpd, httpErr, httpShut, grpcd, grpcShut, call, exit>>

(* pkg/http declares an ErrServerClosed of its own; the server it wraps    *)
(* returns the one of net/http, another value.                             *)
PkgErrServerClosed == "pkg/http: ErrServerClosed"
NetErrServerClosed == "net/http: ErrServerClosed"
Errors == {"nil", "listen", PkgErrServerClosed, NetErrServerClosed}

Init ==
  /\ main = "load"
  /\ cfg = NoConfig
  /\ httpd = "new"
  /\ httpErr = "nil"
  /\ httpShut = FALSE
  /\ grpcd = "new"
  /\ grpcShut = FALSE
  /\ call = [c \in Calls |-> "none"]
  /\ exit = "none"

Runs == exit = "none"

(* Where main is before it starts the servers, and after the signal.       *)
Starting == {"load", "flags", "validate", "manager"}
Stopping == {"http stop", "http drain", "grpc stop", "grpc drain", "return"}

(* The process ends under whatever is in flight.                           *)
Exit(c) ==
  /\ exit' = c
  /\ call' = [d \in Calls |-> IF call[d] = "active" THEN "cut" ELSE call[d]]
  /\ UNCHANGED <<main, cfg, httpd, httpErr, httpShut, grpcd, grpcShut>>

-----------------------------------------------------------------------------
(* The start of main.                                                      *)

(* A variable that does not parse is an error, as one that is not valid.   *)
LoadConfig ==
  /\ Runs
  /\ main = "load"
  /\ \E env \in Environment :
       \/ /\ Valid(Loaded(env))
          /\ main' = "flags"
          /\ cfg' = Loaded(env)
          /\ UNCHANGED <<httpd, httpErr, httpShut, grpcd, grpcShut, call, exit>>
       \/ ~Valid(Loaded(env)) /\ Exit("1")

(* flag.Parse ends the process itself: with 0 for --help, with 2 for a     *)
(* flag that it does not know or that does not parse.                      *)
ParseFlags ==
  /\ Runs
  /\ main = "flags"
  /\ \/ \E f \in Flags :
          /\ main' = "validate"
          /\ cfg' = Override(cfg, f)
          /\ UNCHANGED <<httpd, httpErr, httpShut, grpcd, grpcShut, call, exit>>
     \/ Exit("0")
     \/ Exit("2")

(* Faulty variant: the flags are taken as they are.                        *)
SkipValidate ==
  /\ Runs
  /\ main = "validate"
  /\ main' = "manager"
  /\ UNCHANGED <<cfg, httpd, httpErr, httpShut, grpcd, grpcShut, call, exit>>

Validate ==
  /\ Runs
  /\ main = "validate"
  /\ \/ /\ Valid(cfg)
        /\ main' = "manager"
        /\ UNCHANGED <<cfg, httpd, httpErr, httpShut, grpcd, grpcShut, call, exit>>
     \/ ~Valid(cfg) /\ Exit("1")

(* The directory of the process manager may not be made.  Then main starts *)
(* the goroutines of both servers.                                         *)
NewProcessManager ==
  /\ Runs
  /\ main = "manager"
  /\ \/ /\ main' = "started"
        /\ UNCHANGED <<cfg, httpd, httpErr, httpShut, grpcd, grpcShut, call, exit>>
     \/ Exit("1")

(* signal.Notify.                                                          *)
Notify ==
  /\ Runs
  /\ main = "started"
  /\ main' = "serving"
  /\ UNCHANGED <<cfg, httpd, httpErr, httpShut, grpcd, grpcShut, call, exit>>

(* Until then a signal ends the process.                                   *)
EarlySignal ==
  /\ Runs
  /\ main \in Starting \cup {"started"}
  /\ Exit("signal")

-----------------------------------------------------------------------------
(* pkg/http.                                                               *)

HttpCreate ==
  /\ Runs
  /\ main \notin Starting
  /\ httpd = "new"
  /\ httpd' = "created"
  /\ UNCHANGED <<main, cfg, httpErr, httpShut, grpcd, grpcShut, call, exit>>

(* ListenAndServe: the port may be taken, or Shutdown was there before.    *)
HttpServe ==
  /\ Runs
  /\ httpd = "created"
  /\ \/ httpShut /\ httpd' = "returned" /\ httpErr' = NetErrServerClosed
     \/ ~httpShut /\ httpd' = "serving" /\ UNCHANGED httpErr
     \/ ~httpShut /\ httpd' = "returned" /\ httpErr' = "listen"
  /\ UNCHANGED <<main, cfg, httpShut, grpcd, grpcShut, call, exit>>

(* Shutdown makes ListenAndServe return at once.                           *)
HttpReturn ==
  /\ Runs
  /\ httpd = "serving"
  /\ httpShut
  /\ httpd' = "returned"
  /\ httpErr' = NetErrServerClosed
  /\ UNCHANGED <<main, cfg, httpShut, grpcd, grpcShut, call, exit>>

(* main.go: every other error than http.ErrServerClosed is fatal.          *)
HttpFatal ==
  /\ Runs
  /\ httpd = "returned"
  /\ httpErr \notin {"nil", PkgErrServerClosed}
  /\ Exit("1")

-----------------------------------------------------------------------------
(* pkg/grpc.                                                               *)

(* The address may be taken.                                               *)
GrpcListen ==
  /\ Runs
  /\ main \notin Starting
  /\ grpcd = "new"
  /\ grpcd' \in {"listening", "failed"}
  /\ UNCHANGED <<main, cfg, httpd, httpErr, httpShut, grpcShut, call, exit>>

(* With TLS the certificate may not load; without both files, which        *)
(* Validate lets pass when XFUNCJS_INSECURE is set, it does not.           *)
GrpcCreate ==
  /\ Runs
  /\ grpcd = "listening"
  /\ \/ (cfg.tls => HasFiles(cfg)) /\ grpcd' = "created"
     \/ cfg.tls /\ grpcd' = "failed"
  /\ UNCHANGED <<main, cfg, httpd, httpErr, httpShut, grpcShut, call, exit>>

(* Serve after GracefulStop is an error, ErrServerStopped.                 *)
GrpcServe ==
  /\ Runs
  /\ grpcd = "created"
  /\ grpcd' = IF grpcShut THEN "failed" ELSE "serving"
  /\ UNCHANGED <<main, cfg, httpd, httpErr, httpShut, grpcShut, call, exit>>

GrpcFatal ==
  /\ Runs
  /\ grpcd = "failed"
  /\ Exit("1")

(* Faulty variant: a server that drains goes on taking calls.              *)
BeginWhileDraining(c) ==
  /\ Runs
  /\ grpcd = "serving"
  /\ call[c] = "none"
  /\ call' = [call EXCEPT ![c] = "active"]
  /\ UNCHANGED <<main, cfg, httpd, httpErr, httpShut, grpcd, grpcShut, exit>>

Begin(c) ==
  /\ Runs
  /\ grpcd = "serving"
  /\ ~grpcShut
  /\ call[c] = "none"
  /\ call' = [call EXCEPT ![c] = "active"]
  /\ UNCHANGED <<main, cfg, httpd, httpErr, httpShut, grpcd, grpcShut, exit>>

End(c) ==
  /\ Runs
  /\ call[c] = "active"
  /\ call' = [call EXCEPT ![c] = "none"]
  /\ UNCHANGED <<main, cfg, httpd, httpErr, httpShut, grpcd, grpcShut, exit>>

-----------------------------------------------------------------------------
(* The main goroutine.  It reads one signal, which may come before the     *)
(* servers are there; a second one changes nothing.                        *)

Signal ==
  /\ Runs
  /\ main = "serving"
  /\ main' = "http stop"
  /\ UNCHANGED <<cfg, httpd, httpErr, httpShut, grpcd, grpcShut, call, exit>>

(* Stop does nothing while the server field is not set.                    *)
HttpStop ==
  /\ Runs
  /\ main = "http stop"
  /\ \/ httpd = "new" /\ main' = "grpc stop" /\ UNCHANGED httpShut
     \/ httpd # "new" /\ main' = "http drain" /\ httpShut' = TRUE
  /\ UNCHANGED <<cfg, httpd, httpErr, grpcd, grpcShut, call, exit>>

(* The health checks in flight have ended, or the 5 s are over.            *)
HttpDrained ==
  /\ Runs
  /\ main = "http drain"
  /\ main' = "grpc stop"
  /\ UNCHANGED <<cfg, httpd, httpErr, httpShut, grpcd, grpcShut, call, exit>>

GrpcStop ==
  /\ Runs
  /\ main = "grpc stop"
  /\ \/ grpcd \in {"new", "listening", "failed"} /\ main' = "return" /\ UNCHANGED grpcShut
     \/ grpcd \in {"created", "serving"} /\ main' = "grpc drain" /\ grpcShut' = TRUE
  /\ UNCHANGED <<cfg, httpd, httpErr, httpShut, grpcd, call, exit>>

(* Faulty variant: Stop instead of GracefulStop.                           *)
GrpcStopped ==
  /\ Runs
  /\ main = "grpc drain"
  /\ main' = "return"
  /\ UNCHANGED <<cfg, httpd, httpErr, httpShut, grpcd, grpcShut, call, exit>>

(* GracefulStop waits for every call, for as long as it takes.             *)
GrpcDrained ==
  /\ Runs
  /\ main = "grpc drain"
  /\ \A c \in Calls : call[c] # "active"
  /\ main' = "return"
  /\ UNCHANGED <<cfg, httpd, httpErr, httpShut, grpcd, grpcShut, call, exit>>

Return ==
  /\ Runs
  /\ main = "return"
  /\ Exit("0")

-----------------------------------------------------------------------------

HttpStep == HttpCreate \/ HttpServe \/ HttpReturn \/ HttpFatal
GrpcStep == GrpcListen \/ GrpcCreate \/ GrpcServe \/ GrpcFatal
StartStep == LoadConfig \/ ParseFlags \/ Validate \/ NewProcessManager \/ Notify
MainStep == StartStep \/ HttpStop \/ HttpDrained \/ GrpcStop \/ GrpcDrained \/ Return

Next ==
  \/ HttpStep \/ GrpcStep \/ MainStep \/ EarlySignal \/ Signal
  \/ \E c \in Calls : Begin(c) \/ End(c)

Spec == Init /\ [][Next]_vars

(* Goroutines that can run do, and every call ends (CallReturns in         *)
(* ProcessManager).  Nothing makes a signal or a call come.                *)
Fairness ==
  WF_vars(HttpStep) /\ WF_vars(GrpcStep) /\ WF_vars(MainStep) /\ \A c \in Calls : WF_vars(End(c))

FairSpec == Spec /\ Fairness
-----------------------------------------------------------------------------
(* Properties.                                                             *)

TypeOK ==
  /\ main \in Starting \cup {"started", "serving"} \cup Stopping
  /\ cfg \in Config
  /\ httpd \in {"new", "created", "serving", "returned"}
  /\ httpErr \in Errors
  /\ httpShut \in BOOLEAN
  /\ grpcd \in {"new", "listening", "created", "serving", "failed"}
  /\ grpcShut \in BOOLEAN
  /\ call \in [Calls -> {"none", "active", "cut"}]
  /\ exit \in {"none", "0", "1", "2", "signal"}

(* main.go, "Validate configuration": whatever the environment and the     *)
(* flags say, the servers and the process manager exist only with settings *)
(* that passed as a whole: the collector's ticker has an interval and the  *)
(* install queue a slot.  With XFUNCJS_INSECURE that does not give TLS its *)
(* files; a gRPC server that can take calls over TLS has them all the same.*)
ServesValid ==
  /\ main \notin Starting \/ httpd # "new" \/ grpcd # "new" => Valid(cfg)
  /\ grpcd \in {"created", "serving"} /\ cfg.tls => HasFiles(cfg)

(* What it rests on: the goroutines start after main has been through all  *)
(* of its checks, and nothing sets the configuration after the last one.   *)
StartInv ==
  /\ main \in Starting => httpd = "new" /\ grpcd = "new"
  /\ main \notin Starting \/ main = "manager" => Valid(cfg)
  /\ grpcd \in {"created", "serving"} /\ cfg.tls => HasFiles(cfg)

(* "Shutdown complete": when the process ends with 0 and Stop has found a  *)
(* gRPC server to stop, no RunFunction call is cut off.  (A signal that    *)
(* comes before Start has set the field finds none, and nothing drains.)   *)
ExitZeroDrained == exit = "0" /\ grpcShut => \A c \in Calls : call[c] # "cut"

(* What the drain rests on: GracefulStop is called once main is past the   *)
(* health checks, and after it no call is in flight and none can begin.    *)
DrainedBeforeReturn ==
  /\ main \notin {"grpc drain", "return"} => ~grpcShut
  /\ main = "grpc drain" => grpcShut
  /\ main = "return" /\ grpcShut => \A c \in Calls : call[c] # "active"

(* The inductive invariant: the drain, and that only the end of the        *)
(* process cuts a call off.                                                *)
DrainInv ==
  /\ TypeOK
  /\ DrainedBeforeReturn
  /\ Runs => \A c \in Calls : call[c] # "cut"
  /\ ExitZeroDrained


(* Once the signal has come the process ends, wherever the servers are.    *)
ShutdownEnds == main \in Stopping ~> ~Runs
=============================================================================
