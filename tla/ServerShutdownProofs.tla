------------------------ MODULE ServerShutdownProofs ------------------------
(* The servers start with a valid configuration only, and a shutdown that  *)
(* ends with exit code 0 has drained the gRPC server, for any set of calls *)
(* and a signal at any moment.                                             *)
EXTENDS ServerShutdown, TLAPS

(* The invariant holds before main starts.                                 *)
LEMMA InitInv == Init => DrainInv
<1>1. NoConfig \in Config
  BY DEF NoConfig, Config, Setting, File
<1>2. Init => TypeOK
  BY <1>1 DEF Init, TypeOK, Starting, Errors
<1>3. Init => DrainedBeforeReturn /\ ExitZeroDrained /\ \A c \in Calls : call[c] # "cut"
  BY DEF Init, DrainedBeforeReturn, ExitZeroDrained
<1>4. QED
  BY <1>2, <1>3 DEF DrainInv

(* The end of the process cuts off what is in flight, which is nothing if  *)
(* it ends with 0 after a drain.                                           *)
LEMMA ExitInv ==
  ASSUME DrainInv, Runs, NEW c \in {"0", "1", "2", "signal"}, Exit(c), c = "0" => main # "grpc drain"
  PROVE  DrainInv'
<1>1. call' = [d \in Calls |-> IF call[d] = "active" THEN "cut" ELSE call[d]]
  BY DEF Exit
<1>2. TypeOK'
  BY <1>1 DEF DrainInv, TypeOK, Exit
<1>3. DrainedBeforeReturn'
  BY <1>1 DEF DrainInv, DrainedBeforeReturn, TypeOK, Exit
<1>4. ~Runs'
  BY DEF Exit, Runs
<1>5. ExitZeroDrained'
  <2>1. ASSUME c = "0", grpcShut, NEW d \in Calls PROVE call'[d] # "cut"
    <3>1. main = "return"
      BY <2>1 DEF DrainInv, DrainedBeforeReturn
    <3>2. QED
      BY <1>1, <2>1, <3>1 DEF DrainInv, DrainedBeforeReturn
  <2>2. QED
    BY <2>1 DEF ExitZeroDrained, Exit
<1>6. QED
  BY <1>2, <1>3, <1>4, <1>5 DEF DrainInv

(* The other steps of the servers change neither main, nor the calls, nor  *)
(* the exit code, nor whether gRPC has been told to stop.                  *)
LEMMA ServerInv ==
  ASSUME DrainInv, UNCHANGED <<main, cfg, grpcShut, call, exit>>,
         httpd' \in {"new", "created", "serving", "returned"}, httpErr' \in Errors,
         httpShut' \in BOOLEAN, grpcd' \in {"new", "listening", "created", "serving", "failed"}
  PROVE  DrainInv'
<1>1. TypeOK' /\ DrainedBeforeReturn' /\ ExitZeroDrained' /\ (Runs' <=> Runs)
  BY DEF DrainInv, TypeOK, DrainedBeforeReturn, ExitZeroDrained, Runs
<1>2. QED
  BY <1>1 DEF DrainInv

(* A step of main before the signal: the drain is far away.                *)
LEMMA StartingInv ==
  ASSUME DrainInv, Runs, main \in Starting \cup {"started"},
         main' \in Starting \cup {"started", "serving"}, cfg' \in Config,
         UNCHANGED <<httpd, httpErr, httpShut, grpcd, grpcShut, call, exit>>
  PROVE  DrainInv'
<1>1. TypeOK'
  BY DEF DrainInv, TypeOK
<1>2. DrainedBeforeReturn' /\ ExitZeroDrained' /\ (Runs' <=> Runs)
  BY DEF DrainInv, DrainedBeforeReturn, ExitZeroDrained, Runs, Starting
<1>3. QED
  BY <1>1, <1>2 DEF DrainInv

(* What LoadConfig and the flags make is a configuration.                  *)
LEMMA Configurations ==
  /\ \A env \in Environment : Loaded(env) \in Config
  /\ \A c \in Config, f \in Flags : Override(c, f) \in Config
<1>1. ASSUME NEW env \in Environment PROVE Loaded(env) \in Config
  BY DEF Environment, Loaded, Config, File, Setting
<1>2. ASSUME NEW c \in Config, NEW f \in Flags PROVE Override(c, f) \in Config
  BY DEF Flags, Override, Config, File, Setting
<1>3. QED
  BY <1>1, <1>2

(* The start of main, up to where it waits for a signal.                   *)
LEMMA StartStepInv ==
  ASSUME DrainInv, StartStep \/ EarlySignal
  PROVE  DrainInv'
<1>1. CASE LoadConfig
  <2>1. Runs /\ main = "load"
    BY <1>1 DEF LoadConfig
  <2>2. CASE Exit("1")
    BY <2>1, <2>2, ExitInv
  <2>3. CASE ~Exit("1")
    <3>1. PICK env \in Environment :
            /\ main' = "flags"
            /\ cfg' = Loaded(env)
            /\ UNCHANGED <<httpd, httpErr, httpShut, grpcd, grpcShut, call, exit>>
      BY <1>1, <2>3 DEF LoadConfig
    <3>2. QED
      BY <2>1, <3>1, Configurations, StartingInv DEF Starting
  <2>4. QED
    BY <2>2, <2>3
<1>2. CASE ParseFlags
  <2>1. Runs /\ main = "flags" /\ cfg \in Config
    BY <1>2 DEF ParseFlags, DrainInv, TypeOK
  <2>2. CASE Exit("0") \/ Exit("2")
    BY <2>1, <2>2, ExitInv
  <2>3. CASE ~(Exit("0") \/ Exit("2"))
    <3>1. PICK f \in Flags :
            /\ main' = "validate"
            /\ cfg' = Override(cfg, f)
            /\ UNCHANGED <<httpd, httpErr, httpShut, grpcd, grpcShut, call, exit>>
      BY <1>2, <2>3 DEF ParseFlags
    <3>2. QED
      BY <2>1, <3>1, Configurations, StartingInv DEF Starting
  <2>4. QED
    BY <2>2, <2>3
<1>3. CASE Validate \/ NewProcessManager \/ Notify
  <2>1. Runs /\ main \in {"validate", "manager", "started"} /\ cfg \in Config
    BY <1>3 DEF Validate, NewProcessManager, Notify, DrainInv, TypeOK
  <2>2. CASE Exit("1")
    BY <2>1, <2>2, ExitInv
  <2>3. CASE ~Exit("1")
    <3>1. /\ main' \in {"manager", "started", "serving"}
          /\ UNCHANGED <<cfg, httpd, httpErr, httpShut, grpcd, grpcShut, call, exit>>
      BY <1>3, <2>3 DEF Validate, NewProcessManager, Notify
    <3>2. QED
      BY <2>1, <3>1, StartingInv DEF Starting
  <2>4. QED
    BY <2>2, <2>3
<1>4. CASE EarlySignal
  BY <1>4, ExitInv DEF EarlySignal, Starting
<1>5. QED
  BY <1>1, <1>2, <1>3, <1>4 DEF StartStep

(* A step of the main goroutine that leaves the calls alone.               *)
LEMMA MainInv ==
  ASSUME DrainInv, Runs, HttpStop \/ HttpDrained \/ GrpcStop \/ GrpcDrained \/ Signal
  PROVE  DrainInv'
<1>1. call' = call /\ exit' = "none" /\ exit = "none"
  BY DEF Runs, HttpStop, HttpDrained, GrpcStop, GrpcDrained, Signal
<1>2. TypeOK'
  BY DEF DrainInv, TypeOK, Starting, Stopping, HttpStop, HttpDrained, GrpcStop, GrpcDrained, Signal
<1>3. DrainedBeforeReturn'
  <2>1. CASE GrpcDrained
    BY <1>1, <2>1 DEF DrainInv, DrainedBeforeReturn, GrpcDrained
  <2>2. CASE GrpcStop
    <3>1. ~grpcShut
      BY <2>2 DEF DrainInv, DrainedBeforeReturn, GrpcStop
    <3>2. \/ main' = "return" /\ ~grpcShut'
          \/ main' = "grpc drain" /\ grpcShut'
      BY <2>2, <3>1, Zenon DEF GrpcStop
    <3>3. QED
      BY <3>1, <3>2 DEF DrainedBeforeReturn
  <2>3. CASE HttpStop \/ HttpDrained \/ Signal
    <3>1. main \notin {"grpc drain", "return"} /\ main' \notin {"grpc drain", "return"}
      BY <2>3 DEF HttpStop, HttpDrained, Signal
    <3>2. grpcShut' = grpcShut
      BY <2>3 DEF HttpStop, HttpDrained, Signal
    <3>3. QED
      BY <3>1, <3>2 DEF DrainInv, DrainedBeforeReturn
  <2>4. QED
    BY <2>1, <2>2, <2>3
<1>4. QED
  BY <1>1, <1>2, <1>3 DEF DrainInv, ExitZeroDrained, Runs

(* Every step keeps it.                                                    *)
LEMMA NextInv ==
  ASSUME DrainInv, [Next]_vars
  PROVE  DrainInv'
<1>1. ASSUME HttpFatal \/ GrpcFatal PROVE DrainInv'
  BY <1>1, ExitInv DEF HttpFatal, GrpcFatal
<1>2. ASSUME Return PROVE DrainInv'
  BY <1>2, ExitInv DEF Return
<1>3. ASSUME HttpCreate \/ HttpServe \/ HttpReturn PROVE DrainInv'
  BY <1>3, ServerInv DEF HttpCreate, HttpServe, HttpReturn, DrainInv, TypeOK, Errors
<1>4. ASSUME GrpcListen \/ GrpcCreate \/ GrpcServe PROVE DrainInv'
  BY <1>4, ServerInv DEF GrpcListen, GrpcCreate, GrpcServe, DrainInv, TypeOK
<1>5. ASSUME HttpStop \/ HttpDrained \/ GrpcStop \/ GrpcDrained \/ Signal PROVE DrainInv'
  <2>1. Runs
    BY <1>5 DEF HttpStop, HttpDrained, GrpcStop, GrpcDrained, Signal
  <2>2. QED
    BY <1>5, <2>1, MainInv
<1>0. ASSUME StartStep \/ EarlySignal PROVE DrainInv'
  BY <1>0, StartStepInv
<1>6. ASSUME NEW c \in Calls, Begin(c) PROVE DrainInv'
  <2>1. call' = [call EXCEPT ![c] = "active"] /\ ~grpcShut /\ exit = "none"
    BY <1>6 DEF Begin, Runs
  <2>2. TypeOK' /\ DrainedBeforeReturn' /\ ExitZeroDrained'
    BY <1>6, <2>1 DEF Begin, DrainInv, TypeOK, DrainedBeforeReturn, ExitZeroDrained
  <2>3. \A d \in Calls : call'[d] # "cut"
    BY <2>1 DEF DrainInv, TypeOK, Runs
  <2>4. QED
    BY <2>2, <2>3 DEF DrainInv
<1>7. ASSUME NEW c \in Calls, End(c) PROVE DrainInv'
  <2>1. call' = [call EXCEPT ![c] = "none"] /\ exit = "none"
    BY <1>7 DEF End, Runs
  <2>2. TypeOK' /\ DrainedBeforeReturn' /\ ExitZeroDrained'
    BY <1>7, <2>1 DEF End, DrainInv, TypeOK, DrainedBeforeReturn, ExitZeroDrained
  <2>3. \A d \in Calls : call'[d] # "cut"
    BY <2>1 DEF DrainInv, TypeOK, Runs
  <2>4. QED
    BY <2>2, <2>3 DEF DrainInv
<1>8. ASSUME UNCHANGED vars PROVE DrainInv'
  BY <1>8, ServerInv DEF vars, DrainInv, TypeOK
<1>9. QED
  BY <1>0, <1>1, <1>2, <1>3, <1>4, <1>5, <1>6, <1>7, <1>8
     DEF Next, HttpStep, GrpcStep, MainStep

(* main.go, pkg/grpc/server.go: main gets past GracefulStop only when no   *)
(* call is active, and nothing begins afterwards.                          *)
THEOREM Drain == Spec => []DrainInv
<1>1. Init => DrainInv
  BY InitInv
<1>2. DrainInv /\ [Next]_vars => DrainInv'
  BY NextInv
<1>3. QED
  BY <1>1, <1>2, PTL DEF Spec

(* main.go, "Shutdown complete": a process that exits with 0 after it has  *)
(* stopped its gRPC server has let every RunFunction call end.             *)
THEOREM CleanExit == Spec => []ExitZeroDrained
<1>1. DrainInv => ExitZeroDrained
  BY DEF DrainInv
<1>2. QED
  BY <1>1, Drain, PTL

(* A step that is not one of main's start: it leaves the configuration, and *)
(* main's being past its checks, as they are.                              *)
LEMMA StartKept ==
  ASSUME StartInv, cfg' = cfg, main' \in Starting <=> main \in Starting,
         main' = "manager" <=> main = "manager",
         main \in Starting => UNCHANGED <<httpd, grpcd>>,
         \/ grpcd' = grpcd
         \/ grpcd' \in {"created", "serving"} /\ cfg.tls => HasFiles(cfg)
  PROVE  StartInv'
<1>1. QED
  BY DEF StartInv, HasFiles

(* Every step keeps what is valid.                                         *)
LEMMA StartNext ==
  ASSUME StartInv, [Next]_vars
  PROVE  StartInv'
<1>1. ASSUME NEW c, Exit(c) PROVE StartInv'
  BY <1>1, StartKept DEF Exit
<1>2. ASSUME HttpStep \/ GrpcStep PROVE StartInv'
  <2>1. ~Exit("1") => main \notin Starting \/ UNCHANGED <<httpd, grpcd>>
    BY <1>2 DEF StartInv, HttpStep, GrpcStep, HttpCreate, HttpServe, HttpReturn, HttpFatal,
                GrpcListen, GrpcCreate, GrpcServe, GrpcFatal
  <2>2. ~Exit("1") => cfg' = cfg /\ main' = main
    BY <1>2 DEF HttpStep, GrpcStep, HttpCreate, HttpServe, HttpReturn, HttpFatal,
                GrpcListen, GrpcCreate, GrpcServe, GrpcFatal
  <2>3. \/ grpcd' = grpcd
        \/ grpcd' \in {"created", "serving"} /\ cfg.tls => HasFiles(cfg)
    <3>1. CASE HttpStep \/ GrpcListen \/ GrpcFatal
      BY <3>1 DEF HttpStep, HttpCreate, HttpServe, HttpReturn, HttpFatal, GrpcListen, GrpcFatal, Exit
    <3>2. CASE GrpcCreate
      BY <3>2 DEF GrpcCreate
    <3>3. CASE GrpcServe
      BY <3>3 DEF StartInv, GrpcServe
    <3>4. QED
      BY <1>2, <3>1, <3>2, <3>3 DEF GrpcStep
  <2>4. QED
    BY <1>1, <2>1, <2>2, <2>3, StartKept
<1>3. ASSUME HttpStop \/ HttpDrained \/ GrpcStop \/ GrpcDrained \/ Signal \/ Notify
      PROVE  StartInv'
  BY <1>3, StartKept
     DEF HttpStop, HttpDrained, GrpcStop, GrpcDrained, Signal, Notify, Starting
<1>4. ASSUME LoadConfig \/ ParseFlags PROVE StartInv'
  <2>1. CASE Exit("0") \/ Exit("1") \/ Exit("2")
    BY <1>1, <2>1
  <2>2. CASE ~(Exit("0") \/ Exit("1") \/ Exit("2"))
    <3>1. main \in Starting /\ main' \in {"flags", "validate"} /\ UNCHANGED <<httpd, grpcd>>
      BY <1>4, <2>2 DEF LoadConfig, ParseFlags, Starting
    <3>2. QED
      BY <3>1 DEF StartInv, Starting
  <2>3. QED
    BY <2>1, <2>2
<1>5. ASSUME Validate PROVE StartInv'
  <2>1. CASE Exit("1")
    BY <1>1, <2>1
  <2>2. CASE ~Exit("1")
    <3>1. Valid(cfg) /\ main = "validate" /\ main' = "manager" /\ UNCHANGED <<cfg, httpd, grpcd>>
      BY <1>5, <2>2 DEF Validate
    <3>2. QED
      BY <3>1 DEF StartInv, Starting
  <2>3. QED
    BY <2>1, <2>2
<1>6. ASSUME NewProcessManager PROVE StartInv'
  <2>1. CASE Exit("1")
    BY <1>1, <2>1
  <2>2. CASE ~Exit("1")
    <3>1. main = "manager" /\ main' = "started" /\ UNCHANGED <<cfg, httpd, grpcd>>
      BY <1>6, <2>2 DEF NewProcessManager
    <3>2. QED
      BY <3>1 DEF StartInv, Starting
  <2>3. QED
    BY <2>1, <2>2
<1>7. ASSUME Return \/ EarlySignal PROVE StartInv'
  BY <1>1, <1>7 DEF Return, EarlySignal
<1>8. ASSUME NEW c \in Calls, Begin(c) \/ End(c) PROVE StartInv'
  BY <1>8, StartKept DEF Begin, End
<1>9. ASSUME UNCHANGED vars PROVE StartInv'
  BY <1>9, StartKept DEF vars
<1>10. QED
  BY <1>2, <1>3, <1>4, <1>5, <1>6, <1>7, <1>8, <1>9 DEF Next, MainStep, StartStep

(* main.go: for any environment, with XFUNCJS_INSECURE or without, and any *)
(* flags, what Validate has refused never reaches the process manager or a *)
(* server, and what serves over TLS has its files.                         *)
THEOREM StartsValid == Spec => []ServesValid
<1>1. Init => StartInv
  BY DEF Init, StartInv, Starting
<1>2. StartInv /\ [Next]_vars => StartInv'
  BY StartNext
<1>3. StartInv => ServesValid
  BY DEF StartInv, ServesValid
<1>4. QED
  BY <1>1, <1>2, <1>3, PTL DEF Spec
=============================================================================
