-------------------------- MODULE MCProcessManager --------------------------
(* Instances of ProcessManager for TLC.                                    *)
EXTENDS ProcessManager

CONSTANTS r1, h1

(* The two ways of calling that are checked together: all requests carry   *)
(* one spec, or one request carries any spec and ports are handed out      *)
(* again.                                                                  *)
VARIABLE mix

MCInit == Init /\ mix \in {"one spec", "one request"}

MCNext ==
  /\ Next
  /\ UNCHANGED mix
  /\ mix = "one spec" => UNCHANGED port
  /\ \A r \in Requests :
       hash'[r] # Nil => IF mix = "one spec" THEN hash'[r] = h1 ELSE r = r1

MCFairSpec == MCInit /\ [][MCNext]_<<mix, vars>> /\ Fairness

(* process.go:107-126 and health.go:78: with one request at a time, the    *)
(* directory of a child that has yet to import its module is there,        *)
(* whatever was restarted, collected or given up before for its spec.      *)
DirectoryOfOne == mix = "one request" => OwnDirectory
=============================================================================
