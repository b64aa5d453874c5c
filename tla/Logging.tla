------------------------------- MODULE Logging -------------------------------
(***************************************************************************)
(* What is logged: the output of a child line by line (LogWriter), and     *)
(* what an error tells when it is logged (ErrorContext).  The two share    *)
(* nothing but the log.                                                    *)
(***************************************************************************)
EXTENDS LogWriter

CONSTANTS Codes, Resources, Fields, Values, MaxErrors   \* those of ErrorContext

VARIABLES errs, maps

Errs == INSTANCE ErrorContext

errsVars == <<errs, maps>>

(* What ErrorContext says of what an error tells.                          *)
ContextIsItsOwn == Errs!ContextIsItsOwn
=============================================================================
