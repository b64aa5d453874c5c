------------------------------ MODULE LogWriter ------------------------------
(***************************************************************************)
(* The io.Writer that takes one stream of a child's output and logs it     *)
(* line by line (pkg/node/logwriter.go).  os/exec hands the output over in *)
(* pieces cut anywhere; the collector may call Flush in between.  Both     *)
(* hold bufferLock, so each is one step.                                   *)
(***************************************************************************)
EXTENDS Integers, Sequences, FiniteSets, SequencesExt

CONSTANTS
  Streams,     \* of {"stdout", "stderr"}
  MaxOutput,   \* bound: length of the output
  MaxWrite,    \* bound: length of the piece of one Write
  MaxFlushes   \* bound: flushes that find something

ASSUME StreamsAssumption == Streams \subseteq {"stdout", "stderr"}
ASSUME OutputAssumption == MaxOutput \in Nat /\ MaxWrite \in Nat /\ MaxFlushes \in Nat

VARIABLES
  stream,     \* logWriter.streamType
  buffer,     \* logWriter.buffer
  logged,     \* what was logged: line and level
  received,   \* history: everything written so far
  flushed     \* history: the lengths of received at which Flush logged something

logVars == <<stream, buffer, logged, received, flushed>>

(* "e" followed by "r" is a word such as "error"; "head" and "tail" are    *)
(* the halves of a Pino message of level 50.                               *)
Symbols == {"e", "r", "head", "tail", "cr", "nl"}

LogInit ==
  /\ stream \in Streams
  /\ buffer = <<>> /\ logged = <<>>
  /\ received = <<>> /\ flushed = {}

(* json.Unmarshal skips a carriage return between tokens.                  *)
IsPino(line) == SelectSeq(line, LAMBDA c : c # "cr") = <<"head", "tail">>

LooksLikeError(line) ==
  \E i \in 1 .. Len(line) - 1 : line[i] = "e" /\ line[i + 1] = "r"

LogLine(line) ==
  [line |-> line,
   level |-> IF stream = "stderr" \/ IsPino(line) \/ LooksLikeError(line)
             THEN "error" ELSE "info"]

Trimmed(line) == IF line # <<>> /\ Last(line) = "cr" THEN Front(line) ELSE line

(* Of the lines that processBuffer returns, Write logs those not empty.    *)
Log(log, line) == IF line = <<>> THEN log ELSE Append(log, LogLine(line))

(* processBuffer: a newline at i ends the line that starts at start.       *)
CutAt(b, i, done) ==
  IF b[i] # "nl" THEN done
  ELSE [start |-> i + 1, logged |-> Log(done.logged, Trimmed(SubSeq(b, done.start, i - 1)))]

ProcessBuffer(b) ==
  LET scan[i \in 0 .. Len(b)] ==
        IF i = 0 THEN [start |-> 1, logged |-> logged] ELSE CutAt(b, i, scan[i - 1])
  IN scan[Len(b)]

Received(p) ==
  /\ Len(received) + Len(p) <= MaxOutput
  /\ received' = received \o p
  /\ UNCHANGED <<stream, flushed>>

(* Faulty variant: a piece is cut into lines without what was kept before. *)
WriteAlone(p) ==
  LET done == ProcessBuffer(p)
  IN /\ Received(p)
     /\ buffer' = IF done.start = 1 THEN buffer \o p ELSE SubSeq(p, done.start, Len(p))
     /\ logged' = done.logged

Write(p) ==
  LET b == buffer \o p
      done == ProcessBuffer(b)
  IN /\ Received(p)
     /\ buffer' = SubSeq(b, done.start, Len(b))
     /\ logged' = done.logged

(* Flush logs at level info whatever the stream.                           *)
Flush ==
  /\ buffer # <<>>
  /\ Cardinality(flushed) < MaxFlushes
  /\ logged' = Append(logged, [line |-> buffer, level |-> "info"])
  /\ buffer' = <<>>
  /\ flushed' = flushed \cup {Len(received)}
  /\ UNCHANGED <<stream, received>>

LogNext == Flush \/ \E p \in SeqOf(Symbols, MaxWrite) : Write(p)

LogSpec == LogInit /\ [][LogNext]_logVars
-----------------------------------------------------------------------------
(* Properties.                                                             *)

(* Where output r ends lines, if it was flushed at these lengths, and the  *)
(* last end before a place, 0 if none.                                     *)
Ends(r, flushes) == {i \in DOMAIN r : r[i] = "nl"} \cup flushes

EndBefore(r, flushes, i) ==
  LET before == {j \in Ends(r, flushes) : j < i}
  IN IF before = {} THEN 0 ELSE CHOOSE j \in before : \A k \in before : k <= j

(* What lies between an end and the one before it, and what is logged.     *)
Line(r, flushes, i) ==
  LET first == EndBefore(r, flushes, i) + 1
  IN IF r[i] = "nl" THEN Trimmed(SubSeq(r, first, i - 1)) ELSE SubSeq(r, first, i)

EntryAt(r, flushes, i) ==
  IF r[i] = "nl" THEN LogLine(Line(r, flushes, i)) ELSE [line |-> Line(r, flushes, i), level |-> "info"]

Shown(r, flushes) == {i \in Ends(r, flushes) : Line(r, flushes, i) # <<>>}

(* rest and log are what is left of r and what was logged of it: an entry  *)
(* for each line that is not empty, in their order.                        *)
Accounts(r, flushes, rest, log) ==
  /\ rest = SubSeq(r, EndBefore(r, flushes, Len(r) + 1) + 1, Len(r))
  /\ Len(log) = Cardinality(Shown(r, flushes))
  /\ \A i \in Shown(r, flushes) :
       log[Cardinality({j \in Shown(r, flushes) : j <= i})] = EntryAt(r, flushes, i)

(* What is logged, and at which level, depends on the output and on where  *)
(* it was flushed only, and not on how it was cut into writes; nothing is  *)
(* lost but empty lines, and what is not logged yet is in the buffer.      *)
LoggedIsReceived == Accounts(received, flushed, buffer, logged)
=============================================================================
