---------------------------- MODULE ProcessorProofs ----------------------------
(* Theorems about SessionProcessor, for any set of tool calls and any      *)
(* number of attempts.                                                     *)
EXTENDS SessionProcessor, TLAPS

ProcessorTypeOK ==
  /\ part \in [Tools -> {"none"} \cup Unfinished \cup Final]
  /\ closed \in BOOLEAN
  /\ entry \in [Tools -> BOOLEAN] /\ done \in [Tools -> BOOLEAN]
  /\ main \in {"stream", "creating", "calling", "finishing", "settling", "backoff", "wait", "sweep", "mark", "ended", "dead"}
  /\ call \in Tools \cup {NoTool} /\ keys \subseteq Tools
  /\ received \in BOOLEAN /\ attempt \in 1..MaxAttempts /\ aborted \in BOOLEAN
  /\ abandoned \subseteq Tools /\ escaped \subseteq Tools /\ rows \subseteq Tools
  /\ tool \in [Tools -> {"none", "executing", "updating", "succeeded", "failed", "completing", "settling", "over"}]
  /\ toolRead \in [Tools -> {"none"} \cup Unfinished \cup Final]
  /\ recovery \in {"none", "found", "marked"}

(* Whoever is about to write a part knows that it is there. *)
PartsKnown ==
  /\ \A t \in Tools : entry[t] \/ tool[t] \in {"updating", "completing", "settling"} => part[t] # "none"
  /\ \A t \in Tools : tool[t] = "updating" => toolRead[t] # "none"
  /\ main \in {"creating", "calling", "finishing", "settling", "mark"} => call \in Tools /\ part[call] # "none"
  /\ ~received => \A t \in Tools : part[t] = "none"

(* The tools complete their calls themselves only when the stream's fiber  *)
(* has come to its cleanup, so that the two never do it at once.           *)
TurnsTaken ==
  /\ aborted => main \in {"wait", "sweep", "mark", "ended", "dead"}
  /\ main = "calling" => entry[call]
  /\ main = "finishing" => part[call] = "running"
  /\ main = "settling" => part[call] \in Final
  /\ main \in {"finishing", "settling"} => tool[call] \in {"succeeded", "failed"}
  /\ main = "dead" => \A t \in Tools : tool[t] = "over"
  /\ \A t \in Tools :
       /\ tool[t] \in {"completing", "settling"} => aborted
       /\ tool[t] = "settling" => part[t] \in Final
       /\ part[t] = "completed" => tool[t] \in {"succeeded", "settling", "over"}
       /\ tool[t] = "updating" => toolRead[t] # "completed"

(* Until the message is closed somebody leads to every open part: first    *)
(* ctx.toolcalls, then the cleanup, or the rows of the reconciliation.     *)
OpenLed ==
  /\ main \in {"stream", "creating", "calling", "finishing", "settling", "backoff", "wait"} =>
       \A t \in Tools : part[t] \in Unfinished => t \in escaped \/ entry[t] \/ (main = "creating" /\ call = t)
  /\ main \in {"sweep", "mark"} =>
       \A t \in Tools : part[t] \in Unfinished =>
         t \in escaped \/ (t \in keys /\ entry[t]) \/ (main = "mark" /\ call = t)
  /\ main = "ended" => \A t \in Tools : part[t] \in Unfinished => t \in escaped
  /\ recovery # "none" => main = "dead" /\ rows = {t \in Tools : part[t] \in Unfinished}
  /\ recovery = "marked" => rows = {}
  /\ closed => main = "ended" \/ recovery = "marked"

ProcessorInv == ProcessorTypeOK /\ PartsKnown /\ TurnsTaken /\ OpenLed /\ RetriesClean

(* Every step assigns values of the declared sets.  *)
LEMMA TypeNext ==
  ASSUME ProcessorTypeOK, PartsKnown, [ProcessorNext]_processorVars
  PROVE  ProcessorTypeOK'
<1> USE ProcessorAssumption
    DEF ProcessorTypeOK, PartsKnown,
        processorVars, mainVars, streamVars, memoryVars, toolVars, recoveryVars, Unfinished, Final
<1>1. CASE CallKnown
  BY <1>1 DEF CallKnown, MainGoto
<1>2. CASE CallRuns
  BY <1>2 DEF CallRuns, MainGoto, UpdatePart
<1>3. CASE CallFinishes
  BY <1>3 DEF CallFinishes, MainGoto, UpdatePart
<1>4. CASE CallSettles
  BY <1>4 DEF CallSettles, MainGoto, Settle
<1>5. CASE StreamRetries
  BY <1>5 DEF StreamRetries, MainGoto, CanRetry
<1>6. CASE BackoffEnds
  BY <1>6 DEF BackoffEnds, MainGoto
<1>7. CASE StreamEnds
  BY <1>7 DEF StreamEnds, MainGoto
<1>8. CASE CleanupWaits
  BY <1>8 DEF CleanupWaits, MainGoto
<1>9. CASE SweepMarks
  BY <1>9 DEF SweepMarks, MainGoto, UpdatePart
<1>10. CASE CleanupEnds
  BY <1>10 DEF CleanupEnds, MainGoto
<1>11. CASE Crash
  BY <1>11 DEF Crash
<1>12. CASE RecoveryReads
  BY <1>12 DEF RecoveryReads, Alive
<1>13. CASE RecoveryCloses
  BY <1>13 DEF RecoveryCloses
<1>14. ASSUME NEW t \in Tools, EnsureToolCall(t) PROVE ProcessorTypeOK'
  BY <1>14 DEF EnsureToolCall, MainGoto, UpdatePart
<1>15. ASSUME NEW t \in Tools, HandlesCall(t) PROVE ProcessorTypeOK'
  BY <1>15 DEF HandlesCall, ReadFor, MainGoto
<1>16. ASSUME NEW t \in Tools, HandlesResult(t) PROVE ProcessorTypeOK'
  BY <1>16 DEF HandlesResult, ReadFor, MainGoto
<1>17. ASSUME NEW t \in Tools, SweepReads(t) PROVE ProcessorTypeOK'
  BY <1>17 DEF SweepReads
<1>18. ASSUME NEW t \in Tools, ToolStarts(t) PROVE ProcessorTypeOK'
  BY <1>18 DEF ToolStarts, ToolGoto
<1>19. ASSUME NEW t \in Tools, ProgressReads(t) PROVE ProcessorTypeOK'
  BY <1>19 DEF ProgressReads, ToolGoto
<1>20. ASSUME NEW t \in Tools, ProgressSaves(t) PROVE ProcessorTypeOK'
  BY <1>20 DEF ProgressSaves, ToolGoto, UpdatePart
<1>21. ASSUME NEW t \in Tools, ToolEnds(t) PROVE ProcessorTypeOK'
  BY <1>21 DEF ToolEnds, ToolGoto
<1>22. ASSUME NEW t \in Tools, ToolReads(t) PROVE ProcessorTypeOK'
  BY <1>22 DEF ToolReads, ToolGoto, Aborted
<1>23. ASSUME NEW t \in Tools, ToolCompletes(t) PROVE ProcessorTypeOK'
  BY <1>23 DEF ToolCompletes, ToolGoto, UpdatePart
<1>24. ASSUME NEW t \in Tools, ToolSettles(t) PROVE ProcessorTypeOK'
  BY <1>24 DEF ToolSettles, ToolGoto, Settle
<1>25. ASSUME NEW t \in Tools, RecoveryMarks(t) PROVE ProcessorTypeOK'
  BY <1>25 DEF RecoveryMarks, UpdatePart
<1>26. CASE UNCHANGED processorVars
  BY <1>26
<1> QED
  BY <1>1, <1>2, <1>3, <1>4, <1>5, <1>6, <1>7, <1>8, <1>9, <1>10, <1>11, <1>12, <1>13, <1>14, <1>15,
     <1>16, <1>17, <1>18, <1>19, <1>20, <1>21, <1>22, <1>23, <1>24, <1>25, <1>26
     DEF ProcessorNext, StreamStep, Cleanup, ToolStep, Recovery

(* A part that is read, changed or led to goes on being there. *)
LEMMA PartsNext ==
  ASSUME ProcessorTypeOK, PartsKnown, OpenLed, [ProcessorNext]_processorVars
  PROVE  PartsKnown'
<1> USE ProcessorAssumption
    DEF ProcessorTypeOK, PartsKnown, OpenLed,
        processorVars, mainVars, streamVars, memoryVars, toolVars, recoveryVars, Unfinished, Final
<1>1. CASE CallKnown
  BY <1>1 DEF CallKnown, MainGoto
<1>2. CASE CallRuns
  BY <1>2 DEF CallRuns, MainGoto, UpdatePart
<1>3. CASE CallFinishes
  BY <1>3 DEF CallFinishes, MainGoto, UpdatePart
<1>4. CASE CallSettles
  BY <1>4 DEF CallSettles, MainGoto, Settle
<1>5. CASE StreamRetries
  BY <1>5 DEF StreamRetries, MainGoto, CanRetry
<1>6. CASE BackoffEnds
  BY <1>6 DEF BackoffEnds, MainGoto
<1>7. CASE StreamEnds
  BY <1>7 DEF StreamEnds, MainGoto
<1>8. CASE CleanupWaits
  BY <1>8 DEF CleanupWaits, MainGoto
<1>9. CASE SweepMarks
  BY <1>9 DEF SweepMarks, MainGoto, UpdatePart
<1>10. CASE CleanupEnds
  BY <1>10 DEF CleanupEnds, MainGoto
<1>11. CASE Crash
  BY <1>11 DEF Crash
<1>12. CASE RecoveryReads
  BY <1>12 DEF RecoveryReads, Alive
<1>13. CASE RecoveryCloses
  BY <1>13 DEF RecoveryCloses
<1>14. ASSUME NEW t \in Tools, EnsureToolCall(t) PROVE PartsKnown'
  BY <1>14 DEF EnsureToolCall, MainGoto, UpdatePart
<1>15. ASSUME NEW t \in Tools, HandlesCall(t) PROVE PartsKnown'
  BY <1>15 DEF HandlesCall, ReadFor, MainGoto
<1>16. ASSUME NEW t \in Tools, HandlesResult(t) PROVE PartsKnown'
  BY <1>16 DEF HandlesResult, ReadFor, MainGoto
<1>17. ASSUME NEW t \in Tools, SweepReads(t) PROVE PartsKnown'
  BY <1>17 DEF SweepReads
<1>18. ASSUME NEW t \in Tools, ToolStarts(t) PROVE PartsKnown'
  BY <1>18 DEF ToolStarts, ToolGoto
<1>19. ASSUME NEW t \in Tools, ProgressReads(t) PROVE PartsKnown'
  BY <1>19 DEF ProgressReads, ToolGoto
<1>20. ASSUME NEW t \in Tools, ProgressSaves(t) PROVE PartsKnown'
  BY <1>20 DEF ProgressSaves, ToolGoto, UpdatePart
<1>21. ASSUME NEW t \in Tools, ToolEnds(t) PROVE PartsKnown'
  BY <1>21 DEF ToolEnds, ToolGoto
<1>22. ASSUME NEW t \in Tools, ToolReads(t) PROVE PartsKnown'
  BY <1>22 DEF ToolReads, ToolGoto, Aborted
<1>23. ASSUME NEW t \in Tools, ToolCompletes(t) PROVE PartsKnown'
  BY <1>23 DEF ToolCompletes, ToolGoto, UpdatePart
<1>24. ASSUME NEW t \in Tools, ToolSettles(t) PROVE PartsKnown'
  BY <1>24 DEF ToolSettles, ToolGoto, Settle
<1>25. ASSUME NEW t \in Tools, RecoveryMarks(t) PROVE PartsKnown'
  BY <1>25 DEF RecoveryMarks, UpdatePart
<1>26. CASE UNCHANGED processorVars
  BY <1>26
<1> QED
  BY <1>1, <1>2, <1>3, <1>4, <1>5, <1>6, <1>7, <1>8, <1>9, <1>10, <1>11, <1>12, <1>13, <1>14, <1>15,
     <1>16, <1>17, <1>18, <1>19, <1>20, <1>21, <1>22, <1>23, <1>24, <1>25, <1>26
     DEF ProcessorNext, StreamStep, Cleanup, ToolStep, Recovery

(* The stream's fiber and the tools go on taking turns. *)
LEMMA TurnsNext ==
  ASSUME ProcessorTypeOK, PartsKnown, TurnsTaken, OpenLed, RetriesClean, [ProcessorNext]_processorVars
  PROVE  TurnsTaken'
<1> USE ProcessorAssumption
    DEF ProcessorTypeOK, PartsKnown, TurnsTaken, OpenLed, RetriesClean,
        processorVars, mainVars, streamVars, memoryVars, toolVars, recoveryVars, Unfinished, Final
<1>1. CASE CallKnown
  BY <1>1 DEF CallKnown, MainGoto
<1>2. CASE CallRuns
  BY <1>2 DEF CallRuns, MainGoto, UpdatePart
<1>3. CASE CallFinishes
  BY <1>3 DEF CallFinishes, MainGoto, UpdatePart
<1>4. CASE CallSettles
  BY <1>4 DEF CallSettles, MainGoto, Settle
<1>5. CASE StreamRetries
  BY <1>5 DEF StreamRetries, MainGoto, CanRetry
<1>6. CASE BackoffEnds
  BY <1>6 DEF BackoffEnds, MainGoto
<1>7. CASE StreamEnds
  BY <1>7 DEF StreamEnds, MainGoto
<1>8. CASE CleanupWaits
  BY <1>8 DEF CleanupWaits, MainGoto
<1>9. CASE SweepMarks
  BY <1>9 DEF SweepMarks, MainGoto, UpdatePart
<1>10. CASE CleanupEnds
  BY <1>10 DEF CleanupEnds, MainGoto
<1>11. CASE Crash
  BY <1>11 DEF Crash
<1>12. CASE RecoveryReads
  BY <1>12 DEF RecoveryReads, Alive
<1>13. CASE RecoveryCloses
  BY <1>13 DEF RecoveryCloses
<1>14. ASSUME NEW t \in Tools, EnsureToolCall(t) PROVE TurnsTaken'
  BY <1>14 DEF EnsureToolCall, MainGoto, UpdatePart
<1>15. ASSUME NEW t \in Tools, HandlesCall(t) PROVE TurnsTaken'
  BY <1>15 DEF HandlesCall, ReadFor, MainGoto
<1>16. ASSUME NEW t \in Tools, HandlesResult(t) PROVE TurnsTaken'
  BY <1>16 DEF HandlesResult, ReadFor, MainGoto
<1>17. ASSUME NEW t \in Tools, SweepReads(t) PROVE TurnsTaken'
  BY <1>17 DEF SweepReads
<1>18. ASSUME NEW t \in Tools, ToolStarts(t) PROVE TurnsTaken'
  BY <1>18 DEF ToolStarts, ToolGoto
<1>19. ASSUME NEW t \in Tools, ProgressReads(t) PROVE TurnsTaken'
  BY <1>19 DEF ProgressReads, ToolGoto
<1>20. ASSUME NEW t \in Tools, ProgressSaves(t) PROVE TurnsTaken'
  BY <1>20 DEF ProgressSaves, ToolGoto, UpdatePart
<1>21. ASSUME NEW t \in Tools, ToolEnds(t) PROVE TurnsTaken'
  BY <1>21 DEF ToolEnds, ToolGoto
<1>22. ASSUME NEW t \in Tools, ToolReads(t) PROVE TurnsTaken'
  BY <1>22 DEF ToolReads, ToolGoto, Aborted
<1>23. ASSUME NEW t \in Tools, ToolCompletes(t) PROVE TurnsTaken'
  BY <1>23 DEF ToolCompletes, ToolGoto, UpdatePart
<1>24. ASSUME NEW t \in Tools, ToolSettles(t) PROVE TurnsTaken'
  BY <1>24 DEF ToolSettles, ToolGoto, Settle
<1>25. ASSUME NEW t \in Tools, RecoveryMarks(t) PROVE TurnsTaken'
  BY <1>25 DEF RecoveryMarks, UpdatePart
<1>26. CASE UNCHANGED processorVars
  BY <1>26
<1> QED
  BY <1>1, <1>2, <1>3, <1>4, <1>5, <1>6, <1>7, <1>8, <1>9, <1>10, <1>11, <1>12, <1>13, <1>14, <1>15,
     <1>16, <1>17, <1>18, <1>19, <1>20, <1>21, <1>22, <1>23, <1>24, <1>25, <1>26
     DEF ProcessorNext, StreamStep, Cleanup, ToolStep, Recovery

(* What is open goes on being led to, by whoever it is the turn of. *)
LEMMA OpenNext ==
  ASSUME ProcessorTypeOK, PartsKnown, TurnsTaken, OpenLed, [ProcessorNext]_processorVars
  PROVE  OpenLed'
<1> USE ProcessorAssumption
    DEF ProcessorTypeOK, PartsKnown, TurnsTaken, OpenLed,
        processorVars, mainVars, streamVars, memoryVars, toolVars, recoveryVars, Unfinished, Final
<1>1. CASE CallKnown
  BY <1>1 DEF CallKnown, MainGoto
<1>2. CASE CallRuns
  BY <1>2 DEF CallRuns, MainGoto, UpdatePart
<1>3. CASE CallFinishes
  BY <1>3 DEF CallFinishes, MainGoto, UpdatePart
<1>4. CASE CallSettles
  BY <1>4 DEF CallSettles, MainGoto, Settle
<1>5. CASE StreamRetries
  BY <1>5 DEF StreamRetries, MainGoto, CanRetry
<1>6. CASE BackoffEnds
  BY <1>6 DEF BackoffEnds, MainGoto
<1>7. CASE StreamEnds
  BY <1>7 DEF StreamEnds, MainGoto
<1>8. CASE CleanupWaits
  BY <1>8 DEF CleanupWaits, MainGoto
<1>9. CASE SweepMarks
  BY <1>9 DEF SweepMarks, MainGoto, UpdatePart
<1>10. CASE CleanupEnds
  BY <1>10 DEF CleanupEnds, MainGoto
<1>11. CASE Crash
  BY <1>11 DEF Crash
<1>12. CASE RecoveryReads
  BY <1>12 DEF RecoveryReads, Alive
<1>13. CASE RecoveryCloses
  BY <1>13 DEF RecoveryCloses
<1>14. ASSUME NEW t \in Tools, EnsureToolCall(t) PROVE OpenLed'
  BY <1>14 DEF EnsureToolCall, MainGoto, UpdatePart
<1>15. ASSUME NEW t \in Tools, HandlesCall(t) PROVE OpenLed'
  BY <1>15 DEF HandlesCall, ReadFor, MainGoto
<1>16. ASSUME NEW t \in Tools, HandlesResult(t) PROVE OpenLed'
  BY <1>16 DEF HandlesResult, ReadFor, MainGoto
<1>17. ASSUME NEW t \in Tools, SweepReads(t) PROVE OpenLed'
  BY <1>17 DEF SweepReads
<1>18. ASSUME NEW t \in Tools, ToolStarts(t) PROVE OpenLed'
  BY <1>18 DEF ToolStarts, ToolGoto
<1>19. ASSUME NEW t \in Tools, ProgressReads(t) PROVE OpenLed'
  BY <1>19 DEF ProgressReads, ToolGoto
<1>20. ASSUME NEW t \in Tools, ProgressSaves(t) PROVE OpenLed'
  BY <1>20 DEF ProgressSaves, ToolGoto, UpdatePart
<1>21. ASSUME NEW t \in Tools, ToolEnds(t) PROVE OpenLed'
  BY <1>21 DEF ToolEnds, ToolGoto
<1>22. ASSUME NEW t \in Tools, ToolReads(t) PROVE OpenLed'
  BY <1>22 DEF ToolReads, ToolGoto, Aborted
<1>23. ASSUME NEW t \in Tools, ToolCompletes(t) PROVE OpenLed'
  BY <1>23 DEF ToolCompletes, ToolGoto, UpdatePart
<1>24. ASSUME NEW t \in Tools, ToolSettles(t) PROVE OpenLed'
  BY <1>24 DEF ToolSettles, ToolGoto, Settle
<1>25. ASSUME NEW t \in Tools, RecoveryMarks(t) PROVE OpenLed'
  BY <1>25 DEF RecoveryMarks, UpdatePart
<1>26. CASE UNCHANGED processorVars
  BY <1>26
<1> QED
  BY <1>1, <1>2, <1>3, <1>4, <1>5, <1>6, <1>7, <1>8, <1>9, <1>10, <1>11, <1>12, <1>13, <1>14, <1>15,
     <1>16, <1>17, <1>18, <1>19, <1>20, <1>21, <1>22, <1>23, <1>24, <1>25, <1>26
     DEF ProcessorNext, StreamStep, Cleanup, ToolStep, Recovery

(* An attempt that was given up leaves no part, and nothing it still does makes one. *)
LEMMA RetriesNext ==
  ASSUME ProcessorTypeOK, PartsKnown, OpenLed, RetriesClean, [ProcessorNext]_processorVars
  PROVE  RetriesClean'
<1> USE DEF ProcessorTypeOK, RetriesClean, Unfinished, Final
<1>1. CASE UNCHANGED <<part, entry, abandoned>>
  BY <1>1
<1>2. CASE StreamRetries
  BY <1>2 DEF StreamRetries, CanRetry, PartsKnown, memoryVars
<1>3. CASE CallKnown \/ CallRuns
  BY <1>3 DEF CallKnown, CallRuns, MainGoto, UpdatePart, PartsKnown, streamVars
<1>4. CASE CallFinishes \/ SweepMarks
  BY <1>4 DEF CallFinishes, SweepMarks, MainGoto, UpdatePart, PartsKnown, memoryVars, streamVars
<1>5. CASE CallSettles
  BY <1>5 DEF CallSettles, Settle, streamVars
<1>6. CASE CleanupEnds \/ Crash
  BY <1>6 DEF CleanupEnds, Crash, streamVars
<1>7. ASSUME NEW t \in Tools, EnsureToolCall(t) PROVE RetriesClean'
  BY <1>7 DEF EnsureToolCall, UpdatePart, memoryVars
<1>8. ASSUME NEW t \in Tools, ProgressSaves(t) PROVE RetriesClean'
  BY <1>8 DEF ProgressSaves, ToolGoto, UpdatePart, PartsKnown, mainVars, streamVars
<1>9. ASSUME NEW t \in Tools, ToolCompletes(t) PROVE RetriesClean'
  BY <1>9 DEF ToolCompletes, ToolGoto, UpdatePart, PartsKnown, memoryVars, mainVars, streamVars
<1>10. ASSUME NEW t \in Tools, ToolSettles(t) PROVE RetriesClean'
  BY <1>10 DEF ToolSettles, Settle, mainVars, streamVars
<1>11. ASSUME NEW t \in Tools, RecoveryMarks(t) PROVE RetriesClean'
  BY <1>11 DEF RecoveryMarks, UpdatePart, OpenLed, memoryVars, mainVars, streamVars
<1>12. ASSUME NEW t \in Tools, \/ HandlesCall(t) \/ HandlesResult(t) \/ SweepReads(t) \/ ToolStarts(t)
                               \/ ProgressReads(t) \/ ToolEnds(t) \/ ToolReads(t)
       PROVE  UNCHANGED <<part, entry, abandoned>>
  BY <1>12 DEF HandlesCall, HandlesResult, ReadFor, SweepReads, ToolStarts, ProgressReads, ToolEnds, ToolReads,
               memoryVars, mainVars, streamVars
<1>13. CASE \/ BackoffEnds \/ StreamEnds \/ CleanupWaits \/ RecoveryReads \/ RecoveryCloses
            \/ UNCHANGED processorVars
  BY <1>1, <1>13 DEF BackoffEnds, StreamEnds, CleanupWaits, RecoveryReads, RecoveryCloses,
                     processorVars, memoryVars, mainVars, streamVars
<1> QED
  BY <1>1, <1>2, <1>3, <1>4, <1>5, <1>6, <1>7, <1>8, <1>9, <1>10, <1>11, <1>12, <1>13
     DEF ProcessorNext, StreamStep, Cleanup, ToolStep, Recovery

(* The invariant holds before the stream begins. *)
LEMMA ProcessorInvInit == ProcessorInit => ProcessorInv
<1> SUFFICES ASSUME ProcessorInit PROVE ProcessorInv
  OBVIOUS
<1> USE DEF ProcessorInit, Unfinished, Final
<1>1. ProcessorTypeOK
  <2>1. attempt \in 1..MaxAttempts
    BY ProcessorAssumption
  <2>2. part \in [Tools -> {"none"} \cup Unfinished \cup Final] /\ toolRead \in [Tools -> {"none"} \cup Unfinished \cup Final]
    OBVIOUS
  <2>3. tool \in [Tools -> {"none", "executing", "updating", "succeeded", "failed", "completing", "settling", "over"}]
    OBVIOUS
  <2>4. entry \in [Tools -> BOOLEAN] /\ done \in [Tools -> BOOLEAN]
    OBVIOUS
  <2>5. call \in Tools \cup {NoTool}
    OBVIOUS
  <2>6. keys \subseteq Tools /\ abandoned \subseteq Tools /\ escaped \subseteq Tools /\ rows \subseteq Tools
    OBVIOUS
  <2> QED
    BY <2>1, <2>2, <2>3, <2>4, <2>5, <2>6 DEF ProcessorTypeOK
<1>2. PartsKnown /\ TurnsTaken /\ OpenLed /\ RetriesClean
  BY DEF PartsKnown, TurnsTaken, OpenLed, RetriesClean
<1> QED
  BY <1>1, <1>2 DEF ProcessorInv

(* The inductive invariant is one. *)
LEMMA ProcessorInvariance == ProcessorSpec => []ProcessorInv
<1>1. ASSUME ProcessorInv, [ProcessorNext]_processorVars PROVE ProcessorInv'
  <2>1. ProcessorTypeOK /\ PartsKnown /\ TurnsTaken /\ OpenLed /\ RetriesClean
    BY <1>1 DEF ProcessorInv
  <2>2. ProcessorTypeOK' /\ PartsKnown'
    BY <1>1, <2>1, TypeNext, PartsNext
  <2>3. TurnsTaken' /\ OpenLed' /\ RetriesClean'
    BY <1>1, <2>1, TurnsNext, OpenNext, RetriesNext
  <2> QED
    BY <2>2, <2>3 DEF ProcessorInv
<1>2. ProcessorInv /\ [ProcessorNext]_processorVars => ProcessorInv'
  BY <1>1
<1> QED
  BY <1>2, ProcessorInvInit, PTL DEF ProcessorSpec

(* A message is closed last: of the parts that are open then, each is one  *)
(* that nobody could lead to any more (processor.ts 571-596, session.ts    *)
(* 926-956).                                                               *)
THEOREM ClosedLastAlways == ProcessorSpec => []ClosedLast
<1>1. ProcessorInv => ClosedLast
  BY DEF ProcessorInv, ProcessorTypeOK, OpenLed, ClosedLast
<1> QED
  BY <1>1, ProcessorInvariance, PTL

(* Whatever the tools of an attempt that was given up still do, neither    *)
(* the message nor the calls in memory hear of it (processor.ts 664-671).  *)
THEOREM RetriesCleanAlways == ProcessorSpec => []RetriesClean
<1>1. ProcessorInv => RetriesClean
  BY DEF ProcessorInv
<1> QED
  BY <1>1, ProcessorInvariance, PTL

(* A step does not undo the result of a tool whose call is settled.        *)
LEMMA SettledStep ==
  ASSUME ProcessorInv, [ProcessorNext]_processorVars, NEW t \in Tools,
         part[t] = "completed", ~entry[t], ~(main = "mark" /\ call = t)
  PROVE  part'[t] = "completed"
<1> USE DEF ProcessorInv, ProcessorTypeOK, Unfinished, Final
<1>1. CASE UNCHANGED part
  BY <1>1
<1>2. ASSUME NEW u \in Tools, EnsureToolCall(u) PROVE part'[t] = "completed"
  BY <1>2 DEF EnsureToolCall, UpdatePart
<1>3. CASE CallRuns
  BY <1>3 DEF CallRuns, MainGoto, UpdatePart, TurnsTaken
<1>4. CASE CallFinishes
  BY <1>4 DEF CallFinishes, MainGoto, UpdatePart, TurnsTaken
<1>5. CASE SweepMarks
  BY <1>5 DEF SweepMarks, MainGoto, UpdatePart
<1>6. ASSUME NEW u \in Tools, ProgressSaves(u) PROVE part'[t] = "completed"
  BY <1>6 DEF ProgressSaves, ToolGoto, UpdatePart, TurnsTaken
<1>7. ASSUME NEW u \in Tools, ToolCompletes(u) PROVE part'[t] = "completed"
  BY <1>7 DEF ToolCompletes, ToolGoto, UpdatePart
<1>8. ASSUME NEW u \in Tools, RecoveryMarks(u) PROVE part'[t] = "completed"
  BY <1>8 DEF RecoveryMarks, UpdatePart, OpenLed
<1>9. ASSUME NEW u \in Tools, \/ HandlesCall(u) \/ HandlesResult(u) \/ SweepReads(u) \/ ToolStarts(u)
                              \/ ProgressReads(u) \/ ToolEnds(u) \/ ToolReads(u) \/ ToolSettles(u)
      PROVE  UNCHANGED part
  BY <1>9 DEF HandlesCall, HandlesResult, ReadFor, SweepReads, ToolStarts, ProgressReads, ToolEnds, ToolReads, ToolSettles
<1>10. CASE \/ CallKnown \/ CallSettles \/ StreamRetries \/ BackoffEnds \/ StreamEnds \/ CleanupWaits \/ CleanupEnds
            \/ Crash \/ RecoveryReads \/ RecoveryCloses \/ UNCHANGED processorVars
  BY <1>1, <1>10 DEF CallKnown, CallSettles, StreamRetries, BackoffEnds, StreamEnds, CleanupWaits, CleanupEnds, Crash,
                     RecoveryReads, RecoveryCloses, processorVars
<1> QED
  BY <1>1, <1>2, <1>3, <1>4, <1>5, <1>6, <1>7, <1>8, <1>9, <1>10
     DEF ProcessorNext, StreamStep, Cleanup, ToolStep, Recovery

(* The result of a tool is kept, by the cleanup and by the reconciliation, *)
(* once its call is settled (processor.ts 123-184, session.ts 936-950).    *)
THEOREM ResultsStay == ProcessorSpec => SettledStays
<1> DEFINE Stay == \A t \in Tools : part[t] = "completed" /\ ~entry[t] /\ ~(main = "mark" /\ call = t)
                                    => part'[t] = "completed"
<1>1. ProcessorInv /\ [ProcessorNext]_processorVars => [Stay]_processorVars
  BY SettledStep
<1> HIDE DEF Stay
<1>2. ProcessorSpec => [][Stay]_processorVars
  BY <1>1, ProcessorInvariance, PTL DEF ProcessorSpec
<1> QED
  BY <1>2 DEF SettledStays, Stay
===============================================================================
