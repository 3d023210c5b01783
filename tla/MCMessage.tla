------------------------------- MODULE MCMessage -------------------------------
(* SessionProcessor and ShareNext for TLC.  The two share no state here:   *)
(* the share knows a session as a version that grows, not as parts.  One   *)
(* run checks both, each beside the initial state of the other.            *)
EXTENDS SessionProcessor, ShareNext

CONSTANTS t1, t2

VARIABLE checked  \* which of the two moves

allVars == <<checked, processorVars, shareVars>>

MCInit == ProcessorInit /\ ShareInit /\ checked \in {"processor", "share"}

MCNext ==
  /\ checked' = checked
  /\ \/ checked = "processor" /\ ProcessorNext /\ UNCHANGED shareVars
     \/ checked = "share" /\ ShareNext /\ UNCHANGED processorVars

MCSpec == MCInit /\ [][MCNext]_allVars /\ ProcessorFairness
===============================================================================
