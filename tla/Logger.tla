------------------------------- MODULE Logger -------------------------------
(***************************************************************************)
(* Logger.cpp: every thread of the library logs, and dbgLevel is a plain    *)
(* static int.  LOG_SIMPLE and LOG_FULL read it twice, with no lock, so     *)
(* SET_DEBUG_LEVEL in another thread may come between the two; a build that *)
(* reads it once behaves as if nobody did.                                  *)
(***************************************************************************)
EXTENDS Naturals, FiniteSets

CONSTANTS
  Threads,  \* threads that log or set the level
  Used      \* the levels they use

LOG_FATAL == 0
LOG_TEST == 5
LOG_NONE == 6

Levels == LOG_FATAL..LOG_NONE

Invalid == LOG_NONE + 1  \* what a caller may pass and SET_DEBUG_LEVEL refuses

ASSUME UsedAssumption == Used \subseteq Levels

VARIABLES
  dbgLevel,
  log,   \* thread -> its call of LOG_SIMPLE or LOG_FULL; inForce collects the
         \* values dbgLevel has had since the call began
  line   \* the level of the line just printed, and inForce of its call

vars == <<dbgLevel, log, line>>

NotLogging == [at |-> "idle"]
NoLine == [level |-> LOG_NONE, inForce |-> {}]

(* dbgLevel is always one of the enumerated levels: SET_DEBUG_LEVEL refuses  *)
(* any other.                                                               *)
TypeOK ==
  /\ dbgLevel \in Levels
  /\ \A t \in Threads : log[t] # NotLogging =>
       /\ log[t].at \in {"compare", "silenced", "print"}
       /\ log[t].level \in Levels
       /\ log[t].inForce \subseteq Levels
  /\ line.level \in Levels /\ line.inForce \subseteq Levels

Init ==
  /\ dbgLevel = LOG_TEST
  /\ log = [t \in Threads |-> NotLogging]
  /\ line = NoLine

(* t calls LOG_SIMPLE or LOG_FULL. *)
CallLog(t, logLevel) ==
  /\ log[t] = NotLogging
  /\ log' = [log EXCEPT ![t] = [at |-> "compare", level |-> logLevel,
                                inForce |-> {dbgLevel}]]

Log(t, logLevel) == CallLog(t, logLevel) /\ UNCHANGED <<dbgLevel, line>>

SET_DEBUG_LEVEL_UNCHECKED(t, debugLevel) ==
  /\ log[t] = NotLogging
  /\ dbgLevel' = debugLevel
  /\ log' = [u \in Threads |->
               IF log[u] = NotLogging THEN log[u]
               ELSE [log[u] EXCEPT !.inForce = @ \cup {debugLevel}]]
  /\ UNCHANGED line

(* A level out of range is reported and not set. *)
SET_DEBUG_LEVEL(t, debugLevel) ==
  IF debugLevel \in Levels
  THEN SET_DEBUG_LEVEL_UNCHECKED(t, debugLevel)
  ELSE CallLog(t, LOG_FATAL) /\ UNCHANGED <<dbgLevel, line>>

GoOn(t, at, condition) ==
  log' = [log EXCEPT ![t] = IF condition THEN [@ EXCEPT !.at = at] ELSE NotLogging]

(* logLevel <= dbgLevel ...                                                 *)
Compare(t) ==
  /\ log[t].at = "compare"
  /\ GoOn(t, "silenced", log[t].level <= dbgLevel)
  /\ UNCHANGED <<dbgLevel, line>>

SilencedForgotten(t) ==
  /\ log[t].at = "silenced"
  /\ GoOn(t, "print", TRUE)
  /\ UNCHANGED <<dbgLevel, line>>

(* ... && dbgLevel != LOG_NONE                                              *)
Silenced(t) ==
  /\ log[t].at = "silenced"
  /\ GoOn(t, "print", dbgLevel # LOG_NONE)
  /\ UNCHANGED <<dbgLevel, line>>

(* printf, with the colour and the name that GET_LOG_DISPLAY finds. *)
Show(t) ==
  /\ log[t].at = "print"
  /\ line' = [level |-> log[t].level, inForce |-> log[t].inForce]
  /\ log' = [log EXCEPT ![t] = NotLogging]
  /\ UNCHANGED dbgLevel

Next ==
  \E t \in Threads :
    \/ \E level \in Used : Log(t, level)
    \/ \E level \in Used \cup {Invalid} : SET_DEBUG_LEVEL(t, level)
    \/ Compare(t) \/ Silenced(t) \/ Show(t)

Spec == Init /\ [][Next]_vars

-----------------------------------------------------------------------------
Allows(debugLevel, logLevel) == logLevel <= debugLevel /\ debugLevel # LOG_NONE

(* A line that no level in force during its call allows is printed in one   *)
(* case only: dbgLevel left LOG_NONE, which the first test lets everything  *)
(* pass, before the second test.                                            *)
OnlyLeavingNoneLeaks ==
  line = NoLine \/ \E d \in line.inForce :
    \/ Allows(d, line.level)
    \/ d = LOG_NONE /\ Cardinality(line.inForce) > 1
=============================================================================
