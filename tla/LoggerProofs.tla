---------------------------- MODULE LoggerProofs ----------------------------
(***************************************************************************)
(* Theorems about Logger for every set of threads and levels.               *)
(***************************************************************************)
EXTENDS Logger, FiniteSetTheorems, TLAPS

(* A call of LOG_SIMPLE or LOG_FULL under way. *)
LogCall == [at : {"compare", "silenced", "print"}, level : Levels,
            inForce : SUBSET Levels]

(* What entitles a line to be printed, without counting: one level in force *)
(* allows it, or LOG_NONE was in force and so was another one.              *)
Justified(level, inForce) ==
  \E d \in inForce :
    Allows(d, level) \/ (d = LOG_NONE /\ \E e \in inForce : e # d)

(* Each point of a call knows what the tests before it found: the level of  *)
(* each test is in inForce, though the two need not be the same.            *)
CallInv(t) ==
  /\ log[t] # NotLogging => dbgLevel \in log[t].inForce
  /\ log[t].at = "silenced" => \E d \in log[t].inForce : log[t].level <= d
  /\ log[t].at = "print" => Justified(log[t].level, log[t].inForce)

LogInv ==
  /\ dbgLevel \in Levels
  /\ log \in [Threads -> LogCall \cup {NotLogging}]
  /\ line.level \in Levels /\ line.inForce \subseteq Levels
  /\ line = NoLine \/ Justified(line.level, line.inForce)
  /\ \A t \in Threads : CallInv(t)

-----------------------------------------------------------------------------
(* A call under way has the fields of one, and no other record has. *)
LEMMA CallShape ==
  ASSUME LogInv, NEW t \in Threads
  PROVE  /\ log[t] # NotLogging =>
              log[t] \in LogCall /\ log[t].at \in {"compare", "silenced", "print"}
         /\ log[t] = NotLogging => log[t].at = "idle"
BY DEF LogInv, LogCall, NotLogging

(* More levels in force forbid nothing. *)
LEMMA JustifiedGrows ==
  ASSUME NEW level, NEW F, NEW G, F \subseteq G, Justified(level, F)
  PROVE  Justified(level, G)
BY DEF Justified

(* Two levels in force are more than one. *)
LEMMA JustifiedCounts ==
  ASSUME NEW level, NEW F \in SUBSET Levels, Justified(level, F)
  PROVE  \E d \in F : \/ Allows(d, level)
                      \/ d = LOG_NONE /\ Cardinality(F) > 1
<1>1. PICK d \in F : Allows(d, level) \/ (d = LOG_NONE /\ \E e \in F : e # d)
  BY DEF Justified
<1>2. ASSUME NEW e \in F, e # d PROVE Cardinality(F) > 1
  <2>1. F \in SUBSET Nat /\ \A s \in F : s <= LOG_NONE
    BY DEF Levels, LOG_FATAL, LOG_NONE
  <2>2. IsFiniteSet(F)
    BY <2>1, FS_BoundedSetOfNaturals DEF LOG_NONE
  <2>3. Cardinality(F) \in Nat
    BY <2>2, FS_CardinalityType
  <2>4. Cardinality(F) # 0 /\ Cardinality(F) # 1
    BY <1>2, <2>2, FS_EmptySet, FS_Singleton
  <2>. QED
    BY <2>3, <2>4
<1>. QED
  BY <1>1, <1>2

(* The first state. *)
LEMMA InitLog == ASSUME Init PROVE LogInv
BY DEF Init, LogInv, CallInv, NotLogging, NoLine, Levels, LOG_FATAL, LOG_TEST,
       LOG_NONE

(* A thread that begins a call has the present level in force. *)
LEMMA CallLogStep ==
  ASSUME LogInv, NEW t \in Threads, NEW level \in Levels, CallLog(t, level),
         UNCHANGED <<dbgLevel, line>>
  PROVE  LogInv'
<1>1. [at |-> "compare", level |-> level, inForce |-> {dbgLevel}] \in LogCall
  BY DEF LogInv, LogCall
<1>2. log' \in [Threads -> LogCall \cup {NotLogging}]
  BY <1>1 DEF LogInv, CallLog
<1>3. CallInv(t)'
  BY DEF LogInv, CallLog, CallInv
<1>4. ASSUME NEW u \in Threads \ {t} PROVE CallInv(u)'
  BY <1>4 DEF LogInv, CallLog, CallInv
<1>. QED
  BY <1>2, <1>3, <1>4 DEF LogInv

(* SET_DEBUG_LEVEL adds its level to every call under way. *)
LEMMA SetStep ==
  ASSUME LogInv, NEW t \in Threads, NEW level \in Levels,
         SET_DEBUG_LEVEL_UNCHECKED(t, level)
  PROVE  LogInv'
<1>1. ASSUME NEW u \in Threads
      PROVE  log'[u] \in LogCall \cup {NotLogging} /\ CallInv(u)'
  <2>1. CASE log[u] = NotLogging
    BY <2>1 DEF SET_DEBUG_LEVEL_UNCHECKED, CallInv, NotLogging
  <2>2. CASE log[u] # NotLogging
    <3>1. log[u] \in LogCall
      BY <2>2, CallShape
    <3>2. log'[u] = [at |-> log[u].at, level |-> log[u].level,
                     inForce |-> log[u].inForce \cup {level}]
      BY <2>2, <3>1 DEF SET_DEBUG_LEVEL_UNCHECKED, LogCall
    <3>3. log'[u] \in LogCall
      BY <3>1, <3>2 DEF LogCall
    <3>4. dbgLevel' = level
      BY DEF SET_DEBUG_LEVEL_UNCHECKED
    <3>5. /\ log'[u].at = log[u].at /\ log'[u].level = log[u].level
          /\ log'[u].inForce = log[u].inForce \cup {level}
      BY <3>2
    <3>. QED
      BY <3>3, <3>4, <3>5, JustifiedGrows DEF LogInv, CallInv
  <2>. QED
    BY <2>1, <2>2
<1>2. log' \in [Threads -> LogCall \cup {NotLogging}]
  BY <1>1 DEF SET_DEBUG_LEVEL_UNCHECKED
<1>. QED
  BY <1>1, <1>2 DEF LogInv, SET_DEBUG_LEVEL_UNCHECKED

(* A call that passes a test or fails it. *)
LEMMA TestStep ==
  ASSUME LogInv, NEW t \in Threads, Compare(t) \/ Silenced(t)
  PROVE  LogInv'
<1>1. log[t] \in LogCall /\ log[t] # NotLogging /\ dbgLevel \in log[t].inForce
  BY CallShape DEF Compare, Silenced, LogInv, CallInv, NotLogging
<1>2. UNCHANGED <<dbgLevel, line>>
  BY DEF Compare, Silenced
<1>3. log' \in [Threads -> LogCall \cup {NotLogging}] /\ CallInv(t)'
  <2>1. CASE log' = [log EXCEPT ![t] = NotLogging]
    BY <2>1 DEF LogInv, CallInv, NotLogging
  <2>2. ASSUME NEW point \in {"silenced", "print"},
               log' = [log EXCEPT ![t] = [log[t] EXCEPT !.at = point]],
               \/ point = "silenced" /\ log[t].level <= dbgLevel
               \/ point = "print" /\ Justified(log[t].level, log[t].inForce)
        PROVE  log' \in [Threads -> LogCall \cup {NotLogging}] /\ CallInv(t)'
    <3>1. [log[t] EXCEPT !.at = point] =
             [at |-> point, level |-> log[t].level, inForce |-> log[t].inForce]
      BY <1>1 DEF LogCall
    <3>2. [at |-> point, level |-> log[t].level, inForce |-> log[t].inForce] \in LogCall
      BY <1>1 DEF LogCall
    <3>3. /\ log'[t].at = point /\ log'[t].level = log[t].level
          /\ log'[t].inForce = log[t].inForce
      BY <2>2, <3>1 DEF LogInv
    <3>. QED
      BY <1>1, <1>2, <2>2, <3>1, <3>2, <3>3 DEF LogInv, CallInv
  <2>3. CASE Compare(t)
    BY <2>1, <2>2, <2>3 DEF Compare, GoOn
  <2>4. CASE Silenced(t)
    <3>1. dbgLevel # LOG_NONE => Justified(log[t].level, log[t].inForce)
      BY <1>1, <2>4 DEF Silenced, LogInv, CallInv, Justified, Allows
    <3>. QED
      BY <2>1, <2>2, <2>4, <3>1 DEF Silenced, GoOn
  <2>. QED
    BY <2>3, <2>4
<1>4. ASSUME NEW u \in Threads \ {t} PROVE CallInv(u)'
  <2>1. log'[u] = log[u]
    BY DEF Compare, Silenced, GoOn, LogInv
  <2>. QED
    BY <1>2, <2>1 DEF LogInv, CallInv
<1>. QED
  BY <1>2, <1>3, <1>4 DEF LogInv

(* A call that prints its line. *)
LEMMA ShowStep ==
  ASSUME LogInv, NEW t \in Threads, Show(t)
  PROVE  LogInv'
<1>1. /\ log[t] \in LogCall
      /\ Justified(log[t].level, log[t].inForce)
  BY CallShape DEF Show, LogInv, CallInv, NotLogging
<1>2. /\ line' = [level |-> log[t].level, inForce |-> log[t].inForce]
      /\ log' = [log EXCEPT ![t] = NotLogging]
      /\ dbgLevel' = dbgLevel
  BY DEF Show
<1>3. ASSUME NEW u \in Threads PROVE CallInv(u)'
  BY <1>2, <1>3 DEF LogInv, CallInv, NotLogging
<1>. QED
  BY <1>1, <1>2, <1>3 DEF LogInv, LogCall

(* The invariant of the logger. *)
THEOREM LogInvariant == Spec => []LogInv
<1>1. Init => LogInv
  BY InitLog
<1>2. LogInv /\ [Next]_vars => LogInv'
  <2>1. ASSUME LogInv, NEW t \in Threads, NEW level \in Used \cup {Invalid},
               SET_DEBUG_LEVEL(t, level)
        PROVE  LogInv'
    BY <2>1, SetStep, CallLogStep, UsedAssumption
    DEF SET_DEBUG_LEVEL, Levels, LOG_FATAL, LOG_NONE
  <2>2. ASSUME LogInv, NEW t \in Threads, NEW level \in Used, Log(t, level)
        PROVE  LogInv'
    BY <2>2, CallLogStep, UsedAssumption DEF Log
  <2>3. ASSUME LogInv, UNCHANGED vars PROVE LogInv'
    BY <2>3 DEF LogInv, CallInv, vars
  <2>. QED
    BY <2>1, <2>2, <2>3, TestStep, ShowStep DEF Next
<1>. QED
  BY <1>1, <1>2, PTL DEF Spec

(* dbgLevel and every level that a call compares with is one of the         *)
(* enumerated ones.                                                         *)
THEOREM TypeCorrect == Spec => []TypeOK
<1>1. LogInv => TypeOK
  BY CallShape DEF LogInv, TypeOK, LogCall
<1>. QED
  BY <1>1, LogInvariant, PTL

(* However SET_DEBUG_LEVEL races with the two unlocked reads, a line that   *)
(* no level in force allows appears only when dbgLevel left LOG_NONE        *)
(* between them.                                                            *)
THEOREM OnlyNoneLeaks == Spec => []OnlyLeavingNoneLeaks
<1>1. LogInv => OnlyLeavingNoneLeaks
  BY JustifiedCounts DEF LogInv, OnlyLeavingNoneLeaks
<1>. QED
  BY <1>1, LogInvariant, PTL
=============================================================================
