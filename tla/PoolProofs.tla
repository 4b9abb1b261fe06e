------------------------------ MODULE PoolProofs ------------------------------
(***************************************************************************)
(* Proofs about the pool supervisor and its trading processes, for any     *)
(* pools, any number of processes, days, restarts and crashes, any length  *)
(* of the watch list and any daily cap.                                    *)
(***************************************************************************)
EXTENDS PoolProperties, SequenceTheorems, TLAPS

\* PoolTypeOK in two parts: the processes, and the rest.
ProcsOK ==
  /\ child \in Procs \cup {NoProc}
  /\ traders \in [Procs -> [st : States, pool : Pools \cup {NoPool}, term : BOOLEAN]]
  /\ \A t \in Procs : traders[t].pool = NoPool <=> traders[t] = Nobody
  /\ child # NoProc => traders[child] # Nobody

SupervisorOK ==
  /\ pc \in {"down", "reap", "intake", "records", "pending", "gates", "check", "save", "stopped"}
  /\ shutdown \in BOOLEAN /\ blocked \in BOOLEAN /\ persistFailed \in BOOLEAN
  /\ discState \in [day : 0..LastDay, count : Nat, traded : SUBSET Pools]
  /\ discFile \in [day : 0..LastDay, count : Nat, traded : SUBSET Pools]
  /\ watch \in Seq(Pools) /\ Len(watch) <= MaxWatch
  /\ seen \in SUBSET Pools
  /\ checks \in 0..ChecksPerLoop
  /\ today \in 1..LastDay
  /\ pc = "save" => child # NoProc

HistoryOK ==
  /\ posRec \in Pools \cup {NoPool} /\ pendRec \in Pools \cup {NoPool}
  /\ handed \in [Pools -> Nat] /\ startsToday \in Nat /\ forgotten \in Nat
  /\ restarts \in 0..MaxRestarts /\ crashes \in 0..MaxCrashes

LEMMA TypeParts == PoolTypeOK <=> ProcsOK /\ SupervisorOK /\ HistoryOK
BY DEF PoolTypeOK, ProcsOK, SupervisorOK, HistoryOK

LEMMA TypePartsNext == PoolTypeOK' <=> ProcsOK' /\ SupervisorOK' /\ HistoryOK'
BY DEF PoolTypeOK, ProcsOK, SupervisorOK, HistoryOK

-----------------------------------------------------------------------------
(* The watch list *)

LEMMA WithoutType ==
  ASSUME watch \in Seq(Pools), NEW i \in 1..Len(watch)
  PROVE  /\ Without(i) \in Seq(Pools)
         /\ Len(Without(i)) = Len(watch) - 1
         /\ watch[i] \in Pools
         /\ Append(Without(i), watch[i]) \in Seq(Pools)
         /\ Len(Append(Without(i), watch[i])) = Len(watch)
<1> DEFINE front == SubSeq(watch, 1, i - 1)
           back  == SubSeq(watch, i + 1, Len(watch))
<1>1. Len(watch) \in Nat /\ i \in 1..Len(watch)
  BY LenProperties
<1>2. \A j \in 1..Len(watch) : watch[j] \in Pools
  BY ElementOfSeq
<1>3. front \in Seq(Pools) /\ Len(front) = i - 1
  <2>1. 1 \in Int /\ i - 1 \in Int /\ \A j \in 1..i - 1 : watch[j] \in Pools
    BY <1>1, <1>2
  <2>2. /\ front \in Seq(Pools)
        /\ Len(front) = IF 1 <= i - 1 THEN i - 1 - 1 + 1 ELSE 0
    BY <2>1, SubSeqProperties
  <2> QED
    BY <2>2, <1>1
<1>4. back \in Seq(Pools) /\ Len(back) = Len(watch) - i
  <2>1. i + 1 \in Int /\ Len(watch) \in Int /\ \A j \in i + 1..Len(watch) : watch[j] \in Pools
    BY <1>1, <1>2
  <2>2. /\ back \in Seq(Pools)
        /\ Len(back) = IF i + 1 <= Len(watch) THEN Len(watch) - (i + 1) + 1 ELSE 0
    BY <2>1, SubSeqProperties
  <2> QED
    BY <2>2, <1>1
<1>5. front \o back \in Seq(Pools) /\ Len(front \o back) = Len(front) + Len(back)
  BY <1>3, <1>4, ConcatProperties
<1>6. Without(i) = front \o back
  BY DEF Without
<1> HIDE DEF front, back
<1>7. Without(i) \in Seq(Pools) /\ Len(Without(i)) = Len(watch) - 1
  <2>1. Len(front \o back) = Len(watch) - 1
    BY <1>1, <1>3, <1>4, <1>5
  <2> QED
    BY <1>5, <1>6, <2>1
<1>8. watch[i] \in Pools
  BY <1>2
<1>9. /\ Append(Without(i), watch[i]) \in Seq(Pools)
      /\ Len(Append(Without(i), watch[i])) = Len(Without(i)) + 1
  BY <1>7, <1>8, AppendProperties
<1> QED
  BY <1>1, <1>7, <1>8, <1>9

LEMMA WatchedType ==
  ASSUME watch \in Seq(Pools), Len(watch) <= MaxWatch, NEW p \in Pools
  PROVE  Watched(p) \in Seq(Pools) /\ Len(Watched(p)) <= MaxWatch
<1>1. Len(watch) \in Nat /\ MaxWatch \in Nat \ {0}
  BY LenProperties, SupervisorAssumption
<1>2. CASE Len(watch) >= MaxWatch
  <2>1. watch # << >>
    BY <1>1, <1>2, EmptySeq
  <2>2. Tail(watch) \in Seq(Pools) /\ Len(Tail(watch)) = Len(watch) - 1
    BY <2>1, HeadTailProperties
  <2>3. /\ Append(Tail(watch), p) \in Seq(Pools)
        /\ Len(Append(Tail(watch), p)) = Len(Tail(watch)) + 1
    BY <2>2, AppendProperties
  <2> QED
    BY <1>1, <1>2, <2>2, <2>3 DEF Watched
<1>3. CASE ~(Len(watch) >= MaxWatch)
  <2>1. Append(watch, p) \in Seq(Pools) /\ Len(Append(watch, p)) = Len(watch) + 1
    BY AppendProperties
  <2> QED
    BY <1>1, <1>3, <2>1 DEF Watched
<1> QED
  BY <1>2, <1>3

LEMMA UnwatchedType ==
  ASSUME watch \in Seq(Pools), Len(watch) <= MaxWatch, NEW p
  PROVE  Unwatched(p) \in Seq(Pools) /\ Len(Unwatched(p)) <= MaxWatch
<1>1. Len(watch) \in Nat /\ MaxWatch \in Nat
  BY LenProperties, SupervisorAssumption
<1>2. CASE p \in Watching
  <2> DEFINE i == CHOOSE j \in 1..Len(watch) : watch[j] = p
  <2>1. i \in 1..Len(watch)
    BY <1>2 DEF Watching
  <2>2. Without(i) \in Seq(Pools) /\ Len(Without(i)) = Len(watch) - 1
    BY <2>1, WithoutType
  <2>3. Unwatched(p) = Without(i)
    BY <1>2 DEF Unwatched
  <2> HIDE DEF i
  <2> QED
    BY <1>1, <2>2, <2>3
<1>3. CASE p \notin Watching
  BY <1>3 DEF Unwatched
<1> QED
  BY <1>2, <1>3

-----------------------------------------------------------------------------
(* The trading processes *)

\* A process that exists takes a step.
LEMMA GoesType ==
  ASSUME ProcsOK, NEW t \in Procs, NEW from \in States \ {"none"}, NEW to \in States,
         Goes(t, from, to), UNCHANGED child
  PROVE  ProcsOK'
<1>1. traders[t].st = from /\ traders[t] # Nobody
  BY DEF Goes, Nobody
<1>2. traders' = [traders EXCEPT ![t].st = to]
  BY DEF Goes
<1>3. traders' \in [Procs -> [st : States, pool : Pools \cup {NoPool}, term : BOOLEAN]]
  BY <1>2 DEF ProcsOK
<1>4. \A u \in Procs : u # t => traders'[u] = traders[u]
  BY <1>2 DEF ProcsOK
<1>5. traders'[t].pool = traders[t].pool
  BY <1>2 DEF ProcsOK
<1>6. traders[t].pool # NoPool
  BY <1>1 DEF ProcsOK
<1>7. traders'[t] # Nobody
  BY <1>5, <1>6 DEF Nobody
<1> QED
  BY <1>3, <1>4, <1>5, <1>6, <1>7 DEF ProcsOK

\* A process that exists ends.
LEMMA ExitsType ==
  ASSUME ProcsOK, NEW t \in Procs, traders[t] # Nobody, NEW how \in States,
         Exits(t, how), UNCHANGED child
  PROVE  ProcsOK'
<1>1. traders[t].pool # NoPool
  BY DEF ProcsOK
<1>2. Nobody \in [st : States, pool : Pools \cup {NoPool}, term : BOOLEAN]
  BY DEF Nobody, States
<1>3. CASE t = child
  <2>1. traders' = [traders EXCEPT ![t] = [@ EXCEPT !.st = how]]
    BY <1>3 DEF Exits
  <2>2. traders' \in [Procs -> [st : States, pool : Pools \cup {NoPool}, term : BOOLEAN]]
    BY <2>1 DEF ProcsOK
  <2>3. \A u \in Procs : u # t => traders'[u] = traders[u]
    BY <2>1 DEF ProcsOK
  <2>4. traders'[t].pool = traders[t].pool
    BY <2>1 DEF ProcsOK
  <2>5. traders'[t] # Nobody
    BY <1>1, <2>4 DEF Nobody
  <2> QED
    BY <1>1, <2>2, <2>3, <2>4, <2>5 DEF ProcsOK
<1>4. CASE t # child
  <2>1. traders' = [traders EXCEPT ![t] = Nobody]
    BY <1>4 DEF Exits
  <2>2. traders' \in [Procs -> [st : States, pool : Pools \cup {NoPool}, term : BOOLEAN]]
    BY <1>2, <2>1 DEF ProcsOK
  <2>3. \A u \in Procs : u # t => traders'[u] = traders[u]
    BY <2>1 DEF ProcsOK
  <2>4. traders'[t] = Nobody /\ traders'[t].pool = NoPool
    BY <2>1 DEF ProcsOK, Nobody
  <2> QED
    BY <1>4, <2>2, <2>3, <2>4 DEF ProcsOK
<1> QED
  BY <1>3, <1>4

\* A new process.
LEMMA RunType ==
  ASSUME ProcsOK, NEW t \in Procs, NEW p \in Pools,
         child' = t, traders' = [traders EXCEPT ![t] = Run(p)]
  PROVE  ProcsOK'
<1>1. Run(p) \in [st : States, pool : Pools \cup {NoPool}, term : BOOLEAN]
  BY DEF Run, States
<1>2. Run(p).pool # NoPool /\ Run(p) # Nobody
  BY SupervisorAssumption DEF Run, Nobody
<1>3. traders' \in [Procs -> [st : States, pool : Pools \cup {NoPool}, term : BOOLEAN]]
  BY <1>1 DEF ProcsOK
<1>4. \A u \in Procs : u # t => traders'[u] = traders[u]
  BY DEF ProcsOK
<1>5. traders'[t] = Run(p)
  BY DEF ProcsOK
<1> QED
  BY <1>2, <1>3, <1>4, <1>5 DEF ProcsOK

\* A signal, which may be one that cannot be caught.
LEMMA SignalType ==
  ASSUME ProcsOK, NEW t \in Procs, Alive(t), UNCHANGED child,
         \/ traders' = [traders EXCEPT ![t].term = TRUE]
         \/ traders' = [traders EXCEPT ![t].st = "failed"]
  PROVE  ProcsOK'
<1>1. traders' \in [Procs -> [st : States, pool : Pools \cup {NoPool}, term : BOOLEAN]]
  BY DEF ProcsOK, States
<1>2. \A u \in Procs : u # t => traders'[u] = traders[u]
  BY DEF ProcsOK
<1>3. traders'[t].pool = traders[t].pool
  BY DEF ProcsOK
<1>4. traders[t].pool # NoPool
  BY DEF ProcsOK, Alive, Nobody
<1>5. traders'[t] # Nobody
  BY <1>3, <1>4 DEF Nobody
<1> QED
  BY <1>1, <1>2, <1>3, <1>4, <1>5 DEF ProcsOK

-----------------------------------------------------------------------------
(* Type correctness *)

\* The start of a process for a pool that has a record, or its failure.
LEMMA ResumePoolType ==
  ASSUME PoolTypeOK, NEW p \in Pools, ResumePool(p)
  PROVE  PoolTypeOK'
<1>1. ProcsOK /\ SupervisorOK /\ HistoryOK
  BY TypeParts
<1>2. ProcsOK'
  <2>1. CASE \E t \in Free : child' = t /\ traders' = [traders EXCEPT ![t] = Run(p)]
    BY <1>1, <2>1, RunType DEF Free
  <2>2. CASE UNCHANGED <<child, traders>>
    BY <1>1, <2>2 DEF ProcsOK
  <2> QED
    BY <2>1, <2>2 DEF ResumePool
<1>3. watch' \in Seq(Pools) /\ Len(watch') <= MaxWatch
  BY <1>1, UnwatchedType DEF SupervisorOK, ResumePool
<1>4. SupervisorOK'
  BY <1>1, <1>3 DEF SupervisorOK, ResumePool
<1>5. HistoryOK'
  BY <1>1 DEF HistoryOK, ResumePool, recVars, histVars
<1> QED
  BY <1>2, <1>4, <1>5, TypePartsNext

\* What record_start makes of the state.
LEMMA RecordedType ==
  ASSUME SupervisorOK, NEW p \in Pools
  PROVE  WithStart(discState, p) \in [day : 0..LastDay, count : Nat, traded : SUBSET Pools]
<1>1. StartsCounted(discState) \in Nat /\ today \in 0..LastDay
  BY SupervisorAssumption DEF SupervisorOK, StartsCounted
<1>2. discState.traded \cup {p} \in SUBSET Pools
  BY DEF SupervisorOK
<1> QED
  BY <1>1, <1>2 DEF WithStart

LEMMA SuperviseType ==
  ASSUME PoolTypeOK, Supervise
  PROVE  PoolTypeOK'
<1>1. ProcsOK /\ SupervisorOK /\ HistoryOK
  BY TypeParts
<1>2. 0 \in 0..ChecksPerLoop /\ ChecksPerLoop \in 0..ChecksPerLoop
  BY SupervisorAssumption
<1> USE DEF memVars, recVars, histVars
<1>3. CASE Start
  BY <1>1, <1>3, TypePartsNext DEF Start, ProcsOK, SupervisorOK, HistoryOK
<1>4. CASE ChildExited
  <2>1. Nobody \in [st : States, pool : Pools \cup {NoPool}, term : BOOLEAN]
    BY DEF Nobody, States
  <2>2. ProcsOK'
    BY <1>1, <1>4, <2>1, SupervisorAssumption DEF ChildExited, ProcsOK, Nobody
  <2>3. SupervisorOK' /\ HistoryOK'
    BY <1>1, <1>4 DEF ChildExited, SupervisorOK, HistoryOK
  <2> QED
    BY <2>2, <2>3, TypePartsNext
<1>5. CASE ChildRuns
  <2>1. child \in Procs /\ Alive(child) /\ UNCHANGED child
    BY <1>1, <1>5 DEF ChildRuns, ProcsOK
  <2>2. ProcsOK'
    <3>1. CASE traders' = traders
      BY <1>1, <2>1, <3>1 DEF ProcsOK
    <3>2. CASE traders' = [traders EXCEPT ![child].term = TRUE]
      BY <1>1, <2>1, <3>2, SignalType
    <3>3. CASE traders' = [traders EXCEPT ![child].st = "failed"]
      BY <1>1, <2>1, <3>3, SignalType
    <3> QED
      BY <1>5, <3>1, <3>2, <3>3 DEF ChildRuns
  <2>3. SupervisorOK' /\ HistoryOK'
    BY <1>1, <1>5 DEF ChildRuns, SupervisorOK, HistoryOK
  <2> QED
    BY <2>2, <2>3, TypePartsNext
<1>6. CASE NoChild \/ IntakeDone \/ NoPosition \/ NothingOpen \/ GatesClosed
  BY <1>1, <1>6, TypePartsNext
     DEF NoChild, IntakeDone, NoPosition, NothingOpen, GatesClosed,
         ProcsOK, SupervisorOK, HistoryOK
<1>7. CASE ResumePosition
  BY <1>1, <1>7, ResumePoolType DEF ResumePosition, HistoryOK
<1>8. CASE ResumePending
  BY <1>1, <1>8, ResumePoolType DEF ResumePending, HistoryOK
<1>9. CASE RiskRefuses \/ RiskAllows \/ ChecksDone
  BY <1>1, <1>2, <1>9, TypePartsNext
     DEF RiskRefuses, RiskAllows, ChecksDone, ProcsOK, SupervisorOK, HistoryOK
<1>10. CASE RecordStart
  <2>1. child \in Procs /\ child # NoProc
    BY <1>1, <1>10 DEF RecordStart, ProcsOK, SupervisorOK
  <2>2. traders[child].pool \in Pools
    BY <1>1, <2>1 DEF ProcsOK
  <2>3. discState' \in [day : 0..LastDay, count : Nat, traded : SUBSET Pools]
    BY <1>1, <1>10, <2>2, RecordedType DEF RecordStart
  <2>4. SupervisorOK'
    BY <1>1, <1>10, <2>3 DEF RecordStart, SupervisorOK
  <2> QED
    BY <1>1, <1>10, <2>4, TypePartsNext DEF RecordStart, ProcsOK, HistoryOK
<1>11. ASSUME NEW i \in 1..Len(watch), Expire(i) \/ Check(i)
       PROVE  PoolTypeOK'
  <2>1. /\ Without(i) \in Seq(Pools) /\ Len(Without(i)) <= MaxWatch
        /\ watch[i] \in Pools
        /\ Append(Without(i), watch[i]) \in Seq(Pools)
        /\ Len(Append(Without(i), watch[i])) <= MaxWatch
    <3>1. Len(watch) \in Nat /\ Len(watch) <= MaxWatch /\ MaxWatch \in Nat
      BY <1>1, LenProperties, SupervisorAssumption DEF SupervisorOK
    <3> QED
      BY <1>1, <3>1, WithoutType DEF SupervisorOK
  <2>2. CASE Expire(i) \/ CheckCandidate(i) \/ StartFails(i)
    <3>1. checks' \in 0..ChecksPerLoop
      BY <1>1, <1>2, <2>2, SupervisorAssumption
         DEF Expire, CheckCandidate, StartFails, SupervisorOK
    <3>2. watch' \in Seq(Pools) /\ Len(watch') <= MaxWatch
      BY <2>1, <2>2 DEF Expire, CheckCandidate, StartFails
    <3> QED
      BY <1>1, <2>2, <3>1, <3>2, TypePartsNext
         DEF Expire, CheckCandidate, StartFails, ProcsOK, SupervisorOK, HistoryOK
  <2>3. CASE StartPool(i)
    <3>1. ProcsOK'
      BY <1>1, <2>1, <2>3, RunType DEF StartPool, Free
    <3>2. SupervisorOK'
      BY <1>1, <1>2, <2>1, <2>3, SupervisorAssumption DEF StartPool, SupervisorOK, Free
    <3>3. HistoryOK'
      BY <1>1, <2>1, <2>3 DEF StartPool, HistoryOK
    <3> QED
      BY <3>1, <3>2, <3>3, TypePartsNext
  <2> QED
    BY <1>11, <2>2, <2>3 DEF Check
<1> QED
  BY <1>3, <1>4, <1>5, <1>6, <1>7, <1>8, <1>9, <1>10, <1>11 DEF Supervise

\* A trading process leaves the supervisor alone.
LEMMA TradeKeeps ==
  ASSUME NEW t \in Procs, Trade(t)
  PROVE  UNCHANGED <<pc, memVars, discFile, today, histVars>>
BY DEF Trade, Lock, LockRefused, NothingPending, DropPending, BookPending, ClearBooked,
       TakeOver, RefuseForeign, StartFlat, BootFails, SavePending, SavePosition,
       ClearPending, ForgetPending, HaltInDoubt, Sell, Leave

LEMMA TradeType ==
  ASSUME PoolTypeOK, NEW t \in Procs, Trade(t)
  PROVE  PoolTypeOK'
<1>1. ProcsOK /\ SupervisorOK /\ HistoryOK
  BY TypeParts
<1>2. traders[t].pool \in Pools \cup {NoPool}
  BY <1>1 DEF ProcsOK
<1>3. UNCHANGED child /\ SupervisorOK' /\ HistoryOK'
  <2>1. /\ posRec' \in Pools \cup {NoPool} /\ pendRec' \in Pools \cup {NoPool}
    BY <1>1, <1>2
       DEF HistoryOK, recVars, Trade, Lock, LockRefused, NothingPending, DropPending,
           BookPending, ClearBooked, TakeOver, RefuseForeign, StartFlat, BootFails,
           SavePending, SavePosition, ClearPending, ForgetPending, HaltInDoubt, Sell, Leave
  <2> QED
    BY <1>1, <2>1, TradeKeeps DEF SupervisorOK, HistoryOK, memVars, histVars
<1>4. ProcsOK'
  <2>1. CASE \E from \in States \ {"none"}, to \in States : Goes(t, from, to)
    BY <1>1, <1>3, <2>1, GoesType
  <2>2. CASE traders[t].st # "none" /\ \E how \in States : Exits(t, how)
    BY <1>1, <1>3, <2>2, ExitsType DEF Nobody
  <2>3. CASE \/ LockRefused(t) \/ RefuseForeign(t) \/ BootFails(t)
             \/ Sell(t) \/ Leave(t)
    BY <2>2, <2>3 DEF LockRefused, RefuseForeign, BootFails, Sell, Leave, States
  <2>4. CASE \/ Lock(t) \/ NothingPending(t) \/ DropPending(t) \/ BookPending(t)
             \/ ClearBooked(t) \/ TakeOver(t) \/ StartFlat(t)
    BY <2>1, <2>4
       DEF Lock, NothingPending, DropPending, BookPending, ClearBooked, TakeOver, StartFlat, States
  <2>5. CASE \/ SavePending(t) \/ SavePosition(t) \/ ClearPending(t)
             \/ ForgetPending(t) \/ HaltInDoubt(t)
    BY <2>1, <2>5
       DEF SavePending, SavePosition, ClearPending, ForgetPending, HaltInDoubt, States
  <2> QED
    BY <2>3, <2>4, <2>5 DEF Trade
<1> QED
  BY <1>3, <1>4, TypePartsNext

LEMMA NothingRead ==
  /\ NoState \in [day : 0..LastDay, count : Nat, traded : SUBSET Pools]
  /\ << >> \in Seq(Pools) /\ Len(<< >>) <= MaxWatch
  /\ {} \in SUBSET Pools /\ 0 \in 0..ChecksPerLoop
<1>1. << >> \in Seq(Pools) /\ Len(<< >>) = 0
  BY EmptySeq
<1>2. 0 \in 0..LastDay /\ 0 \in 0..ChecksPerLoop /\ 0 <= MaxWatch
  BY SupervisorAssumption
<1> QED
  BY <1>1, <1>2 DEF NoState

LEMMA EnvironmentType ==
  ASSUME PoolTypeOK, Environment
  PROVE  PoolTypeOK'
<1>1. ProcsOK /\ SupervisorOK /\ HistoryOK
  BY TypeParts
<1> USE DEF memVars, recVars, histVars
<1>2. CASE Terminate
  <2>1. ProcsOK'
    <3>1. CASE traders' = traders
      BY <1>1, <1>2, <3>1 DEF Terminate, ProcsOK
    <3>2. CASE traders' = [t \in Procs |-> IF Alive(t) THEN [traders[t] EXCEPT !.term = TRUE]
                                                       ELSE traders[t]]
      <4>1. traders' \in [Procs -> [st : States, pool : Pools \cup {NoPool}, term : BOOLEAN]]
        BY <1>1, <3>2 DEF ProcsOK
      <4>2. \A t \in Procs : traders'[t].pool = traders[t].pool
        BY <1>1, <3>2 DEF ProcsOK
      <4>3. ASSUME NEW t \in Procs
            PROVE  traders'[t] = Nobody <=> traders[t] = Nobody
        <5>1. CASE Alive(t)
          BY <1>1, <3>2, <4>2, <5>1 DEF ProcsOK, Alive, Nobody
        <5>2. CASE ~Alive(t)
          BY <3>2, <5>2
        <5> QED
          BY <5>1, <5>2
      <4>4. UNCHANGED child
        BY <1>2 DEF Terminate
      <4> QED
        BY <1>1, <4>1, <4>2, <4>3, <4>4 DEF ProcsOK
    <3> QED
      BY <1>2, <3>1, <3>2 DEF Terminate
  <2>2. SupervisorOK' /\ HistoryOK'
    BY <1>1, <1>2 DEF Terminate, SupervisorOK, HistoryOK
  <2> QED
    BY <2>1, <2>2, TypePartsNext
<1>3. CASE Crash
  <2>1. Nobody \in [st : States, pool : Pools \cup {NoPool}, term : BOOLEAN]
    BY DEF Nobody, States
  <2>2. ProcsOK'
    BY <1>1, <1>3, <2>1 DEF Crash, ProcsOK, Nobody
  <2>3. SupervisorOK'
    BY <1>1, <1>3, NothingRead DEF Crash, SupervisorOK
  <2>4. HistoryOK'
    BY <1>1, <1>3, SupervisorAssumption DEF Crash, HistoryOK
  <2> QED
    BY <2>2, <2>3, <2>4, TypePartsNext
<1>4. CASE Unblock \/ Midnight
  <2>1. today' \in 1..LastDay /\ startsToday' \in Nat
    <3>1. LastDay \in Nat /\ today \in 1..LastDay /\ startsToday \in Nat
      BY <1>1, SupervisorAssumption DEF SupervisorOK, HistoryOK
    <3>2. \/ today' = today /\ startsToday' = startsToday
          \/ today < LastDay /\ today' = today + 1 /\ startsToday' = 0
      BY <1>4 DEF Unblock, Midnight
    <3> QED
      BY <3>1, <3>2
  <2>2. ProcsOK'
    BY <1>1, <1>4 DEF Unblock, Midnight, ProcsOK
  <2>3. UNCHANGED <<posRec, pendRec, handed, forgotten, restarts, crashes>>
    BY <1>4 DEF Unblock, Midnight
  <2>4. HistoryOK'
    BY <1>1, <2>1, <2>3 DEF HistoryOK
  <2>5. SupervisorOK'
    <3>1. CASE Unblock
      BY <1>1, <3>1 DEF Unblock, SupervisorOK
    <3>2. CASE Midnight
      BY <1>1, <2>1, <3>2 DEF Midnight, SupervisorOK
    <3> QED
      BY <1>4, <3>1, <3>2
  <2> QED
    BY <2>2, <2>4, <2>5, TypePartsNext
<1>5. ASSUME NEW p \in Pools, Discover(p)
      PROVE  PoolTypeOK'
  <2>1. watch' \in Seq(Pools) /\ Len(watch') <= MaxWatch
    BY <1>1, <1>5, WatchedType DEF SupervisorOK, Discover
  <2> QED
    BY <1>1, <1>5, <2>1, TypePartsNext DEF Discover, ProcsOK, SupervisorOK, HistoryOK
<1>6. ASSUME NEW t \in Procs, TerminateOrphan(t)
      PROVE  PoolTypeOK'
  <2>1. ProcsOK'
    BY <1>1, <1>6, SignalType DEF TerminateOrphan
  <2>2. SupervisorOK' /\ HistoryOK'
    BY <1>1, <1>6 DEF TerminateOrphan, SupervisorOK, HistoryOK
  <2> QED
    BY <2>1, <2>2, TypePartsNext
<1>7. ASSUME NEW t \in Procs, TraderCrash(t)
      PROVE  PoolTypeOK'
  <2>1. ProcsOK'
    BY <1>1, <1>7, ExitsType DEF TraderCrash, Alive, Nobody, States
  <2>2. SupervisorOK' /\ HistoryOK'
    BY <1>1, <1>7, SupervisorAssumption DEF TraderCrash, SupervisorOK, HistoryOK
  <2> QED
    BY <2>1, <2>2, TypePartsNext
<1> QED
  BY <1>2, <1>3, <1>4, <1>5, <1>6, <1>7 DEF Environment

LEMMA InitType == Init => PoolTypeOK
<1> SUFFICES ASSUME Init
             PROVE  PoolTypeOK
  OBVIOUS
<1>1. Nobody \in [st : States, pool : Pools \cup {NoPool}, term : BOOLEAN]
  BY DEF Nobody, States
<1>2. ProcsOK
  BY <1>1 DEF Init, ProcsOK, Nobody
<1>3. SupervisorOK
  <2>1. watch \in Seq(Pools) /\ Len(watch) <= MaxWatch
    BY NothingRead DEF Init
  <2>2. today \in 1..LastDay
    BY SupervisorAssumption DEF Init
  <2>3. checks \in 0..ChecksPerLoop /\ seen \in SUBSET Pools
    BY NothingRead DEF Init
  <2> QED
    BY <2>1, <2>2, <2>3, NothingRead DEF Init, SupervisorOK
<1>4. HistoryOK
  BY SupervisorAssumption DEF Init, HistoryOK
<1> QED
  BY <1>2, <1>3, <1>4, TypeParts

LEMMA NextType == PoolTypeOK /\ [Next]_vars => PoolTypeOK'
<1> SUFFICES ASSUME PoolTypeOK, [Next]_vars
             PROVE  PoolTypeOK'
  OBVIOUS
<1>1. CASE UNCHANGED vars
  BY <1>1 DEF vars, memVars, recVars, histVars, PoolTypeOK, Nobody
<1> QED
  BY <1>1, SuperviseType, TradeType, EnvironmentType DEF Next

\* The supervisor's state, its file, the processes and the records are well
\* typed: the watch list never exceeds --max-watch, a child is a process.
THEOREM PoolTypes == Spec => []PoolTypeOK
BY InitType, NextType, PTL DEF Spec

-----------------------------------------------------------------------------
(* The records and the process at work *)

\* The lock has one holder.  While a holder starts up, a pending entry it booked
\* left a position, and it looks for a position only when no entry is pending.
OneHolder ==
  \A t, u \in Procs : traders[t].st \in Locking /\ traders[u].st \in Locking => t = u

BootRecords ==
  \A t \in Procs :
    /\ traders[t].st = "booked" => posRec # NoPool
    /\ traders[t].st = "matching" => pendRec = NoPool

RecordsInv == OneHolder /\ BootRecords /\ RecordsOfTrader

\* Whoever holds the lock after the step held it before, in the same state.
Quiet ==
  /\ UNCHANGED recVars
  /\ \A t \in Procs : traders'[t].st \in Locking =>
       traders'[t].st = traders[t].st /\ traders'[t].pool = traders[t].pool

\* Only t holds the lock after the step.
Alone(t) == \A u \in Procs : traders'[u].st \in Locking => u = t

LEMMA QuietKeeps ==
  ASSUME RecordsInv, Quiet
  PROVE  RecordsInv'
<1>1. {"booked", "matching", "hunting", "sending", "halted", "bought", "holding"} \subseteq Locking
  BY DEF Locking, States, Ended
<1>2. OneHolder'
  BY DEF RecordsInv, OneHolder, Quiet
<1>3. BootRecords'
  BY <1>1 DEF RecordsInv, BootRecords, Quiet, recVars
<1>4. RecordsOfTrader'
  BY <1>1 DEF RecordsInv, RecordsOfTrader, Quiet, recVars
<1> QED
  BY <1>2, <1>3, <1>4 DEF RecordsInv

\* Processes that do not move, or move only where no lock is held, are quiet.
LEMMA ExitsQuiet ==
  ASSUME PoolTypeOK, NEW t \in Procs, NEW how \in Ended, Exits(t, how), UNCHANGED recVars
  PROVE  Quiet
<1>1. traders' = [traders EXCEPT ![t] = [@ EXCEPT !.st = how]]
      \/ traders' = [traders EXCEPT ![t] = Nobody]
  BY DEF Exits
<1>2. \A u \in Procs : u # t => traders'[u] = traders[u]
  BY <1>1 DEF PoolTypeOK
<1>3. traders'[t].st \notin Locking
  BY <1>1 DEF PoolTypeOK, Locking, Ended, Nobody
<1> QED
  BY <1>2, <1>3 DEF Quiet

LEMMA RunQuiet ==
  ASSUME PoolTypeOK, NEW t \in Procs, NEW p \in Pools,
         traders' = [traders EXCEPT ![t] = Run(p)], UNCHANGED recVars
  PROVE  Quiet
<1>1. \A u \in Procs : u # t => traders'[u] = traders[u]
  BY DEF PoolTypeOK
<1>2. traders'[t].st \notin Locking
  BY DEF PoolTypeOK, Locking, Run
<1> QED
  BY <1>1, <1>2 DEF Quiet

LEMMA SuperviseQuiet ==
  ASSUME PoolTypeOK, Supervise
  PROVE  Quiet
<1> USE DEF memVars, recVars
<1>1. CASE UNCHANGED <<traders, recVars>>
  BY <1>1 DEF Quiet
<1>2. CASE ChildExited
  <2>1. traders' = [traders EXCEPT ![child] = Nobody] /\ child \in Procs
    BY <1>2 DEF ChildExited, PoolTypeOK
  <2>2. \A u \in Procs : u # child => traders'[u] = traders[u]
    BY <2>1 DEF PoolTypeOK
  <2>3. traders'[child].st \notin Locking
    BY <2>1 DEF PoolTypeOK, Locking, Nobody
  <2> QED
    BY <1>2, <2>2, <2>3 DEF Quiet, ChildExited
<1>3. CASE ChildRuns
  <2>1. \/ traders' = traders
        \/ traders' = [traders EXCEPT ![child].term = TRUE]
        \/ traders' = [traders EXCEPT ![child].st = "failed"]
    BY <1>3 DEF ChildRuns
  <2>2. child \in Procs /\ UNCHANGED recVars
    BY <1>3 DEF ChildRuns, PoolTypeOK
  <2>3. \A u \in Procs : u # child => traders'[u] = traders[u]
    BY <2>1 DEF PoolTypeOK
  <2>4. CASE traders' = traders
    BY <2>2, <2>4 DEF Quiet
  <2>5. CASE traders' = [traders EXCEPT ![child].term = TRUE]
    <3>1. traders'[child].st = traders[child].st /\ traders'[child].pool = traders[child].pool
      BY <2>2, <2>5 DEF PoolTypeOK
    <3> QED
      BY <2>2, <2>3, <3>1 DEF Quiet
  <2>6. CASE traders' = [traders EXCEPT ![child].st = "failed"]
    <3>1. traders'[child].st \notin Locking
      BY <2>2, <2>6 DEF PoolTypeOK, Locking, Ended
    <3> QED
      BY <2>2, <2>3, <3>1 DEF Quiet
  <2> QED
    BY <2>1, <2>4, <2>5, <2>6
<1>4. ASSUME NEW p \in Pools, ResumePool(p)
      PROVE  Quiet
  BY <1>1, <1>4, RunQuiet DEF ResumePool, Free
<1>5. CASE ResumePosition \/ ResumePending
  BY <1>4, <1>5 DEF ResumePosition, ResumePending, PoolTypeOK
<1>6. ASSUME NEW i \in 1..Len(watch), StartPool(i)
      PROVE  Quiet
  <2>1. watch[i] \in Pools
    BY ElementOfSeq DEF PoolTypeOK
  <2> QED
    BY <1>6, <2>1, RunQuiet DEF StartPool, Free
<1>7. ASSUME NEW i \in 1..Len(watch), Expire(i) \/ CheckCandidate(i) \/ StartFails(i)
      PROVE  Quiet
  BY <1>1, <1>7 DEF Expire, CheckCandidate, StartFails
<1>8. CASE \/ Start \/ NoChild \/ IntakeDone \/ NoPosition \/ NothingOpen
           \/ GatesClosed \/ RiskRefuses \/ RiskAllows \/ ChecksDone \/ RecordStart
  BY <1>1, <1>8 DEF Start, NoChild, IntakeDone, NoPosition, NothingOpen, GatesClosed,
                    RiskRefuses, RiskAllows, ChecksDone, RecordStart
<1> QED
  BY <1>2, <1>3, <1>5, <1>6, <1>7, <1>8 DEF Supervise, Check

LEMMA EnvironmentQuiet ==
  ASSUME PoolTypeOK, Environment
  PROVE  Quiet
<1> USE DEF memVars, recVars
<1>1. CASE Terminate
  <2>1. ASSUME NEW t \in Procs
        PROVE  traders'[t].st = traders[t].st /\ traders'[t].pool = traders[t].pool
    <3>1. traders'[t] = traders[t] \/ traders'[t] = [traders[t] EXCEPT !.term = TRUE]
      BY <1>1, <2>1 DEF Terminate
    <3> QED
      BY <2>1, <3>1 DEF PoolTypeOK
  <2> QED
    BY <1>1, <2>1 DEF Terminate, Quiet
<1>2. CASE Crash
  <2>1. ASSUME NEW t \in Procs
        PROVE  traders'[t] = traders[t] \/ traders'[t].st \notin Locking
    BY <1>2, <2>1 DEF Crash, Nobody, Locking
  <2> QED
    BY <1>2, <2>1 DEF Crash, Quiet
<1>3. CASE Unblock \/ Midnight \/ \E p \in Pools : Discover(p)
  BY <1>3 DEF Unblock, Midnight, Discover, Quiet
<1>4. ASSUME NEW t \in Procs, TerminateOrphan(t)
      PROVE  Quiet
  BY <1>4 DEF TerminateOrphan, Quiet, PoolTypeOK
<1>5. ASSUME NEW t \in Procs, TraderCrash(t)
      PROVE  Quiet
  BY <1>5, ExitsQuiet DEF TraderCrash, Ended
<1> QED
  BY <1>1, <1>2, <1>3, <1>4, <1>5 DEF Environment

\* A step of the holder of the lock.
LEMMA HolderGoes ==
  ASSUME PoolTypeOK, OneHolder, NEW t \in Procs, NEW from \in Locking, NEW to,
         Goes(t, from, to)
  PROVE  /\ Alone(t)
         /\ traders[t].st = from /\ traders'[t].st = to /\ traders'[t].pool = traders[t].pool
         /\ \A u \in Procs \ {t} : traders[u].st \notin Locking /\ traders'[u] = traders[u]
<1>1. traders[t].st = from /\ traders' = [traders EXCEPT ![t].st = to]
  BY DEF Goes
<1>2. traders'[t].st = to /\ traders'[t].pool = traders[t].pool
  BY <1>1 DEF PoolTypeOK
<1>3. \A u \in Procs \ {t} : traders[u].st \notin Locking /\ traders'[u] = traders[u]
  BY <1>1 DEF PoolTypeOK, OneHolder
<1> QED
  BY <1>1, <1>2, <1>3 DEF Alone

\* With one holder, only its own records matter.
LEMMA OneHoldersRecords ==
  ASSUME NEW t \in Procs, Alone(t),
         traders'[t].st = "booked" => posRec' # NoPool,
         traders'[t].st = "matching" => pendRec' = NoPool,
         traders'[t].st = "hunting" => posRec' = NoPool /\ pendRec' = NoPool,
         traders'[t].st \in {"sending", "halted"} =>
           posRec' = NoPool /\ pendRec' = traders'[t].pool,
         traders'[t].st = "bought" =>
           posRec' = traders'[t].pool /\ pendRec' = traders'[t].pool,
         traders'[t].st = "holding" => posRec' = traders'[t].pool /\ pendRec' = NoPool
  PROVE  RecordsInv'
<1>1. {"booked", "matching", "hunting", "sending", "halted", "bought", "holding"} \subseteq Locking
  BY DEF Locking, States, Ended
<1>2. OneHolder'
  BY DEF Alone, OneHolder
<1>3. BootRecords'
  BY <1>1 DEF Alone, BootRecords
<1>4. RecordsOfTrader'
  BY <1>1 DEF Alone, RecordsOfTrader
<1> QED
  BY <1>2, <1>3, <1>4 DEF RecordsInv

LEMMA TradeRecords ==
  ASSUME PoolTypeOK, RecordsInv, NEW t \in Procs, Trade(t)
  PROVE  RecordsInv'
<1>1. OneHolder /\ BootRecords /\ RecordsOfTrader
  BY DEF RecordsInv
<1>2. /\ {"booting", "booked", "matching", "hunting", "sending", "bought",
          "halted", "holding"} \subseteq Locking
      /\ Ended \cap Locking = {}
  BY DEF Locking, States, Ended
<1>3. CASE \/ LockRefused(t) \/ RefuseForeign(t) \/ BootFails(t) \/ Leave(t)
  BY <1>3, ExitsQuiet, QuietKeeps DEF LockRefused, RefuseForeign, BootFails, Leave, Ended
<1>4. CASE Lock(t)
  <2>1. Alone(t) /\ traders'[t].st = "booting"
    BY <1>4 DEF Lock, Goes, Alone, PoolTypeOK
  <2> QED
    BY <2>1, OneHoldersRecords
<1>5. CASE NothingPending(t) \/ DropPending(t)
  <2>1. Alone(t) /\ traders'[t].st = "matching" /\ pendRec' = NoPool
    BY <1>1, <1>2, <1>5, HolderGoes DEF NothingPending, DropPending, recVars
  <2> QED
    BY <2>1, OneHoldersRecords
<1>6. CASE BookPending(t)
  <2>1. Alone(t) /\ traders'[t].st = "booked" /\ posRec' # NoPool
    BY <1>1, <1>2, <1>6, HolderGoes DEF BookPending
  <2> QED
    BY <2>1, OneHoldersRecords
<1>7. CASE ClearBooked(t)
  <2>1. Alone(t) /\ traders'[t].st = "matching" /\ pendRec' = NoPool
    BY <1>1, <1>2, <1>7, HolderGoes DEF ClearBooked
  <2> QED
    BY <2>1, OneHoldersRecords
<1>8. CASE TakeOver(t)
  <2>1. /\ Alone(t) /\ traders[t].st = "matching" /\ traders'[t].st = "holding"
        /\ traders'[t].pool = traders[t].pool
    BY <1>1, <1>2, <1>8, HolderGoes DEF TakeOver
  <2>2. posRec' = traders'[t].pool /\ pendRec' = NoPool
    BY <1>1, <1>8, <2>1 DEF TakeOver, BootRecords, recVars
  <2> QED
    BY <2>1, <2>2, OneHoldersRecords
<1>9. CASE StartFlat(t)
  <2>1. Alone(t) /\ traders[t].st = "matching" /\ traders'[t].st = "hunting"
    BY <1>1, <1>2, <1>9, HolderGoes DEF StartFlat
  <2>2. posRec' = NoPool /\ pendRec' = NoPool
    BY <1>1, <1>9, <2>1 DEF StartFlat, BootRecords, recVars
  <2> QED
    BY <2>1, <2>2, OneHoldersRecords
<1>10. CASE SavePending(t)
  <2>1. /\ Alone(t) /\ traders[t].st = "hunting" /\ traders'[t].st = "sending"
        /\ traders'[t].pool = traders[t].pool
    BY <1>1, <1>2, <1>10, HolderGoes DEF SavePending
  <2>2. posRec' = NoPool /\ pendRec' = traders'[t].pool
    BY <1>1, <1>10, <2>1 DEF SavePending, RecordsOfTrader
  <2> QED
    BY <2>1, <2>2, OneHoldersRecords
<1>11. CASE SavePosition(t)
  <2>1. /\ Alone(t) /\ traders[t].st = "sending" /\ traders'[t].st = "bought"
        /\ traders'[t].pool = traders[t].pool
    BY <1>1, <1>2, <1>11, HolderGoes DEF SavePosition
  <2>2. posRec' = traders'[t].pool /\ pendRec' = traders'[t].pool
    BY <1>1, <1>11, <2>1 DEF SavePosition, RecordsOfTrader
  <2> QED
    BY <2>1, <2>2, OneHoldersRecords
<1>12. CASE ClearPending(t)
  <2>1. /\ Alone(t) /\ traders[t].st = "bought" /\ traders'[t].st = "holding"
        /\ traders'[t].pool = traders[t].pool
    BY <1>1, <1>2, <1>12, HolderGoes DEF ClearPending
  <2>2. posRec' = traders'[t].pool /\ pendRec' = NoPool
    BY <1>1, <1>12, <2>1 DEF ClearPending, RecordsOfTrader
  <2> QED
    BY <2>1, <2>2, OneHoldersRecords
<1>13. CASE ForgetPending(t)
  <2>1. Alone(t) /\ traders[t].st = "sending" /\ traders'[t].st = "hunting"
    BY <1>1, <1>2, <1>13, HolderGoes DEF ForgetPending
  <2>2. posRec' = NoPool /\ pendRec' = NoPool
    BY <1>1, <1>13, <2>1 DEF ForgetPending, RecordsOfTrader
  <2> QED
    BY <2>1, <2>2, OneHoldersRecords
<1>14. CASE HaltInDoubt(t)
  <2>1. /\ Alone(t) /\ traders[t].st = "sending" /\ traders'[t].st = "halted"
        /\ traders'[t].pool = traders[t].pool
    BY <1>1, <1>2, <1>14, HolderGoes DEF HaltInDoubt
  <2>2. posRec' = NoPool /\ pendRec' = traders'[t].pool
    BY <1>1, <1>14, <2>1 DEF HaltInDoubt, RecordsOfTrader, recVars
  <2> QED
    BY <2>1, <2>2, OneHoldersRecords
<1>15. CASE Sell(t)
  <2>1. \A u \in Procs \ {t} : traders'[u] = traders[u] /\ traders[u].st \notin Locking
    BY <1>1, <1>2, <1>15 DEF Sell, Exits, PoolTypeOK, OneHolder
  <2>2. traders'[t].st \in {"ok", "none"}
    BY <1>15 DEF Sell, Exits, PoolTypeOK, Nobody
  <2> QED
    BY <2>1, <2>2, OneHoldersRecords DEF Alone
<1> QED
  BY <1>3, <1>4, <1>5, <1>6, <1>7, <1>8, <1>9, <1>10, <1>11, <1>12, <1>13, <1>14, <1>15
     DEF Trade

LEMMA NextRecords == PoolTypeOK /\ RecordsInv /\ [Next]_vars => RecordsInv'
<1> SUFFICES ASSUME PoolTypeOK, RecordsInv, [Next]_vars
             PROVE  RecordsInv'
  OBVIOUS
<1>1. CASE UNCHANGED vars
  BY <1>1, QuietKeeps DEF vars, Quiet
<1> QED
  BY <1>1, SuperviseQuiet, EnvironmentQuiet, QuietKeeps, TradeRecords DEF Next

LEMMA InitRecords == Init => RecordsInv
BY DEF Init, RecordsInv, OneHolder, BootRecords, RecordsOfTrader, Nobody, Locking

\* The records in the data directory are those of the one process at work,
\* whatever the supervisor, its older children and the processes' deaths do.
THEOREM Records == Spec => []RecordsOfTrader
<1>1. Init => PoolTypeOK /\ RecordsInv
  BY InitType, InitRecords
<1>2. PoolTypeOK /\ RecordsInv /\ [Next]_vars => (PoolTypeOK /\ RecordsInv)'
  BY NextType, NextRecords
<1>3. RecordsInv => RecordsOfTrader
  BY DEF RecordsInv
<1> QED
  BY <1>1, <1>2, <1>3, PTL DEF Spec

\* Who sends an entry does so from flat, and alone.
LEMMA TradeEntersFlat ==
  ASSUME PoolTypeOK, RecordsInv, NEW t \in Procs, Trade(t),
         NEW u \in Procs, traders[u].st # "sending", traders'[u].st = "sending"
  PROVE  /\ posRec = NoPool /\ pendRec = NoPool
         /\ \A v \in Procs \ {u} : traders[v].st \notin Locking
<1>1. OneHolder /\ RecordsOfTrader
  BY DEF RecordsInv
<1>2. "sending" \in Locking /\ "hunting" \in Locking
  BY DEF Locking, States, Ended
<1>3. CASE Quiet
  BY <1>2, <1>3 DEF Quiet
<1>4. CASE LockRefused(t) \/ RefuseForeign(t) \/ BootFails(t) \/ Leave(t)
  BY <1>3, <1>4, ExitsQuiet DEF LockRefused, RefuseForeign, BootFails, Leave, Ended
<1>5. CASE Sell(t)
  <2>1. \A v \in Procs \ {t} : traders'[v] = traders[v]
    BY <1>5 DEF Sell, Exits, PoolTypeOK
  <2>2. traders'[t].st \in {"ok", "none"}
    BY <1>5 DEF Sell, Exits, PoolTypeOK, Nobody
  <2> QED
    BY <2>1, <2>2
<1>6. CASE SavePending(t)
  <2>1. traders[t].st = "hunting" /\ traders' = [traders EXCEPT ![t].st = "sending"]
    BY <1>6 DEF SavePending, Goes
  <2>2. u = t
    BY <2>1 DEF PoolTypeOK
  <2> QED
    BY <1>1, <1>2, <2>1, <2>2 DEF OneHolder, RecordsOfTrader
<1>7. CASE \E from, to \in States \ {"sending"} : Goes(t, from, to)
  BY <1>7 DEF Goes, PoolTypeOK
<1>8. CASE \E to \in States \ {"sending"} : Goes(t, "sending", to)
  BY <1>8 DEF Goes, PoolTypeOK
<1>9. CASE \/ Lock(t) \/ NothingPending(t) \/ DropPending(t) \/ BookPending(t)
           \/ ClearBooked(t) \/ TakeOver(t) \/ StartFlat(t) \/ ClearPending(t)
  BY <1>7, <1>9 DEF Lock, NothingPending, DropPending, BookPending, ClearBooked,
                    TakeOver, StartFlat, ClearPending, States
<1>10. CASE SavePosition(t) \/ ForgetPending(t) \/ HaltInDoubt(t)
  BY <1>8, <1>10 DEF SavePosition, ForgetPending, HaltInDoubt, States
<1> QED
  BY <1>4, <1>5, <1>6, <1>9, <1>10 DEF Trade

\* No entry is sent on top of a position or of another entry, by any process.
THEOREM FlatEntries == Spec => EntersOnlyFlat
<1> DEFINE Flat ==
      \A t \in Procs : traders[t].st # "sending" /\ traders'[t].st = "sending" =>
        /\ posRec = NoPool /\ pendRec = NoPool
        /\ \A u \in Procs \ {t} : traders[u].st \notin Locking
<1>1. Init => PoolTypeOK /\ RecordsInv
  BY InitType, InitRecords
<1>2. PoolTypeOK /\ RecordsInv /\ [Next]_vars => (PoolTypeOK /\ RecordsInv)'
  BY NextType, NextRecords
<1>3. PoolTypeOK /\ RecordsInv /\ [Next]_vars => [Flat]_vars
  <2> SUFFICES ASSUME PoolTypeOK, RecordsInv, Next
               PROVE  Flat
    OBVIOUS
  <2>1. Quiet => Flat
    BY DEF Quiet, Locking, States, Ended
  <2>2. ASSUME NEW t \in Procs, Trade(t)
        PROVE  Flat
    BY <2>2, TradeEntersFlat
  <2> QED
    BY <2>1, <2>2, SuperviseQuiet, EnvironmentQuiet DEF Next
<1> QED
  BY <1>1, <1>2, <1>3, PTL DEF Spec, EntersOnlyFlat

-----------------------------------------------------------------------------
(* The starts of a day *)

\* A start the supervisor would forget if it died now.
Unsaved == pc = "save" \/ persistFailed

\* A dead supervisor knows nothing; a running one knows the file, until a write
\* fails, and starts nothing after that.
KnowsFile ==
  /\ pc = "down" => watch = << >> /\ ~persistFailed
  /\ pc # "down" /\ ~persistFailed => discState = discFile
  /\ pc \in {"check", "save"} => ~persistFailed

\* The file counts all starts of the day but the forgotten ones and, possibly,
\* the one not saved yet, which still fits under the cap.
FileCounts ==
  /\ discFile.day <= today
  /\ StartsCounted(discFile) <= MaxPoolsPerDay
  /\ pc = "check" \/ Unsaved => StartsCounted(discFile) < MaxPoolsPerDay
  /\ startsToday <= StartsCounted(discFile) + forgotten + (IF Unsaved THEN 1 ELSE 0)

StartsInv == KnowsFile /\ FileCounts

\* A pool is on the list once, and what is on it was seen.
WatchedOnce ==
  /\ \A i, j \in 1..Len(watch) : watch[i] = watch[j] => i = j
  /\ Watching \subseteq seen

\* A pool that may still be started was started only by forgotten starts: it is
\* on the list, or not seen; and it is not in the file, unless it is the one
\* not saved yet.
Startable ==
  /\ \A p \in Pools : pc # "down" /\ (p \in Watching \/ p \notin seen) => handed[p] <= forgotten
  /\ \A p \in Pools : p \notin discFile.traded =>
       \/ handed[p] <= forgotten
       \/ persistFailed
       \/ pc = "save" /\ p = traders[child].pool

HandedInv == HandedOnce /\ WatchedOnce /\ Startable

LEMMA StartsNext == PoolTypeOK /\ StartsInv /\ [Next]_vars => StartsInv'
<1> SUFFICES ASSUME PoolTypeOK, StartsInv, [Next]_vars
             PROVE  StartsInv'
  OBVIOUS
<1> USE DEF memVars, recVars, histVars, KnowsFile, FileCounts, StartsInv, Unsaved, StartsCounted
<1>1. /\ discFile.day \in Nat /\ discFile.count \in Nat /\ today \in Nat
      /\ startsToday \in Nat /\ forgotten \in Nat
      /\ MaxPoolsPerDay \in Nat \ {0}
  BY SupervisorAssumption DEF PoolTypeOK
\* Nothing that is counted changes, and the supervisor moves on.
<1>2. ASSUME UNCHANGED <<persistFailed, discState, discFile, today, startsToday, forgotten>>,
             pc' # "down", pc' \in {"check", "save"} => pc' = pc, pc = "save" => pc' = "save",
             pc # "down"
      PROVE  StartsInv'
  BY <1>1, <1>2
<1>3. CASE UNCHANGED <<pc, persistFailed, discState, watch, discFile, today, startsToday, forgotten>>
  BY <1>1, <1>3
<1>4. CASE Supervise
  <2>1. CASE Start
    BY <1>1, <2>1 DEF Start
  <2>2. CASE \/ ChildExited \/ ChildRuns \/ NoChild \/ IntakeDone \/ NoPosition
             \/ NothingOpen \/ GatesClosed \/ RiskRefuses \/ ChecksDone
    BY <1>2, <2>2 DEF ChildExited, ChildRuns, NoChild, IntakeDone, NoPosition,
                      NothingOpen, GatesClosed, RiskRefuses, ChecksDone
  <2>3. CASE ResumePosition \/ ResumePending
    BY <1>2, <2>3 DEF ResumePosition, ResumePending, ResumePool
  <2>4. CASE RiskAllows
    BY <1>1, <2>4 DEF RiskAllows, MayStart
  <2>5. CASE RecordStart
    <3>1. /\ pc = "save" /\ pc' = "reap" /\ ~persistFailed /\ discState = discFile
          /\ UNCHANGED <<today, startsToday, forgotten>>
      BY <2>5 DEF RecordStart
    <3>2. CASE discFile' = discState' /\ UNCHANGED persistFailed
      <4>1. /\ discFile'.day = today
            /\ discFile'.count = StartsCounted(discFile) + 1
        BY <2>5, <3>1, <3>2 DEF RecordStart, WithStart
      <4> QED
        BY <1>1, <3>1, <3>2, <4>1
    <3>3. CASE persistFailed' = TRUE /\ UNCHANGED discFile
      BY <1>1, <3>1, <3>3
    <3> QED
      BY <2>5, <3>2, <3>3 DEF RecordStart
  <2>6. ASSUME NEW i \in 1..Len(watch), Expire(i) \/ CheckCandidate(i) \/ StartFails(i)
        PROVE  StartsInv'
    BY <1>2, <2>6 DEF Expire, CheckCandidate, StartFails
  <2>7. ASSUME NEW i \in 1..Len(watch), StartPool(i)
        PROVE  StartsInv'
    BY <1>1, <2>7 DEF StartPool
  <2> QED
    BY <1>4, <2>1, <2>2, <2>3, <2>4, <2>5, <2>6, <2>7 DEF Supervise, Check
<1>5. ASSUME NEW t \in Procs, Trade(t)
      PROVE  StartsInv'
  BY <1>3, <1>5, TradeKeeps
<1>6. CASE Environment
  <2>1. CASE Terminate \/ Unblock \/ \E t \in Procs : TerminateOrphan(t) \/ TraderCrash(t)
    BY <1>3, <2>1 DEF Terminate, Unblock, TerminateOrphan, TraderCrash
  <2>2. CASE \E p \in Pools : Discover(p)
    BY <1>2, <2>2 DEF Discover
  <2>3. CASE Crash
    BY <1>1, <2>3 DEF Crash
  <2>4. CASE Midnight
    BY <1>1, <2>4 DEF Midnight
  <2> QED
    BY <1>6, <2>1, <2>2, <2>3, <2>4 DEF Environment
<1>7. CASE UNCHANGED vars
  BY <1>3, <1>7 DEF vars
<1> QED
  BY <1>4, <1>5, <1>6, <1>7 DEF Next

LEMMA InitStarts == Init => StartsInv
BY SupervisorAssumption
   DEF Init, StartsInv, KnowsFile, FileCounts, Unsaved, StartsCounted, NoState

\* --max-pools-per-day, over all runs of the supervisor on a day, but for the
\* starts whose record was lost.
THEOREM StartsCap == Spec => []StartsWithinCap
<1>1. Init => PoolTypeOK /\ StartsInv
  BY InitType, InitStarts
<1>2. PoolTypeOK /\ StartsInv /\ [Next]_vars => (PoolTypeOK /\ StartsInv)'
  BY NextType, StartsNext
<1>3. PoolTypeOK /\ StartsInv => StartsWithinCap
  <2> SUFFICES ASSUME PoolTypeOK, StartsInv
               PROVE  StartsWithinCap
    OBVIOUS
  <2>1. /\ StartsCounted(discFile) \in Nat /\ forgotten \in Nat
        /\ startsToday \in Nat /\ MaxPoolsPerDay \in Nat
    BY SupervisorAssumption DEF PoolTypeOK, StartsCounted
  <2> QED
    BY <2>1 DEF StartsInv, FileCounts, StartsWithinCap
<1> QED
  BY <1>1, <1>2, <1>3, PTL DEF Spec

-----------------------------------------------------------------------------
(* The pools handed out *)

Distinct(s) == \A i, j \in 1..Len(s) : s[i] = s[j] => i = j
Within(s, P) == \A i \in 1..Len(s) : s[i] \in P

LEMMA WithoutDistinct ==
  ASSUME watch \in Seq(Pools), Distinct(watch), NEW i \in 1..Len(watch)
  PROVE  /\ Distinct(Without(i)) /\ Within(Without(i), Watching \ {watch[i]})
         /\ Distinct(Append(Without(i), watch[i])) /\ Within(Append(Without(i), watch[i]), Watching)
<1> DEFINE front == SubSeq(watch, 1, i - 1)
           back  == SubSeq(watch, i + 1, Len(watch))
           w     == Without(i)
<1>1. Len(watch) \in Nat /\ i \in 1..Len(watch) /\ \A j \in 1..Len(watch) : watch[j] \in Pools
  BY LenProperties, ElementOfSeq
<1>2. /\ front \in Seq(Pools) /\ Len(front) = i - 1
      /\ \A j \in 1..i - 1 : front[j] = watch[j]
  <2>1. 1 \in Int /\ i - 1 \in Int /\ \A j \in 1..i - 1 : watch[j] \in Pools
    BY <1>1
  <2>2. /\ front \in Seq(Pools)
        /\ Len(front) = IF 1 <= i - 1 THEN i - 1 - 1 + 1 ELSE 0
        /\ \A j \in 1..i - 1 - 1 + 1 : front[j] = watch[1 + j - 1]
    BY <2>1, SubSeqProperties
  <2> HIDE DEF front
  <2> QED
    BY <2>2, <1>1
<1>3. /\ back \in Seq(Pools) /\ Len(back) = Len(watch) - i
      /\ \A j \in 1..Len(watch) - i : back[j] = watch[j + i]
  <2>1. i + 1 \in Int /\ Len(watch) \in Int /\ \A j \in i + 1..Len(watch) : watch[j] \in Pools
    BY <1>1
  <2>2. /\ back \in Seq(Pools)
        /\ Len(back) = IF i + 1 <= Len(watch) THEN Len(watch) - (i + 1) + 1 ELSE 0
        /\ \A j \in 1..Len(watch) - (i + 1) + 1 : back[j] = watch[i + 1 + j - 1]
    BY <2>1, SubSeqProperties
  <2> HIDE DEF back
  <2> QED
    BY <2>2, <1>1
<1>4. w = front \o back
  BY DEF Without
<1> HIDE DEF front, back, w
<1>5. /\ w \in Seq(Pools) /\ Len(w) = Len(watch) - 1
      /\ \A j \in 1..Len(w) : w[j] = IF j < i THEN watch[j] ELSE watch[j + 1]
  <2>1. /\ front \o back \in Seq(Pools)
        /\ Len(front \o back) = Len(front) + Len(back)
        /\ \A j \in 1..Len(front) + Len(back) :
             (front \o back)[j] = IF j <= Len(front) THEN front[j] ELSE back[j - Len(front)]
    BY <1>2, <1>3, ConcatProperties
  <2>2. w \in Seq(Pools) /\ Len(w) = Len(watch) - 1
    BY <1>1, <1>2, <1>3, <1>4, <2>1
  <2>3. ASSUME NEW j \in 1..Len(w)
        PROVE  w[j] = IF j < i THEN watch[j] ELSE watch[j + 1]
    <3>1. w[j] = IF j <= i - 1 THEN front[j] ELSE back[j - (i - 1)]
      BY <1>1, <1>2, <1>3, <1>4, <2>1, <2>2
    <3>2. CASE j < i
      BY <1>1, <1>2, <2>2, <3>1, <3>2
    <3>3. CASE ~(j < i)
      <4>1. j - (i - 1) \in 1..Len(watch) - i /\ (j - (i - 1)) + i = j + 1
        BY <1>1, <2>2, <3>3
      <4> QED
        BY <1>1, <1>3, <3>1, <3>3, <4>1
    <3> QED
      BY <3>2, <3>3
  <2> QED
    BY <2>2, <2>3
<1>6. Distinct(w) /\ Within(w, Watching \ {watch[i]})
  <2> DEFINE at(j) == IF j < i THEN j ELSE j + 1
  <2>1. ASSUME NEW j \in 1..Len(w)
        PROVE  at(j) \in 1..Len(watch) /\ at(j) # i /\ w[j] = watch[at(j)]
    <3>1. at(j) \in 1..Len(watch) /\ at(j) # i
      BY <1>1, <1>5
    <3>2. w[j] = watch[at(j)]
      BY <1>5
    <3> QED
      BY <3>1, <3>2
  <2>2. ASSUME NEW j \in 1..Len(w), NEW k \in 1..Len(w), w[j] = w[k]
        PROVE  j = k
    <3>1. at(j) = at(k)
      BY <2>1, <2>2 DEF Distinct
    <3> QED
      BY <1>1, <1>5, <3>1
  <2>3. ASSUME NEW j \in 1..Len(w)
        PROVE  w[j] \in Watching \ {watch[i]}
    <3>1. watch[at(j)] \in Watching
      BY <2>1 DEF Watching
    <3>2. watch[at(j)] # watch[i]
      BY <2>1 DEF Distinct
    <3> QED
      BY <2>1, <3>1, <3>2
  <2> QED
    BY <2>2, <2>3 DEF Distinct, Within
<1>7. /\ Len(Append(w, watch[i])) = Len(w) + 1
      /\ \A j \in 1..Len(w) : Append(w, watch[i])[j] = w[j]
      /\ Append(w, watch[i])[Len(w) + 1] = watch[i]
  BY <1>1, <1>5, AppendProperties
<1>8. Distinct(Append(w, watch[i])) /\ Within(Append(w, watch[i]), Watching)
  <2> DEFINE a == Append(w, watch[i])
  <2>1. Len(w) \in Nat /\ watch[i] \in Watching /\ Len(a) = Len(w) + 1
    BY <1>1, <1>5, <1>7 DEF Watching
  <2>2. \A j \in 1..Len(w) : a[j] = w[j] /\ a[j] # watch[i] /\ a[j] \in Watching
    BY <1>6, <1>7 DEF Within
  <2>3. a[Len(w) + 1] = watch[i]
    BY <1>7
  <2> HIDE DEF a
  <2>4. Distinct(a) /\ Within(a, Watching)
    BY <1>6, <2>1, <2>2, <2>3 DEF Distinct, Within
  <2> QED
    BY <2>4 DEF a
<1> QED
  BY <1>6, <1>8 DEF w

LEMMA WatchedDistinct ==
  ASSUME watch \in Seq(Pools), Distinct(watch), NEW p \in Pools, p \notin Watching
  PROVE  Distinct(Watched(p)) /\ Within(Watched(p), Watching \cup {p})
<1>1. Len(watch) \in Nat /\ MaxWatch \in Nat \ {0}
  BY LenProperties, SupervisorAssumption
<1>2. ASSUME NEW s \in Seq(Pools), Distinct(s), Within(s, Watching)
      PROVE  Distinct(Append(s, p)) /\ Within(Append(s, p), Watching \cup {p})
  <2>1. /\ Len(Append(s, p)) = Len(s) + 1
        /\ \A j \in 1..Len(s) : Append(s, p)[j] = s[j]
        /\ Append(s, p)[Len(s) + 1] = p
    BY <1>2, AppendProperties
  <2>2. Len(s) \in Nat
    BY <1>2, LenProperties
  <2> DEFINE a == Append(s, p)
  <2>3. \A j \in 1..Len(s) : a[j] = s[j] /\ a[j] # p /\ a[j] \in Watching
    BY <1>2, <2>1 DEF Within
  <2>4. Len(a) = Len(s) + 1 /\ a[Len(s) + 1] = p
    BY <2>1
  <2> HIDE DEF a
  <2>5. Distinct(a) /\ Within(a, Watching \cup {p})
    BY <1>2, <2>2, <2>3, <2>4 DEF Distinct, Within
  <2> QED
    BY <2>5 DEF a
<1>3. Within(watch, Watching)
  BY DEF Within, Watching
<1>4. CASE Len(watch) >= MaxWatch
  <2>1. watch # << >>
    BY <1>1, <1>4, EmptySeq
  <2> DEFINE r == Tail(watch)
  <2>2. /\ r \in Seq(Pools) /\ Len(r) = Len(watch) - 1
        /\ \A j \in 1..Len(r) : r[j] = watch[j + 1]
    BY <2>1, HeadTailProperties
  <2>3. Watched(p) = Append(r, p)
    BY <1>4 DEF Watched
  <2> HIDE DEF r
  <2>4. Distinct(r)
    <3>1. ASSUME NEW j \in 1..Len(r), NEW k \in 1..Len(r), r[j] = r[k]
          PROVE  j = k
      <4>1. j + 1 \in 1..Len(watch) /\ k + 1 \in 1..Len(watch)
        BY <1>1, <1>3, <2>2
      <4>2. watch[j + 1] = watch[k + 1]
        BY <2>2, <3>1
      <4>3. j + 1 = k + 1
        BY <4>1, <4>2 DEF Distinct
      <4> QED
        BY <1>1, <2>2, <4>3
    <3> QED
      BY <3>1 DEF Distinct
  <2>5. Within(r, Watching)
    <3>1. ASSUME NEW j \in 1..Len(r)
          PROVE  r[j] \in Watching
      <4>1. j + 1 \in 1..Len(watch)
        BY <1>1, <1>3, <2>2
      <4> QED
        BY <2>2, <4>1 DEF Watching
    <3> QED
      BY <3>1 DEF Within
  <2> QED
    BY <1>2, <2>2, <2>3, <2>4, <2>5
<1>5. CASE ~(Len(watch) >= MaxWatch)
  <2>1. Watched(p) = Append(watch, p)
    BY <1>5 DEF Watched
  <2> QED
    BY <1>2, <1>3, <2>1
<1> QED
  BY <1>4, <1>5

LEMMA UnwatchedDistinct ==
  ASSUME watch \in Seq(Pools), Distinct(watch), NEW p
  PROVE  Distinct(Unwatched(p)) /\ Within(Unwatched(p), Watching)
<1>1. CASE p \in Watching
  <2> DEFINE i == CHOOSE j \in 1..Len(watch) : watch[j] = p
  <2>1. i \in 1..Len(watch)
    BY <1>1 DEF Watching
  <2>2. Unwatched(p) = Without(i)
    BY <1>1 DEF Unwatched
  <2> HIDE DEF i
  <2> QED
    BY <2>1, <2>2, WithoutDistinct DEF Within
<1>2. CASE p \notin Watching
  BY <1>2 DEF Unwatched, Within, Watching
<1> QED
  BY <1>1, <1>2

\* The pool a process was started for stays while its parent waits for it.
LEMMA ChildKeepsPool ==
  ASSUME PoolTypeOK, child # NoProc, pc = "save",
         Terminate \/ \E t \in Procs : Trade(t) \/ TerminateOrphan(t) \/ TraderCrash(t)
  PROVE  traders'[child].pool = traders[child].pool
<1>1. child \in Procs
  BY DEF PoolTypeOK
<1>2. CASE Terminate
  <2>1. CASE traders' = traders
    BY <2>1
  <2>2. CASE traders' = [t \in Procs |-> IF Alive(t) THEN [traders[t] EXCEPT !.term = TRUE]
                                                     ELSE traders[t]]
    <3>1. traders[child] \in [st : States, pool : Pools \cup {NoPool}, term : BOOLEAN]
      BY <1>1 DEF PoolTypeOK
    <3>2. traders'[child] \in {traders[child], [traders[child] EXCEPT !.term = TRUE]}
      BY <1>1, <2>2
    <3> QED
      BY <3>1, <3>2
  <2> QED
    BY <1>2, <2>1, <2>2 DEF Terminate
<1>3. ASSUME NEW t \in Procs, NEW from, NEW to, Goes(t, from, to)
      PROVE  traders'[child].pool = traders[child].pool
  BY <1>1, <1>3 DEF Goes, PoolTypeOK
<1>4. ASSUME NEW t \in Procs, NEW how, Exits(t, how)
      PROVE  traders'[child].pool = traders[child].pool
  <2>1. CASE t = child
    BY <1>1, <1>4, <2>1 DEF Exits, PoolTypeOK
  <2>2. CASE t # child
    BY <1>1, <1>4, <2>2 DEF Exits, PoolTypeOK
  <2> QED
    BY <2>1, <2>2
<1>5. ASSUME NEW t \in Procs, Trade(t)
      PROVE  traders'[child].pool = traders[child].pool
  BY <1>3, <1>4, <1>5
     DEF Trade, Lock, LockRefused, NothingPending, DropPending, BookPending, ClearBooked,
         TakeOver, RefuseForeign, StartFlat, BootFails, SavePending, SavePosition,
         ClearPending, ForgetPending, HaltInDoubt, Sell, Leave
<1>6. ASSUME NEW t \in Procs, TerminateOrphan(t)
      PROVE  traders'[child].pool = traders[child].pool
  BY <1>1, <1>6 DEF TerminateOrphan, PoolTypeOK
<1>7. ASSUME NEW t \in Procs, TraderCrash(t)
      PROVE  traders'[child].pool = traders[child].pool
  BY <1>4, <1>7 DEF TraderCrash
<1> QED
  BY <1>2, <1>5, <1>6, <1>7

\* The supervisor's lists, the file and the history stay as they are.
LEMMA HandedStays ==
  ASSUME HandedInv,
         UNCHANGED <<watch, seen, discFile, handed, forgotten, persistFailed>>,
         pc' # "down" => pc # "down",
         pc = "save" => pc' = "save" /\ traders'[child'].pool = traders[child].pool
  PROVE  HandedInv'
<1>1. HandedOnce' /\ WatchedOnce' /\ UNCHANGED Watching
  BY DEF HandedInv, HandedOnce, WatchedOnce, Watching
<1>2. Startable'
  BY <1>1 DEF HandedInv, Startable
<1> QED
  BY <1>1, <1>2 DEF HandedInv

\* The list changes: what is new on it was not seen before.
LEMMA HandedRelisted ==
  ASSUME HandedInv, pc \notin {"down", "save"},
         UNCHANGED <<discFile, handed, forgotten, persistFailed>>,
         Distinct(watch'), NEW P, Within(watch', Watching \cup P), P \cap seen = {},
         seen \subseteq seen', Watching \cup P \subseteq seen'
  PROVE  HandedInv'
<1>1. Watching' \subseteq Watching \cup P
  BY DEF Within, Watching
<1>2. HandedOnce' /\ WatchedOnce'
  BY <1>1 DEF HandedInv, HandedOnce, WatchedOnce, Distinct
<1>3. Startable'
  BY <1>1 DEF HandedInv, Startable
<1> QED
  BY <1>2, <1>3 DEF HandedInv

LEMMA SuperviseHanded ==
  ASSUME PoolTypeOK, StartsInv, HandedInv, Supervise
  PROVE  HandedInv'
<1> USE DEF memVars, recVars, histVars
<1>1. watch \in Seq(Pools) /\ Distinct(watch) /\ Watching \subseteq seen
  BY DEF PoolTypeOK, HandedInv, WatchedOnce, Distinct
<1>2. /\ forgotten \in Nat /\ \A p \in Pools : handed[p] \in Nat
      /\ Watching \cup {} = Watching /\ {} \cap seen = {}
  BY DEF PoolTypeOK
<1>3. CASE Start
  <2>1. watch' = << >> /\ ~persistFailed' /\ pc = "down"
    BY <1>3 DEF Start, StartsInv, KnowsFile
  <2>2. Len(watch') = 0
    BY <2>1, EmptySeq
  <2>3. Watching' = {}
    BY <2>2 DEF Watching
  <2>4. HandedOnce' /\ WatchedOnce'
    BY <1>3, <2>2, <2>3 DEF Start, HandedInv, HandedOnce, WatchedOnce
  <2>5. Startable'
    BY <1>3, <2>1, <2>3 DEF Start, HandedInv, Startable
  <2> QED
    BY <2>4, <2>5 DEF HandedInv
<1>4. CASE \/ ChildExited \/ ChildRuns \/ NoChild \/ IntakeDone \/ NoPosition \/ NothingOpen
           \/ GatesClosed \/ RiskRefuses \/ RiskAllows \/ ChecksDone
  BY <1>4, HandedStays DEF ChildExited, ChildRuns, NoChild, IntakeDone, NoPosition, NothingOpen,
                           GatesClosed, RiskRefuses, RiskAllows, ChecksDone
<1>5. CASE ResumePosition \/ ResumePending
  <2>1. PICK p \in Pools : ResumePool(p) /\ pc \notin {"down", "save"}
    BY <1>5 DEF ResumePosition, ResumePending, PoolTypeOK
  <2>2. Distinct(watch') /\ Within(watch', Watching \cup {})
    BY <1>1, <1>2, <2>1, UnwatchedDistinct DEF ResumePool
  <2> QED
    BY <1>1, <1>2, <2>1, <2>2, HandedRelisted DEF ResumePool
<1>6. ASSUME NEW i \in 1..Len(watch), Expire(i) \/ CheckCandidate(i) \/ StartFails(i)
      PROVE  HandedInv'
  <2>1. Distinct(watch') /\ Within(watch', Watching \cup {})
    BY <1>1, <1>2, <1>6, WithoutDistinct DEF Expire, CheckCandidate, StartFails, Within
  <2> QED
    BY <1>1, <1>2, <1>6, <2>1, HandedRelisted DEF Expire, CheckCandidate, StartFails
<1>7. ASSUME NEW i \in 1..Len(watch), StartPool(i)
      PROVE  HandedInv'
  <2> DEFINE p == watch[i]
  <2>1. p \in Pools /\ p \in Watching /\ p \in seen
    BY <1>1, ElementOfSeq DEF Watching
  <2>2. Distinct(watch') /\ Within(watch', Watching \ {p})
    BY <1>1, <1>7, WithoutDistinct DEF StartPool
  <2>3. Watching' \subseteq Watching \ {p}
    BY <2>2 DEF Within, Watching
  <2>4. handed[p] <= forgotten
    BY <1>7, <2>1 DEF StartPool, HandedInv, Startable
  <2>5. /\ handed'[p] = handed[p] + 1
        /\ \A q \in Pools : q # p => handed'[q] = handed[q]
    BY <1>7, <2>1 DEF StartPool, PoolTypeOK
  <2>6. /\ pc = "check" /\ pc' = "save" /\ ~persistFailed
        /\ UNCHANGED <<seen, discFile, forgotten, persistFailed>>
    BY <1>7 DEF StartPool, StartsInv, KnowsFile
  <2>7. traders'[child'].pool = p
    BY <1>7, <2>1 DEF StartPool, Free, Run, PoolTypeOK
  <2> HIDE DEF p
  <2>8. HandedOnce'
    BY <1>2, <2>4, <2>5, <2>6 DEF HandedInv, HandedOnce
  <2>9. WatchedOnce'
    BY <1>1, <2>2, <2>3, <2>6 DEF WatchedOnce, Distinct
  <2>10. Startable'
    BY <2>1, <2>3, <2>5, <2>6, <2>7 DEF HandedInv, Startable
  <2> QED
    BY <2>8, <2>9, <2>10 DEF HandedInv
<1>8. CASE RecordStart
  <2>1. /\ pc = "save" /\ pc' = "reap" /\ discState = discFile
        /\ UNCHANGED <<watch, seen, handed, forgotten>>
    BY <1>8 DEF RecordStart, StartsInv, KnowsFile
  <2>2. UNCHANGED Watching
    BY <2>1 DEF Watching
  <2>3. HandedOnce' /\ WatchedOnce'
    BY <2>1, <2>2 DEF HandedInv, HandedOnce, WatchedOnce
  <2>4. CASE discFile' = discState' /\ UNCHANGED persistFailed
    <3>1. discFile'.traded = discFile.traded \cup {traders[child].pool}
      BY <1>8, <2>1, <2>4 DEF RecordStart, WithStart
    <3>2. Startable'
      BY <2>1, <2>2, <2>4, <3>1 DEF HandedInv, Startable
    <3> QED
      BY <2>3, <3>2 DEF HandedInv
  <2>5. CASE persistFailed' = TRUE /\ UNCHANGED discFile
    <3>1. Startable'
      BY <2>1, <2>2, <2>5 DEF HandedInv, Startable
    <3> QED
      BY <2>3, <3>1 DEF HandedInv
  <2> QED
    BY <1>8, <2>4, <2>5 DEF RecordStart
<1> QED
  BY <1>3, <1>4, <1>5, <1>6, <1>7, <1>8 DEF Supervise, Check

LEMMA HandedNext == PoolTypeOK /\ StartsInv /\ HandedInv /\ [Next]_vars => HandedInv'
<1> SUFFICES ASSUME PoolTypeOK, StartsInv, HandedInv, [Next]_vars
             PROVE  HandedInv'
  OBVIOUS
<1> USE DEF memVars, recVars, histVars
<1>1. pc = "save" => child # NoProc
  BY DEF PoolTypeOK
<1>2. ASSUME NEW t \in Procs, Trade(t)
      PROVE  HandedInv'
  BY <1>1, <1>2, TradeKeeps, ChildKeepsPool, HandedStays
<1>3. CASE Terminate
  BY <1>1, <1>3, ChildKeepsPool, HandedStays DEF Terminate
<1>4. CASE Unblock \/ Midnight
  BY <1>4, HandedStays DEF Unblock, Midnight
<1>5. ASSUME NEW t \in Procs, TerminateOrphan(t) \/ TraderCrash(t)
      PROVE  HandedInv'
  <2>1. UNCHANGED <<pc, child, watch, seen, discFile, handed, forgotten, persistFailed>>
    BY <1>5 DEF TerminateOrphan, TraderCrash
  <2> QED
    BY <1>1, <1>5, <2>1, ChildKeepsPool, HandedStays
<1>6. ASSUME NEW p \in Pools, Discover(p)
      PROVE  HandedInv'
  <2>1. watch \in Seq(Pools) /\ Distinct(watch) /\ Watching \subseteq seen /\ p \notin seen
    BY <1>6 DEF Discover, PoolTypeOK, HandedInv, WatchedOnce, Distinct
  <2>2. Distinct(watch') /\ Within(watch', Watching \cup {p})
    BY <1>6, <2>1, WatchedDistinct DEF Discover
  <2> QED
    BY <1>6, <2>1, <2>2, HandedRelisted DEF Discover
<1>7. CASE Crash
  <2>1. watch' = << >> /\ ~persistFailed' /\ pc' = "down" /\ UNCHANGED <<discFile, handed>>
    BY <1>7 DEF Crash
  <2>2. Len(watch') = 0
    BY <2>1, EmptySeq
  <2>3. Watching' = {}
    BY <2>2 DEF Watching
  <2>4. /\ forgotten \in Nat /\ forgotten' \in Nat /\ forgotten <= forgotten'
        /\ pc = "save" \/ persistFailed => forgotten' = forgotten + 1
        /\ \A p \in Pools : handed[p] \in Nat
    BY <1>7 DEF Crash, PoolTypeOK
  <2>5. HandedOnce' /\ WatchedOnce'
    BY <2>1, <2>2, <2>3, <2>4 DEF HandedInv, HandedOnce, WatchedOnce
  <2>6. Startable'
    BY <2>1, <2>3, <2>4 DEF HandedInv, HandedOnce, Startable
  <2> QED
    BY <2>5, <2>6 DEF HandedInv
<1>8. CASE UNCHANGED vars
  BY <1>8, HandedStays DEF vars
<1> QED
  BY <1>2, <1>3, <1>4, <1>5, <1>6, <1>7, <1>8, SuperviseHanded DEF Next, Environment

LEMMA InitHanded == Init => HandedInv
<1> SUFFICES ASSUME Init
             PROVE  HandedInv
  OBVIOUS
<1>1. Len(watch) = 0
  BY EmptySeq DEF Init
<1>2. Watching = {}
  BY <1>1 DEF Watching
<1> QED
  BY <1>1, <1>2 DEF Init, HandedInv, HandedOnce, WatchedOnce, Startable

\* A pool is given to one process, over all runs of the supervisor, but for the
\* starts whose record was lost.
THEOREM Handed == Spec => []HandedOnce
<1>1. Init => PoolTypeOK /\ StartsInv /\ HandedInv
  BY InitType, InitStarts, InitHanded
<1>2. PoolTypeOK /\ StartsInv /\ HandedInv /\ [Next]_vars => (PoolTypeOK /\ StartsInv /\ HandedInv)'
  BY NextType, StartsNext, HandedNext
<1>3. HandedInv => HandedOnce
  BY DEF HandedInv
<1> QED
  BY <1>1, <1>2, <1>3, PTL DEF Spec

===============================================================================
