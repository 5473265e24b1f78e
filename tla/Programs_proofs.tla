---------------------------- MODULE Programs_proofs ----------------------------
(***************************************************************************)
(* What the three programs that run on the system owe to who reads their   *)
(* output, for every value of their constants.                             *)
(*                                                                         *)
(* The SMP test comes first: lines are whole, nobody leaves the barrier    *)
(* early, nothing that is destroyed is in use, and success is reported of  *)
(* a complete test.  The argument has three parts.  Lock: nsem is free     *)
(* exactly while nobody prints, and only who has a line to write prints.   *)
(* Barrier: the threads that wait are at the barrier, so that N - 1 of     *)
(* them and one more are all there are.  Main: which threads exist follows *)
(* from the statement main is at and its counter.                          *)
(*                                                                         *)
(* The benchmark and the file system test are below.  Names of the three   *)
(* programs that would meet here carry that of their program: DhrySpec,    *)
(* MountSpec.                                                              *)
(***************************************************************************)
EXTENDS SmpTest, Dhrystone, MountTest, FiniteSetTheorems, TLAPS

-----------------------------------------------------------------------------
(* The semaphore is a lock, and its holder has a line to write.            *)
Lock ==
  /\ printing = {} \/ (nsem = 0 /\ \E p \in Process : printing = {p})
  /\ \A p \in printing : lines[p] > 0

(* Who waits is at the barrier, and who is not created has done nothing.   *)
Barrier ==
  /\ \A t \in waiting : at[t] = BarrierAt
  /\ \A t \in Thread : at[t] > 0 => t \in threadid
  /\ \A t \in Thread : t \notin threadid => at[t] = 0 /\ lines[t] = 0

(* The threads that exist, of main's statement and counter.                *)
Early == {"start", "barrierattr_init", "barrier_init", "attr_init"}
Late  == {"errout_with_barrier", "errout_with_attr", "errout", "return"}
Main ==
  /\ mainAt \in Early => i = 0
  /\ mainAt \in Early \union {"create"} => threadid = 1 .. i
  /\ mainAt = "create" => i < N
  /\ mainAt = "created" => i < N /\ threadid = 1 .. (i + 1)
  /\ mainAt \in {"all_created", "join"} /\ errcode = "EXIT_SUCCESS" => threadid = Thread
  /\ mainAt \in Late /\ errcode = "EXIT_SUCCESS" => threadid = Thread
  /\ mainAt = "join" => \A t \in threadid : t <= i => at[t] = ReturnAt /\ lines[t] = 0

IInv ==
  /\ TypeOK /\ Lock /\ Barrier /\ Main
  /\ NobodyBackEarly /\ NoThreadLeftAtDestroy

(* N different threads at the barrier are all threads.                     *)
LEMMA AllThere ==
  ASSUME NEW S \in SUBSET Thread, NEW t \in Thread \ S, Cardinality(S) + 1 >= N
  PROVE  S \union {t} = Thread
<1>1. IsFiniteSet(Thread) /\ Cardinality(Thread) = N
  BY FS_Interval, NAssumption DEF Thread
<1>2. IsFiniteSet(S) /\ Cardinality(S) \in Nat
  BY <1>1, FS_Subset, FS_CardinalityType
<1>3. IsFiniteSet(S \union {t}) /\ Cardinality(S \union {t}) = Cardinality(S) + 1
  BY <1>2, FS_AddElement
<1>4. /\ S \union {t} \subseteq Thread
      /\ Cardinality(S \union {t}) <= N
      /\ Cardinality(S \union {t}) = N => S \union {t} = Thread
  BY <1>1, FS_Subset
<1> QED  BY <1>2, <1>3, <1>4, NAssumption

(* No statement but pthread_barrier_wait takes a thread past the barrier.  *)
LEMMA StepsElsewhere ==
  ASSUME NEW t \in Thread, ThreadStep(t)
  PROVE  at[t] # BarrierAt
<1>1. Statement[BarrierAt] = "pthread_barrier_wait"
  BY DEF Statement, BarrierAt
<1> QED  BY <1>1 DEF ThreadStep

LEMMA Initially == Init => IInv
<1> SUFFICES ASSUME Init PROVE IInv
  OBVIOUS
<1> USE DEF Init
<1>1. TypeOK
  <2>1. i \in 0 .. N /\ nsem \in 0 .. 1
    BY NAssumption
  <2>3. nsemUp \in BOOLEAN
    BY Zenon
  <2>2. /\ at \in [Thread -> 0 .. ReturnAt] /\ lines \in [Process -> 0 .. 2]
        /\ g_thread_cpu \in [Process -> CPU \union {IMPOSSIBLE_CPU}]
    BY DEF ReturnAt
  <2> QED  BY <2>1, <2>2, <2>3 DEF TypeOK, MainAts
<1>2. Lock /\ Barrier
  BY DEF Lock, Barrier, Process, Thread, BarrierAt
<1>3. Main
  BY DEF Main, Early, Late
<1>4. NobodyBackEarly /\ NoThreadLeftAtDestroy
  BY DEF NobodyBackEarly, NoThreadLeftAtDestroy, BarrierAt
<1> QED  BY <1>1, <1>2, <1>3, <1>4 DEF IInv

(* Writing a line takes nothing from the other parts.                      *)
LEMMA Lines ==
  ASSUME IInv, NEW p \in Process, InfoWait(p) \/ InfoPost(p)
  PROVE  IInv'
<1> USE DEF threadVars, mainVars
<1>1. CASE InfoWait(p)
  <2>1. printing = {} /\ nsem = 1
    BY <1>1 DEF InfoWait, IInv, Lock, TypeOK
  <2>2. TypeOK'
    BY <1>1, <2>1 DEF InfoWait, IInv, TypeOK
  <2>3. Lock'
    BY <1>1, <2>1 DEF InfoWait, Lock
  <2> QED  BY <1>1, <2>2, <2>3 DEF InfoWait, IInv, Barrier, Main, NobodyBackEarly,
                                   NoThreadLeftAtDestroy
<1>2. CASE InfoPost(p)
  <2>1. printing = {p} /\ nsem = 0 /\ lines[p] > 0 /\ lines[p] \in 0 .. 2
    BY <1>2 DEF InfoPost, IInv, Lock, TypeOK
  <2>2. /\ lines' \in [Process -> 0 .. 2] /\ lines'[p] = lines[p] - 1
        /\ \A q \in Process \ {p} : lines'[q] = lines[q]
    BY <1>2, <2>1 DEF InfoPost, IInv, TypeOK
  <2>3. TypeOK'
    BY <1>2, <2>1, <2>2 DEF InfoPost, IInv, TypeOK
  <2>4. Lock'
    BY <1>2, <2>1 DEF InfoPost, Lock
  <2>5. \A t \in Thread : lines[t] = 0 => lines'[t] = 0
    BY <2>1, <2>2 DEF Thread, Process
  <2> QED  BY <1>2, <2>3, <2>4, <2>5 DEF InfoPost, IInv, TypeOK, Barrier, Main,
                                   NobodyBackEarly, NoThreadLeftAtDestroy
<1> QED  BY <1>1, <1>2

(* What a statement of a process with no line left does to the lines.      *)
LEMMA NewLines ==
  ASSUME IInv, NEW p \in Process, Runnable(p), NEW k \in 0 .. 1,
         \/ show_cpu(p, k) \/ show_cpu_conditional(p, k) \/ info(p, k) \/ info(p, 1)
         \/ info(p, 2)
  PROVE  /\ lines' \in [Process -> 0 .. 2]
         /\ g_thread_cpu' \in [Process -> CPU \union {IMPOSSIBLE_CPU}]
         /\ \A q \in Process \ {p} : lines'[q] = lines[q]
         /\ p \notin printing
<1>1. lines \in [Process -> 0 .. 2]
      /\ g_thread_cpu \in [Process -> CPU \union {IMPOSSIBLE_CPU}]
  BY DEF IInv, TypeOK
<1>2. p \notin printing
  BY <1>1 DEF IInv, Lock, Runnable
<1>3. CASE show_cpu(p, k)
  BY <1>1, <1>2, <1>3 DEF show_cpu
<1>4. CASE show_cpu_conditional(p, k)
  BY <1>1, <1>2, <1>4 DEF show_cpu_conditional
<1>5. CASE info(p, k) \/ info(p, 1) \/ info(p, 2)
  BY <1>1, <1>2, <1>5 DEF info
<1> QED  BY <1>3, <1>4, <1>5

LEMMA Threads ==
  ASSUME IInv, NEW t \in Thread, ThreadNext(t)
  PROVE  IInv'
<1> USE DEF mainVars, semVars
<1>0. t \in Process /\ 0 \in Process /\ t # 0
  BY NAssumption DEF Thread, Process
<1>1. CASE ThreadStep(t)
  <2>1. at[t] # BarrierAt /\ at[t] \in 1 .. ReturnAt - 1 /\ Runnable(t)
    BY <1>1, StepsElsewhere DEF ThreadStep
  <2>2. /\ lines' \in [Process -> 0 .. 2]
        /\ g_thread_cpu' \in [Process -> CPU \union {IMPOSSIBLE_CPU}]
        /\ \A q \in Process \ {t} : lines'[q] = lines[q]
        /\ t \notin printing
    BY <1>0, <1>1, <2>1, NewLines DEF ThreadStep
  <2>3. /\ at' = [at EXCEPT ![t] = @ + 1] /\ at \in [Thread -> 0 .. ReturnAt]
        /\ waiting' = waiting /\ threadid' = threadid /\ mainAt' = mainAt
        /\ i' = i /\ errcode' = errcode /\ printing' = printing /\ nsem' = nsem
    BY <1>1 DEF ThreadStep, IInv, TypeOK
  <2>4. at'[t] = at[t] + 1 /\ \A u \in Thread \ {t} : at'[u] = at[u]
    BY <2>3
  <2>5. TypeOK'
    BY <1>1, <2>1, <2>2, <2>3 DEF ThreadStep, IInv, TypeOK, ReturnAt
  <2>6. Lock'
    BY <2>2, <2>3 DEF IInv, Lock, TypeOK
  <2>7. Barrier'
    BY <1>0, <2>1, <2>2, <2>3, <2>4 DEF IInv, Barrier, BarrierAt, ReturnAt, TypeOK, Thread,
                        Process
  <2>8. NobodyBackEarly'
    BY <2>1, <2>3, <2>4 DEF IInv, NobodyBackEarly, BarrierAt, ReturnAt
  <2>9. \A u \in Thread : at[u] = ReturnAt /\ lines[u] = 0 => at'[u] = ReturnAt /\ lines'[u] = 0
    BY <2>1, <2>2, <2>3, <2>4 DEF ReturnAt, Thread, Process
  <2>10. Main' /\ NoThreadLeftAtDestroy'
    BY <2>3, <2>9 DEF IInv, Main, NoThreadLeftAtDestroy, TypeOK
  <2> QED  BY <2>5, <2>6, <2>7, <2>8, <2>10 DEF IInv
<1>2. CASE BarrierBlock(t)
  BY <1>2 DEF BarrierBlock, AtBarrier, IInv, TypeOK, Lock, Barrier, Main, NobodyBackEarly,
              NoThreadLeftAtDestroy
<1>3. CASE BarrierRelease(t)
  <2>1. waiting \union {t} = Thread
    BY <1>3, AllThere DEF BarrierRelease, AtBarrier, BarrierCount, IInv, TypeOK
  <2>2. \A u \in Thread : at[u] = BarrierAt
    BY <1>3, <2>1 DEF BarrierRelease, AtBarrier, IInv, Barrier
  <2>3. at' = [u \in Thread |-> BarrierAt + 1] /\ waiting' = {}
    BY <1>3, <2>1 DEF BarrierRelease
  <2>4. /\ threadid' = threadid /\ mainAt' = mainAt /\ i' = i /\ errcode' = errcode
        /\ printing' = printing /\ nsem' = nsem /\ nsemUp' = nsemUp
        /\ lines' = lines /\ g_thread_cpu' = g_thread_cpu
    BY <1>3 DEF BarrierRelease
  <2>5. TypeOK' /\ Lock'
    BY <2>3, <2>4 DEF IInv, TypeOK, Lock, BarrierAt, ReturnAt
  <2>6. \A u \in Thread : u \in threadid
    BY <2>2 DEF IInv, Barrier, BarrierAt
  <2>7. Barrier' /\ NobodyBackEarly'
    BY <2>3, <2>4, <2>6 DEF Barrier, NobodyBackEarly, BarrierAt
  <2>8. Main' /\ NoThreadLeftAtDestroy'
    BY <2>2, <2>3, <2>4 DEF IInv, Main, NoThreadLeftAtDestroy, TypeOK, BarrierAt, ReturnAt
  <2> QED  BY <2>5, <2>7, <2>8 DEF IInv
<1> QED  BY <1>1, <1>2, <1>3 DEF ThreadNext

(* A statement of main that leaves threads and semaphore alone.            *)
MainOnly == UNCHANGED <<threadVars, semVars>>

LEMMA MainAlone ==
  ASSUME IInv, MainOnly, Runnable(0), NEW k \in 0 .. 1,
         \/ show_cpu(0, k) \/ show_cpu_conditional(0, k) \/ info(0, k) \/ info(0, 1)
         \/ info(0, 2)
  PROVE  /\ lines' \in [Process -> 0 .. 2]
         /\ g_thread_cpu' \in [Process -> CPU \union {IMPOSSIBLE_CPU}]
         /\ Lock'
         /\ \A t \in Thread : lines'[t] = lines[t]
<1>1. 0 \in Process /\ 0 \notin Thread /\ Thread \subseteq Process
  BY NAssumption DEF Thread, Process
<1>2. /\ lines' \in [Process -> 0 .. 2]
      /\ g_thread_cpu' \in [Process -> CPU \union {IMPOSSIBLE_CPU}]
      /\ \A q \in Process \ {0} : lines'[q] = lines[q]
      /\ 0 \notin printing
  BY <1>1, NewLines
<1>3. Lock'
  BY <1>2 DEF IInv, Lock, TypeOK, MainOnly, semVars
<1> QED  BY <1>1, <1>2, <1>3

(* main before it joins.                                                   *)
LEMMA Starting ==
  ASSUME IInv, MainStart PROVE IInv'
<1>0. 0 \in Process /\ Thread = Process \ {0}
  BY NAssumption DEF Thread, Process
<1>1. mainAt = "start" /\ mainAt' = "barrierattr_init" /\ Runnable(0)
  BY DEF MainStart, MainGoes
<1>2. i = 0 /\ threadid = {}
  BY <1>1 DEF IInv, Main, Early
<1>3. \A p \in Process : lines[p] = 0
  BY <1>0, <1>1, <1>2 DEF IInv, Barrier, Runnable
<1>4. printing = {}
  BY <1>3 DEF IInv, Lock, TypeOK
<1>5. /\ lines' \in [Process -> 0 .. 2]
      /\ g_thread_cpu' \in [Process -> CPU \union {IMPOSSIBLE_CPU}]
      /\ \A t \in Thread : lines'[t] = lines[t]
  BY <1>0, <1>1, NewLines DEF MainStart
<1>6. TypeOK'
  BY <1>1, <1>5 DEF IInv, TypeOK, MainStart, threadVars, MainAts
<1>7. Lock' /\ Barrier' /\ NobodyBackEarly'
  BY <1>4, <1>5 DEF IInv, Lock, Barrier, NobodyBackEarly, MainStart, threadVars
<1>8. Main' /\ NoThreadLeftAtDestroy'
  BY <1>1, <1>2 DEF Main, NoThreadLeftAtDestroy, MainStart, Early, Late
<1> QED  BY <1>6, <1>7, <1>8 DEF IInv

LEMMA Initialising ==
  ASSUME IInv, MainInit PROVE IInv'
<1>1. MainOnly /\ Runnable(0) /\ (info(0, 0) \/ info(0, 1))
      /\ i' = i /\ threadid' = threadid
  BY DEF MainInit, InitOk, InitFails, MainGoes, MainOnly
<1>2. /\ mainAt \in Early
      /\ mainAt' \in Early \union {"create"} \union Late
      /\ mainAt' \in Late => errcode' = "EXIT_FAILURE"
      /\ errcode' \in {errcode, "EXIT_FAILURE"}
  BY DEF MainInit, InitOk, InitFails, MainGoes, Early, Late
<1>3. i = 0 /\ threadid = {}
  BY <1>2 DEF IInv, Main
<1>4. /\ lines' \in [Process -> 0 .. 2]
      /\ g_thread_cpu' \in [Process -> CPU \union {IMPOSSIBLE_CPU}]
      /\ Lock' /\ \A t \in Thread : lines'[t] = lines[t]
  BY <1>1, MainAlone
<1>5. TypeOK'
  BY <1>1, <1>2, <1>4 DEF IInv, TypeOK, MainOnly, threadVars, semVars, MainAts, Early, Late
<1>6. Barrier' /\ NobodyBackEarly'
  BY <1>1, <1>4 DEF IInv, Barrier, NobodyBackEarly, MainOnly, threadVars
<1>7. Main' /\ NoThreadLeftAtDestroy'
  BY <1>1, <1>2, <1>3, NAssumption DEF Main, NoThreadLeftAtDestroy, Early, Late
<1> QED  BY <1>4, <1>5, <1>6, <1>7 DEF IInv

LEMMA Creating ==
  ASSUME IInv, CreateOk \/ CreateFails \/ CreateNext \/ AllCreated PROVE IInv'
<1>0. 0 \in Process /\ Thread = Process \ {0} /\ i \in 0 .. N /\ N \in Nat
  BY NAssumption DEF Thread, Process, IInv, TypeOK
<1>1. CASE CreateOk
  <2>1. /\ mainAt = "create" /\ mainAt' = "created" /\ i < N /\ i' = i /\ Runnable(0)
        /\ threadid' = threadid \union {i + 1} /\ at' = [at EXCEPT ![i + 1] = 1]
        /\ info(0, 1) /\ errcode' = errcode
        /\ UNCHANGED <<waiting, semVars>>
    BY <1>1 DEF CreateOk, MainGoes
  <2>2. threadid = 1 .. i /\ i + 1 \in Thread /\ i + 1 \notin threadid
    BY <1>0, <2>1 DEF IInv, Main, Thread
  <2>3. at[i + 1] = 0 /\ lines[i + 1] = 0 /\ i + 1 \notin waiting
    BY <2>2 DEF IInv, Barrier, BarrierAt
  <2>4. /\ lines' \in [Process -> 0 .. 2] /\ 0 \notin printing
        /\ g_thread_cpu' \in [Process -> CPU \union {IMPOSSIBLE_CPU}]
        /\ \A t \in Thread : lines'[t] = lines[t]
    BY <1>0, <2>1, NewLines
  <2>5. /\ at' \in [Thread -> 0 .. ReturnAt] /\ at'[i + 1] = 1
        /\ \A t \in Thread \ {i + 1} : at'[t] = at[t]
    BY <2>1, <2>2 DEF IInv, TypeOK, ReturnAt
  <2>6. TypeOK'
    BY <2>1, <2>2, <2>4, <2>5 DEF IInv, TypeOK, semVars, MainAts
  <2>7. Lock'
    BY <1>0, <2>1, <2>4 DEF IInv, Lock, TypeOK, semVars
  <2>8. Barrier' /\ NobodyBackEarly'
    BY <2>1, <2>2, <2>3, <2>4, <2>5 DEF IInv, TypeOK, Barrier, NobodyBackEarly, BarrierAt
  <2>9. Main' /\ NoThreadLeftAtDestroy'
    BY <1>0, <2>1, <2>2 DEF Main, NoThreadLeftAtDestroy, Early, Late
  <2> QED  BY <2>6, <2>7, <2>8, <2>9 DEF IInv
<1>2. ASSUME ~CreateOk PROVE IInv'
  <2>1. /\ MainOnly /\ Runnable(0) /\ threadid' = threadid
        /\ \/ info(0, 2) \/ show_cpu_conditional(0, 0) \/ show_cpu_conditional(0, 1)
    BY <1>2 DEF CreateFails, CreateNext, AllCreated, MainGoes, MainOnly
  <2>2. /\ lines' \in [Process -> 0 .. 2]
        /\ g_thread_cpu' \in [Process -> CPU \union {IMPOSSIBLE_CPU}]
        /\ Lock' /\ \A t \in Thread : lines'[t] = lines[t]
    BY <2>1, MainAlone
  <2>3. Barrier' /\ NobodyBackEarly'
    BY <2>1, <2>2 DEF IInv, Barrier, NobodyBackEarly, MainOnly, threadVars
  <2>4. /\ mainAt' \in {"create", "all_created", "join"} /\ i' \in 0 .. N
        /\ errcode' \in {errcode, "EXIT_FAILURE"} /\ Main'
    <3>1. CASE CreateFails
      BY <1>0, <2>1, <3>1 DEF CreateFails, MainGoes, IInv, Main, Early, Late
    <3>2. CASE CreateNext
      BY <1>0, <2>1, <3>2 DEF CreateNext, MainGoes, IInv, Main, Early, Late, Thread
    <3>3. CASE AllCreated
      <4>1. mainAt = "all_created" /\ mainAt' = "join" /\ i' = 0 /\ errcode' = errcode
        BY <3>3 DEF AllCreated, MainGoes
      <4>2. \A t \in threadid : ~(t <= 0)
        BY DEF IInv, TypeOK, Thread
      <4> QED  BY <1>0, <2>1, <4>1, <4>2 DEF IInv, Main, Early, Late
    <3> QED  BY <1>2, <3>1, <3>2, <3>3
  <2>5. TypeOK'
    BY <2>1, <2>2, <2>4 DEF IInv, TypeOK, MainOnly, threadVars, semVars, MainAts
  <2>6. NoThreadLeftAtDestroy'
    BY <2>4 DEF NoThreadLeftAtDestroy
  <2> QED  BY <2>2, <2>3, <2>4, <2>5, <2>6 DEF IInv
<1> QED  BY <1>1, <1>2

(* main from the first join on.                                            *)
LEMMA Joining ==
  ASSUME IInv, Join \/ JoinSkip PROVE IInv'
<1>0. 0 \in Process /\ Thread = Process \ {0} /\ i \in 0 .. N /\ N \in Nat
  BY NAssumption DEF Thread, Process, IInv, TypeOK
<1>1. /\ mainAt = "join" /\ mainAt' = "join" /\ i < N /\ i' = i + 1 /\ Runnable(0)
      /\ threadid' = threadid /\ errcode' \in {errcode, "EXIT_FAILURE"} /\ MainOnly
      /\ i + 1 \in threadid => at[i + 1] = ReturnAt /\ lines[i + 1] = 0
  BY DEF Join, JoinSkip, MainGoes, MainOnly, Runnable
<1>2. /\ lines' \in [Process -> 0 .. 2]
      /\ g_thread_cpu' \in [Process -> CPU \union {IMPOSSIBLE_CPU}]
      /\ Lock' /\ \A t \in Thread : lines'[t] = lines[t]
  <2>1. CASE Join
    BY <1>1, <2>1, MainAlone DEF Join
  <2>2. CASE JoinSkip
    BY <1>1, <2>2 DEF JoinSkip, IInv, TypeOK, Lock, MainOnly, semVars
  <2> QED  BY <2>1, <2>2
<1>3. Barrier' /\ NobodyBackEarly'
  BY <1>1, <1>2 DEF IInv, Barrier, NobodyBackEarly, MainOnly, threadVars
<1>4. TypeOK'
  BY <1>0, <1>1, <1>2 DEF IInv, TypeOK, MainOnly, threadVars, semVars, MainAts
<1>5. \A t \in threadid : t <= i + 1 => at[t] = ReturnAt /\ lines[t] = 0
  BY <1>0, <1>1 DEF IInv, Main, TypeOK, Thread
<1>6. Main' /\ NoThreadLeftAtDestroy'
  BY <1>1, <1>2, <1>5 DEF IInv, TypeOK, Main, NoThreadLeftAtDestroy, MainOnly, threadVars,
                          Early, Late
<1> QED  BY <1>2, <1>3, <1>4, <1>6 DEF IInv

LEMMA GivingBack ==
  ASSUME IInv, NsemDestroy \/ MainDestroy \/ MainEnd PROVE IInv'
<1>0. 0 \in Process /\ Thread = Process \ {0} /\ i \in 0 .. N /\ N \in Nat
  BY NAssumption DEF Thread, Process, IInv, TypeOK
<1>1. CASE NsemDestroy
  <2>1. /\ mainAt = "join" /\ mainAt' = "errout_with_barrier" /\ i = N /\ i' = i
        /\ lines[0] = 0 /\ lines' = lines /\ printing' = printing
        /\ g_thread_cpu' = g_thread_cpu
        /\ threadid' = threadid /\ errcode' = errcode /\ UNCHANGED threadVars
        /\ nsem' = 1 /\ nsemUp' = FALSE
    BY <1>1 DEF NsemDestroy, MainGoes, AllJoined, Runnable
  <2>2. \A t \in threadid : at[t] = ReturnAt /\ lines[t] = 0
    BY <1>0, <2>1 DEF IInv, Main, TypeOK, Thread
  <2>3. \A p \in Process : lines[p] = 0
    BY <1>0, <2>1, <2>2 DEF IInv, Barrier
  <2>4. printing = {}
    BY <2>3 DEF IInv, Lock, TypeOK
  <2>5. Lock' /\ Barrier' /\ NobodyBackEarly'
    BY <2>1, <2>4 DEF IInv, Lock, Barrier, NobodyBackEarly, threadVars
  <2>6. nsemUp' \in BOOLEAN
    BY <2>1, Zenon
  <2>7. TypeOK'
    BY <2>1, <2>6 DEF IInv, TypeOK, threadVars, MainAts
  <2>8. Main' /\ NoThreadLeftAtDestroy'
    BY <2>1, <2>2 DEF IInv, Main, NoThreadLeftAtDestroy, threadVars, Early, Late
  <2> QED  BY <2>5, <2>8, <2>7 DEF IInv
<1>2. ASSUME ~NsemDestroy PROVE IInv'
  <2>1. /\ MainOnly /\ Runnable(0) /\ threadid' = threadid /\ i' = i /\ errcode' = errcode
        /\ mainAt \in Late /\ mainAt' \in Late
        /\ \/ info(0, 0) \/ info(0, 1) \/ show_cpu_conditional(0, 0)
    BY <1>2 DEF MainDestroy, MainEnd, MainGoes, MainOnly, Late
  <2>2. /\ lines' \in [Process -> 0 .. 2]
        /\ g_thread_cpu' \in [Process -> CPU \union {IMPOSSIBLE_CPU}]
        /\ Lock' /\ \A t \in Thread : lines'[t] = lines[t]
    BY <2>1, MainAlone
  <2>3. Barrier' /\ NobodyBackEarly'
    BY <2>1, <2>2 DEF IInv, Barrier, NobodyBackEarly, MainOnly, threadVars
  <2>4. TypeOK'
    BY <2>1, <2>2 DEF IInv, TypeOK, MainOnly, threadVars, semVars, MainAts, Late
  <2>5. Main'
    BY <2>1 DEF IInv, Main, Early, Late
  <2>6. NoThreadLeftAtDestroy'
    BY <2>1, <2>2 DEF IInv, TypeOK, NoThreadLeftAtDestroy, MainOnly, threadVars, Late
  <2> QED  BY <2>2, <2>3, <2>4, <2>5, <2>6 DEF IInv
<1> QED  BY <1>1, <1>2

(* Every step keeps the invariant.                                         *)
LEMMA SmpStep ==
  ASSUME IInv, [Next]_vars PROVE IInv'
<1>1. CASE \E p \in Process : InfoWait(p) \/ InfoPost(p)
  BY <1>1, Lines
<1>2. CASE \E t \in Thread : ThreadNext(t)
  BY <1>2, Threads
<1>3. CASE MainStep
  BY <1>3, Starting, Initialising, Creating, Joining, GivingBack DEF MainStep
<1>4. CASE UNCHANGED vars
  BY <1>4 DEF vars, threadVars, mainVars, semVars, IInv, TypeOK, Lock, Barrier, Main,
              NobodyBackEarly, NoThreadLeftAtDestroy
<1> QED  BY <1>1, <1>2, <1>3, <1>4 DEF Next

LEMMA Invariant == Spec => []IInv
  BY Initially, SmpStep, PTL DEF Spec

(* Every variable of the test keeps its type, and nsem is a lock: its      *)
(* count never passes 1 however often dbginfo posts it.                    *)
THEOREM TypeCorrect == Spec => []TypeOK
<1>1. IInv => TypeOK
  BY DEF IInv
<1> QED  BY <1>1, Invariant, PTL

(* However many processes call dbginfo, two lines are never mixed.         *)
THEOREM LinesStayWhole == Spec => []LinesWhole
<1>1. IInv => LinesWhole
  BY DEF IInv, Lock, LinesWhole
<1> QED  BY <1>1, Invariant, PTL

(* For every N, a thread that is back from the barrier of barrier_thread   *)
(* has met all N, main's failed creations included.                        *)
THEOREM BarrierHolds == Spec => []NobodyBackEarly
<1>1. IInv => NobodyBackEarly
  BY DEF IInv
<1> QED  BY <1>1, Invariant, PTL

(* main gives back the semaphore only after the last thread that was       *)
(* created has written its last line.                                      *)
THEOREM DestroyedWhenUnused == Spec => []NoThreadLeftAtDestroy
<1>1. IInv => NoThreadLeftAtDestroy
  BY DEF IInv
<1> QED  BY <1>1, Invariant, PTL

(* EXIT_SUCCESS is the answer of a test in which all N threads were        *)
(* created, met and returned.                                              *)
THEOREM SuccessMeansComplete == Spec => []SuccessIsTrue
<1>1. IInv => SuccessIsTrue
  BY DEF IInv, Main, Late, NoThreadLeftAtDestroy, SuccessIsTrue
<1> QED  BY <1>1, Invariant, PTL

-----------------------------------------------------------------------------
(***************************************************************************)
(* The benchmark.  Turn says what the variables hold at each place of a    *)
(* turn: the comments of the loop, made inductive.  A turn forgets what    *)
(* was there before it, so that the values after one turn are those after  *)
(* the last.  Count relates the turns to the passes: as every pass is ten  *)
(* times as long as the one before it, nine times the turns of the passes  *)
(* that are over are the length of the present one less that of the first. *)
(***************************************************************************)

(* What dhrystone.h and the stack may give the benchmark.                  *)
LEMMA Parameters ==
  /\ NUMBER_OF_RUNS \in Nat \ {0} /\ MaxTurns \in Nat
  /\ Too_Small_Time \in Nat \ {0} /\ HALF \in Nat \ {0} /\ Elapsed \subseteq Nat
  /\ Junk # {} /\ Junk \subseteq Int
BY RunsAssumption, TimeAssumption, JunkAssumption

(* The two records after a turn.                                           *)
FinalHeap ==
  [r \in Pointer |->
     IF r = Ptr_Glob
     THEN [Ptr_Comp |-> Next_Ptr_Glob, Discr |-> 0, Enum_Comp |-> 2, Int_Comp |-> 17,
           Str_Comp |-> "SOME"]
     ELSE [Ptr_Comp |-> Next_Ptr_Glob, Discr |-> 0, Enum_Comp |-> 1, Int_Comp |-> 18,
           Str_Comp |-> "SOME"]]

(* What Proc_4, the assignments and Proc_8 leave, and the numbers.         *)
Letters == Ch_1_Glob = 1 /\ Ch_2_Glob = 2 /\ Bool_Glob
Chosen  == Enum_Loc = 1 /\ Str_2_Loc = "2'ND"
Numbers(x, y) ==
  Int_1_Loc = x /\ Int_2_Loc = y /\ Int_3_Loc = 7 /\ Int_Glob = 5 /\ Arr_1_Glob[8] = 7

Turn ==
  /\ pc # "start" => /\ heap[Ptr_Glob].Ptr_Comp = Next_Ptr_Glob
                     /\ heap[Ptr_Glob].Discr = 0 /\ heap[Ptr_Glob].Enum_Comp = 2
                     /\ heap[Ptr_Glob].Str_Comp = "SOME"
  /\ pc = "Proc_4" => Ch_1_Glob = 1
  /\ pc = "Func_2" => Letters
  /\ pc = "while" => /\ Letters /\ Chosen
                     /\ Int_1_Loc \in 2 .. 3 /\ Int_2_Loc = 3
                     /\ Int_1_Loc = 3 => Int_3_Loc = 7
  /\ pc = "Proc_1" => Letters /\ Chosen /\ Numbers(3, 3)
  /\ pc = "letters" => /\ Letters /\ Chosen /\ Numbers(3, 3) /\ heap = FinalHeap
                       /\ Ch_Index \in 1 .. 3
  /\ pc = "Proc_2" => Letters /\ Chosen /\ Numbers(1, 13) /\ heap = FinalHeap
  /\ pc \in {"trying", "for", "report"} /\ turns > 0 =>
       Letters /\ Chosen /\ Numbers(5, 13) /\ heap = FinalHeap

(* The turns, the element of the array that counts them, and the passes.   *)
Over == Number_Of_Runs - NUMBER_OF_RUNS
Count ==
  /\ pc = "start" => turns = 0 /\ Run_Index = 0
  /\ pc # "start" => Arr_2_Glob[<<8, 7>>] = 10 + turns /\ Number_Of_Runs >= NUMBER_OF_RUNS
  /\ pc = "trying" => 9 * turns = Over
  /\ pc \in {"for", "Proc_4", "Func_2", "while"} =>
       Run_Index >= 1 /\ 9 * (turns - Run_Index + 1) = Over
  /\ pc \in {"Proc_4", "Func_2", "while"} => Run_Index <= Number_Of_Runs
  /\ pc \in {"Proc_1", "letters", "Proc_2"} =>
       Run_Index \in 1 .. Number_Of_Runs /\ 9 * (turns - Run_Index) = Over
  /\ pc = "report" => 9 * (turns - Number_Of_Runs) = Over

(* The time: a pass starts at the counter main has read.                   *)
Time ==
  /\ pc \notin {"start", "trying", "report", "returned"} => t0 = mcycle
  /\ MeasuredTrue

BenchInv == DhryTypeOK /\ Turn /\ Count /\ Time

(* A number within n of the range of % n.                                  *)
LEMMA Modulo ==
  ASSUME NEW n \in Nat \ {0}, NEW a \in Int
  PROVE  /\ a % n \in 0 .. n - 1
         /\ 0 <= a /\ a < n => a % n = a
         /\ n <= a /\ a < 2 * n => a % n = a - n
         /\ 0 - n <= a /\ a < 0 => a % n = a + n
<1>1. a % n \in 0 .. n - 1
  OBVIOUS
<1>2. ASSUME 0 <= a, a < n PROVE a % n = a
  BY <1>2
<1>3. ASSUME n <= a, a < 2 * n PROVE a % n = a - n
  BY <1>3
<1>4. ASSUME 0 - n <= a, a < 0 PROVE a % n = a + n
  BY <1>4
<1> QED  BY <1>1, <1>2, <1>3, <1>4

(* The difference of two readings of the counter is the time between them, *)
(* when that is less than half of the counter's range.                     *)
LEMMA Difference ==
  ASSUME NEW m \in 0 .. 2 * HALF - 1, NEW e \in Nat
  PROVE  /\ Signed(((m + e) % (2 * HALF)) - m) \in -HALF .. HALF - 1
         /\ e < HALF => Signed(((m + e) % (2 * HALF)) - m) = e
<1> DEFINE n == 2 * HALF
           w == (m + e) % n
           d == (w - m) % n
<1>1. HALF \in Nat \ {0} /\ n = 2 * HALF /\ n \in Nat \ {0} /\ m \in 0 .. n - 1
  BY Parameters
<1>2. Signed(w - m) = IF d < HALF THEN d ELSE d - n
  BY DEF Signed
<1>3. /\ w \in 0 .. n - 1
      /\ m + e < n => w = m + e
      /\ n <= m + e /\ m + e < 2 * n => w = m + e - n
  <2> HIDE DEF n
  <2>1. m + e \in Int /\ 0 <= m + e
    BY <1>1
  <2>2. w \in 0 .. n - 1
    BY <1>1, <2>1, Modulo
  <2>3. m + e < n => w = m + e
    BY <1>1, <2>1, Modulo
  <2>4. n <= m + e /\ m + e < 2 * n => w = m + e - n
    <3> DEFINE a == m + e
    <3>1. a \in Int /\ w = a % n
      BY <2>1
    <3> HIDE DEF a, w
    <3>2. n <= a /\ a < 2 * n => w = a - n
      BY <1>1, <3>1, Modulo
    <3> QED  BY <1>1, <3>2 DEF a
  <2> QED  BY <2>2, <2>3, <2>4
<1> HIDE DEF w
<1>4. /\ d \in 0 .. n - 1
      /\ 0 <= w - m => d = w - m
      /\ w - m < 0 => d = w - m + n
  <2> HIDE DEF n
  <2>1. w - m \in Int /\ 0 - n <= w - m /\ w - m < n
    BY <1>1, <1>3
  <2> QED  BY <1>1, <2>1, Modulo
<1> HIDE DEF d, n
<1>5. Signed(w - m) \in -HALF .. HALF - 1
  BY <1>1, <1>2, <1>4
<1>6. e < HALF => d = e
  BY <1>1, <1>3, <1>4
<1>7. e < HALF => Signed(w - m) = e
  BY <1>1, <1>2, <1>6
<1> QED  BY <1>5, <1>7 DEF n, w

(* Proc_1 leaves the same two records whatever the second one held.        *)
LEMMA Records ==
  ASSUME DhryTypeOK, Turn, pc = "Proc_1"
  PROVE  Proc_1(heap, Ptr_Glob) = FinalHeap
<1>1. /\ heap \in [Pointer -> Record] /\ Int_Glob = 5
      /\ heap[Ptr_Glob].Ptr_Comp = Next_Ptr_Glob /\ heap[Ptr_Glob].Discr = 0
      /\ heap[Ptr_Glob].Enum_Comp = 2 /\ heap[Ptr_Glob].Str_Comp = "SOME"
  BY DEF DhryTypeOK, Turn, Numbers
<1>2. Proc_7(10, Int_Glob) = 17 /\ Proc_7(6, 10) = 18 /\ Proc_6(2) = 1
  BY <1>1 DEF Proc_7, Proc_6, Ident_1, Ident_2, Ident_3,
              Ident_4, Ident_5
<1>3. Ptr_Glob # Next_Ptr_Glob /\ Pointer = {Ptr_Glob, Next_Ptr_Glob}
  BY DEF Pointer, Ptr_Glob, Next_Ptr_Glob
<1> DEFINE p == Ptr_Glob
           n == heap[p].Ptr_Comp
           copied == [heap EXCEPT ![n] = heap[p]]
           five == [copied EXCEPT ![p].Int_Comp = 5]
           filled == [five EXCEPT ![n].Int_Comp = five[p].Int_Comp,
                                  ![n].Ptr_Comp = five[p].Ptr_Comp]
           linked == Proc_3(filled, n)
           six == [linked EXCEPT ![n].Int_Comp = 6,
                                 ![n].Enum_Comp = Proc_6(linked[p].Enum_Comp),
                                 ![n].Ptr_Comp = linked[p].Ptr_Comp]
           Rec(e, k) == [Ptr_Comp |-> n, Discr |-> 0, Enum_Comp |-> e, Int_Comp |-> k,
                         Str_Comp |-> "SOME"]
<1>4. Proc_1(heap, p) =
        IF linked[n].Discr = Ident_1
        THEN [six EXCEPT ![n].Int_Comp = Proc_7(six[n].Int_Comp, 10)]
        ELSE [linked EXCEPT ![p] = linked[linked[p].Ptr_Comp]]
  BY DEF Proc_1
<1> HIDE DEF six, linked
<1>5. copied = [r \in {p, n} |-> Rec(2, heap[p].Int_Comp)]
  BY <1>1, <1>3 DEF Record
<1> HIDE DEF copied
<1>6. five = [r \in {p, n} |-> Rec(2, IF r = p THEN 5 ELSE heap[p].Int_Comp)]
  <2>1. copied[p] = Rec(2, heap[p].Int_Comp)
    BY <1>5
  <2>2. five = [copied EXCEPT ![p] = [copied[p] EXCEPT !.Int_Comp = 5]]
    BY <1>3
  <2> QED  BY <1>3, <1>5, <2>1, <2>2
<1> HIDE DEF five
<1>7. filled = [r \in {p, n} |-> Rec(2, 5)]
  <2>1. five[p] = Rec(2, 5) /\ five[n] = Rec(2, heap[p].Int_Comp)
    BY <1>1, <1>3, <1>6
  <2> QED  BY <1>1, <1>3, <1>6, <2>1 DEF filled
<1> HIDE DEF filled
<1>8. linked = [r \in {p, n} |-> Rec(2, IF r = p THEN 17 ELSE 5)]
  BY <1>1, <1>2, <1>3, <1>7 DEF linked, Proc_3
<1>9. six = [r \in {p, n} |-> IF r = p THEN Rec(2, 17) ELSE Rec(1, 6)]
  <2>1. linked[p] = Rec(2, 17) /\ linked[n] = Rec(2, 5)
    BY <1>1, <1>3, <1>8
  <2> DEFINE one == [linked EXCEPT ![n].Int_Comp = 6]
             two == [one EXCEPT ![n].Enum_Comp = 1]
  <2>2. one = [r \in {p, n} |-> IF r = p THEN Rec(2, 17) ELSE Rec(2, 6)]
    BY <1>1, <1>3, <1>8, <2>1
  <2>3. six = [two EXCEPT ![n].Ptr_Comp = n]
    <3>1. Proc_6(linked[p].Enum_Comp) = 1 /\ linked[p].Ptr_Comp = n
      BY <1>2, <2>1
    <3> QED  BY <3>1, Zenon DEF six
  <2> HIDE DEF one
  <2>4. two = [r \in {p, n} |-> IF r = p THEN Rec(2, 17) ELSE Rec(1, 6)]
    <3>1. one[p] = Rec(2, 17) /\ one[n] = Rec(2, 6)
      BY <1>1, <1>3, <2>2
    <3> QED  BY <1>1, <1>3, <2>2, <3>1
  <2> HIDE DEF two
  <2> QED
    <3>1. two[p] = Rec(2, 17) /\ two[n] = Rec(1, 6)
      BY <1>1, <1>3, <2>4
    <3> QED  BY <1>1, <1>3, <2>3, <2>4, <3>1
<1> HIDE DEF n
<1> QED  BY <1>1, <1>2, <1>3, <1>4, <1>8, <1>9 DEF FinalHeap, Ident_1, n

LEMMA BenchInitially == DhryInit => BenchInv
<1> SUFFICES ASSUME DhryInit PROVE BenchInv
  OBVIOUS
<1> USE DEF DhryInit
<1>1. heap \in [Pointer -> Record]
  BY Parameters DEF Uninitialised, Record
<1>2. /\ Int_1_Loc \in Int /\ Int_2_Loc \in Int /\ Int_3_Loc \in Int /\ Enum_Loc \in Int
      /\ mcycle \in 0 .. 2 * HALF - 1 /\ t0 \in 0 .. 2 * HALF - 1
      /\ User_Time \in -HALF .. HALF - 1
  BY Parameters
<1>3. Arr_1_Glob \in [Index -> Int] /\ Arr_2_Glob \in [Index \X Index -> Int]
  OBVIOUS
<1>4. Bool_Glob \in BOOLEAN
  BY Zenon
<1>5. DhryTypeOK
  BY <1>1, <1>2, <1>3, <1>4 DEF DhryTypeOK
<1>6. Turn /\ Count /\ Time
  BY DEF Turn, Count, Time, MeasuredTrue
<1> QED  BY <1>5, <1>6 DEF BenchInv

(* Before and between the passes.                                          *)
LEMMA BenchStarting ==
  ASSUME BenchInv, Begin
  PROVE  BenchInv'
<1>1. NUMBER_OF_RUNS \in Nat \ {0}
  BY Parameters
<1>2. pc = "start" /\ pc' = "trying" /\ turns = 0 /\ turns' = 0
      /\ Run_Index' = 0 /\ Number_Of_Runs' = NUMBER_OF_RUNS
  BY DEF BenchInv, Count, Begin, Goes
<1>3. heap \in [Pointer -> Record] /\ Arr_2_Glob \in [Index \X Index -> Int]
  BY DEF BenchInv, DhryTypeOK
<1>4. /\ heap' \in [Pointer -> Record]
      /\ heap'[Ptr_Glob].Ptr_Comp = Next_Ptr_Glob
      /\ heap'[Ptr_Glob].Discr = 0 /\ heap'[Ptr_Glob].Enum_Comp = 2
      /\ heap'[Ptr_Glob].Str_Comp = "SOME"
  BY <1>3 DEF Begin, Record, Pointer, Ptr_Glob, Next_Ptr_Glob,
              Strings, Ident_1, Ident_3
<1>5. Arr_2_Glob' \in [Index \X Index -> Int] /\ Arr_2_Glob'[<<8, 7>>] = 10
  BY <1>3 DEF Begin, Index
<1>6. DhryTypeOK'
  BY <1>1, <1>2, <1>4, <1>5 DEF BenchInv, DhryTypeOK, Begin, locals, times
<1>7. Turn' /\ Count' /\ Time'
  BY <1>1, <1>2, <1>4, <1>5 DEF Turn, Count, Over, Time, MeasuredTrue
<1> QED  BY <1>6, <1>7 DEF BenchInv

LEMMA StartingPass ==
  ASSUME BenchInv, StartPass
  PROVE  BenchInv'
<1>1. /\ pc = "trying" /\ pc' = "for" /\ mcycle' \in 0 .. 2 * HALF - 1 /\ t0' = mcycle'
      /\ Run_Index' = 1 /\ Number_Of_Runs' = Number_Of_Runs /\ turns' = turns
      /\ UNCHANGED <<globals, locals, User_Time, elapsed>>
  BY DEF StartPass, Goes
<1>2. NUMBER_OF_RUNS \in Nat \ {0} /\ Number_Of_Runs \in Nat /\ turns \in Nat
  BY Parameters DEF BenchInv, DhryTypeOK
<1>3. DhryTypeOK'
  BY <1>1, <1>2 DEF BenchInv, DhryTypeOK, globals, locals
<1>4. Turn'
  BY <1>1 DEF BenchInv, Turn, globals, locals, Letters, Chosen, Numbers
<1>5. Count' /\ Time'
  BY <1>1, <1>2 DEF BenchInv, Count, Over, Time, MeasuredTrue, globals
<1> QED  BY <1>3, <1>4, <1>5 DEF BenchInv

LEMMA StoppingPass ==
  ASSUME BenchInv, StopPass
  PROVE  BenchInv'
<1>1. /\ pc = "for" /\ Run_Index = Number_Of_Runs + 1 /\ t0 = mcycle
      /\ NUMBER_OF_RUNS \in Nat \ {0} /\ Number_Of_Runs \in Nat /\ turns \in Nat
      /\ Number_Of_Runs >= NUMBER_OF_RUNS
      /\ 9 * (turns - Number_Of_Runs) = Number_Of_Runs - NUMBER_OF_RUNS
      /\ Arr_2_Glob[<<8, 7>>] = 10 + turns
  <2>1. /\ pc = "for" /\ Run_Index = Number_Of_Runs + 1
        /\ NUMBER_OF_RUNS \in Nat \ {0} /\ Number_Of_Runs \in Nat /\ turns \in Nat
    BY Parameters DEF BenchInv, DhryTypeOK, StopPass
  <2>2. /\ t0 = mcycle /\ Number_Of_Runs >= NUMBER_OF_RUNS
        /\ Arr_2_Glob[<<8, 7>>] = 10 + turns
        /\ 9 * (turns - Run_Index + 1) = Number_Of_Runs - NUMBER_OF_RUNS
    BY <2>1 DEF BenchInv, Count, Over, Time
  <2>3. turns - Run_Index + 1 = turns - Number_Of_Runs
    BY <2>1
  <2> QED  BY <2>1, <2>2, <2>3
<1>2. turns > 0
  BY <1>1
<1>3. /\ UNCHANGED <<globals, locals, Run_Index, turns, t0>>
      /\ \/ pc' = "trying" /\ Number_Of_Runs' = 10 * Number_Of_Runs
         \/ pc' = "report" /\ Number_Of_Runs' = Number_Of_Runs
  BY DEF StopPass
<1>4. PICK e \in Elapsed :
        /\ elapsed' = e /\ mcycle' = (mcycle + e) % (2 * HALF)
        /\ User_Time' = Signed(mcycle' - t0)
  BY DEF StopPass
<1>5. e \in Nat /\ mcycle \in 0 .. 2 * HALF - 1 /\ HALF \in Nat \ {0}
  BY Parameters DEF BenchInv, DhryTypeOK
<1>6. mcycle' \in 0 .. 2 * HALF - 1
  BY <1>4, <1>5, Modulo
<1>7. User_Time' \in -HALF .. HALF - 1 /\ (e < HALF => User_Time' = e)
  BY <1>1, <1>4, <1>5, Difference
<1>8. DhryTypeOK'
  BY <1>1, <1>3, <1>4, <1>5, <1>6, <1>7 DEF BenchInv, DhryTypeOK, globals, locals
<1>9. Turn'
  BY <1>1, <1>2, <1>3 DEF BenchInv, Turn, globals, locals, Letters, Chosen, Numbers
<1>10. Count'
  BY <1>1, <1>3 DEF Count, Over, globals
<1>11. Time'
  BY <1>3, <1>4, <1>7 DEF Time, MeasuredTrue
<1> QED  BY <1>8, <1>9, <1>10, <1>11 DEF BenchInv

(* The steps of a turn up to Proc_8.                                       *)
LEMMA HeadOfTurn ==
  ASSUME BenchInv, Proc_5 \/ Proc_4 \/ CallFunc_2
  PROVE  BenchInv'
<1>1. /\ UNCHANGED <<heap, Arr_1_Glob, Arr_2_Glob, Int_3_Loc, Ch_Index, counts, times>>
      /\ pc \in {"for", "Proc_4", "Func_2"} /\ pc' \in {"Proc_4", "Func_2", "while"}
      /\ pc = "for" => Run_Index <= Number_Of_Runs
  BY DEF Proc_5, Proc_4, CallFunc_2, Goes, locals
<1>2. NUMBER_OF_RUNS \in Nat \ {0} /\ Number_Of_Runs \in Nat /\ turns \in Nat
  BY Parameters DEF BenchInv, DhryTypeOK
<1>3. Count' /\ Time'
  BY <1>1, <1>2 DEF BenchInv, Count, Over, Time, MeasuredTrue, counts, times
<1>4. CASE Proc_5
  <2>1. Bool_Glob' \in BOOLEAN
    BY <1>4, Zenon DEF Proc_5
  <2>2. DhryTypeOK' /\ Turn'
    BY <1>1, <1>4, <2>1 DEF Proc_5, Goes, BenchInv, DhryTypeOK, Turn,
                        locals, counts, times
  <2> QED  BY <1>3, <2>2 DEF BenchInv
<1>5. CASE Proc_4
  <2>1. pc = "Proc_4" /\ Ch_1_Glob = 1 /\ Bool_Glob' /\ Bool_Glob' \in BOOLEAN
    BY <1>5 DEF Proc_4, Goes, BenchInv, Turn
  <2>2. DhryTypeOK'
    BY <1>1, <1>5, <2>1 DEF Proc_4, Goes, BenchInv, DhryTypeOK, locals,
                        counts, times
  <2>3. Turn'
    BY <1>1, <1>5, <2>1 DEF Proc_4, Goes, BenchInv, Turn, Letters
  <2> QED  BY <1>3, <2>2, <2>3 DEF BenchInv
<1>6. CASE CallFunc_2
  <2>1. Order("1'ST") = 1 /\ Order("2'ND") = 2
    BY DEF Order
  <2>2. ~Func_2("1'ST", "2'ND")
    BY <2>1 DEF Func_2, strcmp
  <2>3. /\ pc = "Func_2" /\ pc' = "while" /\ Letters /\ Int_1_Loc' = 2 /\ Int_2_Loc' = 3
        /\ Str_2_Loc' = "2'ND" /\ Enum_Loc' = 1 /\ Int_Glob' = Int_Glob
        /\ UNCHANGED <<Ch_1_Glob, Ch_2_Glob>>
    BY <1>6, <2>2 DEF CallFunc_2, Goes, BenchInv, Turn,
                      Int_Glob_after_Func_2, Ident_2
  <2>4. Bool_Glob' /\ Bool_Glob' \in BOOLEAN
    BY <1>6, <2>2 DEF CallFunc_2
  <2>5. DhryTypeOK'
    BY <1>1, <2>3, <2>4 DEF BenchInv, DhryTypeOK, Strings, counts, times
  <2>6. Turn'
    BY <1>1, <2>3, <2>4 DEF BenchInv, Turn, Letters, Chosen
  <2> QED  BY <1>3, <2>5, <2>6 DEF BenchInv
<1> QED  BY <1>4, <1>5, <1>6

LEMMA WhileLoop ==
  ASSUME BenchInv, CallProc_7
  PROVE  BenchInv'
<1>1. /\ pc = "while" /\ pc' = "while" /\ Int_1_Loc = 2 /\ Int_2_Loc = 3
      /\ Int_1_Loc' = 3 /\ Int_3_Loc' = 7
      /\ UNCHANGED <<globals, Int_2_Loc, Enum_Loc, Str_2_Loc, Ch_Index, counts, times>>
  BY DEF CallProc_7, Goes, BenchInv, Turn, Proc_7
<1>2. DhryTypeOK'
  BY <1>1 DEF BenchInv, DhryTypeOK, globals, counts, times
<1>3. Turn' /\ Count' /\ Time'
  BY <1>1 DEF BenchInv, Turn, Count, Over, Time, MeasuredTrue, Letters, Chosen,
              globals, counts, times
<1> QED  BY <1>2, <1>3 DEF BenchInv

LEMMA Arrays ==
  ASSUME BenchInv, Proc_8
  PROVE  BenchInv'
<1>1. /\ pc = "while" /\ pc' = "Proc_1" /\ Int_1_Loc = 3 /\ Int_2_Loc = 3 /\ Int_3_Loc = 7
      /\ Int_Glob' = 5 /\ turns' = turns + 1 /\ Letters /\ Chosen
      /\ UNCHANGED <<heap, Bool_Glob, Ch_1_Glob, Ch_2_Glob, locals, Run_Index,
                     Number_Of_Runs, times>>
  BY DEF Proc_8, Goes, BenchInv, Turn
<1>2. /\ Arr_1_Glob \in [Index -> Int]
      /\ Arr_2_Glob \in [Index \X Index -> Int]
      /\ turns \in Nat /\ Run_Index \in Nat /\ Number_Of_Runs \in Nat
      /\ NUMBER_OF_RUNS \in Nat
  BY Parameters DEF BenchInv, DhryTypeOK
<1>3. Arr_1_Glob' \in [Index -> Int] /\ Arr_1_Glob'[8] = 7
  BY <1>1, <1>2 DEF Proc_8, Proc_8_first, Index
<1>4. Arr_2_Glob' \in [Index \X Index -> Int] /\ Arr_2_Glob'[<<8, 7>>] = Arr_2_Glob[<<8, 7>>] + 1
  <2> DEFINE row == [c \in Index \X Index |->
                       IF c[1] = 8 /\ c[2] \in {8, 9} THEN 8 ELSE Arr_2_Glob[c]]
  <2>1. row \in [Index \X Index -> Int]
    BY <1>2
  <2>2. <<8, 7>> \in Index \X Index /\ <<28, 8>> \in Index \X Index
    BY DEF Index
  <2>3. row[<<8, 7>>] = Arr_2_Glob[<<8, 7>>]
    BY <2>2
  <2>4. Arr_2_Glob' = [row EXCEPT ![<<8, 7>>] = @ + 1, ![<<28, 8>>] = 7]
    BY <1>1 DEF Proc_8, Proc_8_second
  <2> HIDE DEF row
  <2>5. Arr_2_Glob' \in [Index \X Index -> Int]
    BY <2>1, <2>2, <2>4
  <2>6. Arr_2_Glob'[<<8, 7>>] = row[<<8, 7>>] + 1
    BY <2>1, <2>2, <2>4
  <2> QED  BY <2>3, <2>5, <2>6
<1>5. DhryTypeOK'
  BY <1>1, <1>2, <1>3, <1>4 DEF BenchInv, DhryTypeOK, locals, times
<1>6. Turn'
  BY <1>1, <1>3 DEF BenchInv, Turn, Letters, Chosen, Numbers, locals
<1>7. Count' /\ Time'
  BY <1>1, <1>2, <1>4 DEF BenchInv, Count, Over, Time, MeasuredTrue, times
<1> QED  BY <1>5, <1>6, <1>7 DEF BenchInv

(* The steps of a turn from Proc_1 on.                                     *)
LEMMA FinalHeapType == FinalHeap \in [Pointer -> Record]
  BY DEF FinalHeap, Pointer, Record, Strings

LEMMA PointersFollowed ==
  ASSUME BenchInv, CallProc_1
  PROVE  BenchInv'
<1>1. /\ pc = "Proc_1" /\ pc' = "letters" /\ heap' = FinalHeap /\ Ch_Index' = 1
      /\ UNCHANGED <<Int_Glob, Bool_Glob, Ch_1_Glob, Ch_2_Glob, Arr_1_Glob, Arr_2_Glob,
                     Int_1_Loc, Int_2_Loc, Int_3_Loc, Enum_Loc, Str_2_Loc, counts, times>>
  BY Records DEF CallProc_1, Goes, BenchInv
<1>2. DhryTypeOK'
  BY <1>1, FinalHeapType DEF BenchInv, DhryTypeOK, counts, times
<1>3. Turn'
  BY <1>1 DEF BenchInv, Turn, Letters, Chosen, Numbers, FinalHeap, Pointer,
              Ptr_Glob, Next_Ptr_Glob
<1>4. Count' /\ Time'
  BY <1>1 DEF BenchInv, Count, Over, Time, MeasuredTrue, counts, times
<1> QED  BY <1>2, <1>3, <1>4 DEF BenchInv

LEMMA LettersCompared ==
  ASSUME BenchInv, Letter
  PROVE  BenchInv'
<1>1. pc = "letters" /\ pc' = "letters" /\ Ch_Index \in 1 .. 2 /\ Ch_Index' = Ch_Index + 1
  BY DEF Letter, Goes, BenchInv, Turn, Letters
<1>2. Func_1(Ch_Index, 3) = 0 /\ Ch_1_Glob' = Ch_1_Glob
  BY <1>1 DEF Letter, Func_1, Ch_1_Glob_after_Func_1, Ident_1
<1>3. /\ UNCHANGED <<Enum_Loc, Str_2_Loc, Int_2_Loc, Int_Glob>>
      /\ UNCHANGED <<heap, Bool_Glob, Ch_2_Glob, Arr_1_Glob, Arr_2_Glob,
                     Int_1_Loc, Int_3_Loc, counts, times>>
  BY <1>1, <1>2 DEF Letter, BenchInv, Turn, Chosen
<1>4. DhryTypeOK'
  BY <1>1, <1>2, <1>3 DEF BenchInv, DhryTypeOK, counts, times
<1>5. Turn' /\ Count' /\ Time'
  BY <1>1, <1>2, <1>3 DEF BenchInv, Turn, Count, Over, Time, MeasuredTrue, Letters,
                        Chosen, Numbers, counts, times
<1> QED  BY <1>4, <1>5 DEF BenchInv

LEMMA NumbersMixed ==
  ASSUME BenchInv, Arithmetic
  PROVE  BenchInv'
<1>1. /\ pc = "letters" /\ pc' = "Proc_2" /\ Int_1_Loc' = 1 /\ Int_2_Loc' = 13
      /\ UNCHANGED <<globals, Int_3_Loc, Enum_Loc, Str_2_Loc, Ch_Index, counts, times>>
  BY DEF Arithmetic, Goes, BenchInv, Turn, Numbers
<1>2. DhryTypeOK'
  BY <1>1 DEF BenchInv, DhryTypeOK, globals, counts, times
<1>3. Turn' /\ Count' /\ Time'
  BY <1>1 DEF BenchInv, Turn, Count, Over, Time, MeasuredTrue, Letters, Chosen,
              Numbers, globals, counts, times
<1> QED  BY <1>2, <1>3 DEF BenchInv

LEMMA EndOfTurn ==
  ASSUME BenchInv, CallProc_2
  PROVE  BenchInv'
<1>1. /\ pc = "Proc_2" /\ pc' = "for" /\ Int_1_Loc' = 5 /\ Run_Index' = Run_Index + 1
      /\ UNCHANGED <<globals, Int_2_Loc, Int_3_Loc, Enum_Loc, Str_2_Loc, Ch_Index,
                     Number_Of_Runs, turns, times>>
  BY DEF CallProc_2, Goes, BenchInv, Turn, Numbers, Proc_2
<1>2. /\ Run_Index \in 1 .. Number_Of_Runs /\ Number_Of_Runs \in Nat /\ turns \in Nat
      /\ NUMBER_OF_RUNS \in Nat
  BY <1>1, Parameters DEF BenchInv, DhryTypeOK, Count
<1>3. DhryTypeOK'
  BY <1>1, <1>2 DEF BenchInv, DhryTypeOK, globals, times
<1>4. Turn'
  BY <1>1 DEF BenchInv, Turn, Letters, Chosen, Numbers, globals
<1>5. Count' /\ Time'
  BY <1>1, <1>2 DEF BenchInv, Count, Over, Time, MeasuredTrue, globals, times
<1> QED  BY <1>3, <1>4, <1>5 DEF BenchInv

LEMMA Reporting ==
  ASSUME BenchInv, Report
  PROVE  BenchInv'
<1>1. pc' = "returned" /\ UNCHANGED <<globals, locals, counts, times>>
  BY DEF Report, Goes
<1>2. pc = "report"
  BY DEF Report, Goes
<1>3. DhryTypeOK'
  BY <1>1 DEF BenchInv, DhryTypeOK, globals, locals, counts, times
<1>4. Turn' /\ Count' /\ Time'
  BY <1>1, <1>2 DEF BenchInv, Turn, Count, Over, Time, MeasuredTrue, globals,
                    counts, times
<1> QED  BY <1>3, <1>4 DEF BenchInv

(* Every step keeps the invariant.                                         *)
LEMMA BenchStep ==
  ASSUME BenchInv, [DhryNext]_dhryVars
  PROVE  BenchInv'
<1>1. CASE UNCHANGED dhryVars
  BY <1>1 DEF dhryVars, globals, locals, counts, times, BenchInv,
              DhryTypeOK, Turn, Count, Over, Time, MeasuredTrue, Letters, Chosen,
              Numbers
<1> QED  BY <1>1, BenchStarting, StartingPass, HeadOfTurn, WhileLoop, Arrays,
            PointersFollowed,
            LettersCompared, NumbersMixed, EndOfTurn, StoppingPass, Reporting
         DEF DhryNext, Finished

LEMMA BenchInvariant == DhrySpec => []BenchInv
<1>1. DhryInit => BenchInv
  BY BenchInitially
<1>2. BenchInv /\ [DhryNext]_dhryVars => BenchInv'
  BY BenchStep
<1> QED  BY <1>1, <1>2, PTL DEF DhrySpec

(* Every variable keeps its type: the loop runs no further than one turn   *)
(* past the length of the pass, and the time stays a signed word.          *)
THEOREM BenchTypeCorrect == DhrySpec => []DhryTypeOK
<1>1. BenchInv => DhryTypeOK
  BY DEF BenchInv
<1> QED  BY <1>1, BenchInvariant, PTL

(* Whatever the length and number of the passes, and whatever the memory   *)
(* held before, main prints the values that "should be".                   *)
THEOREM ValuesAsPrinted == DhrySpec => []FinalValues
<1>1. ASSUME BenchInv, pc = "report" PROVE turns > 0
  BY <1>1, Parameters DEF BenchInv, Count, Over, DhryTypeOK
<1>2. BenchInv => FinalValues
  BY <1>1 DEF BenchInv, Turn, Letters, Chosen, Numbers, FinalHeap, FinalValues,
              Pointer, Ptr_Glob, Next_Ptr_Glob
<1> QED  BY <1>2, BenchInvariant, PTL

(* For every NUMBER_OF_RUNS, Arr_2_Glob[8][7] counts the turns of all the  *)
(* passes, and they are as many as passes of tenfold length have.          *)
THEOREM TurnsCounted == DhrySpec => []AllTurnsCounted
<1>1. BenchInv => AllTurnsCounted
  BY Parameters DEF BenchInv, Count, Over, DhryTypeOK, AllTurnsCounted
<1> QED  BY <1>1, BenchInvariant, PTL

(* For every word length, a pass is measured truly when it takes less than *)
(* half of the counter's range, wherever the counter began.                *)
THEOREM TimeTrue == DhrySpec => []MeasuredTrue
<1>1. BenchInv => MeasuredTrue
  BY DEF BenchInv, Time
<1> QED  BY <1>1, BenchInvariant, PTL

-----------------------------------------------------------------------------
(***************************************************************************)
(* The file system test.  The script is a fixed list of 65 calls, so the   *)
(* invariant can say of every place in it what the test has made and       *)
(* removed by then (AsMade), and that this is all there is when the card   *)
(* held no directory of the test (AsPlanned).  A directory an earlier run  *)
(* left behind is met by a call that makes one of that name or misses it,  *)
(* and that answer is counted (Unmet); so is every call that fails         *)
(* (Counted): a count of zero leaves no room for either.                   *)
(***************************************************************************)

(* The calls before which a name is on the volume, in a run whose every    *)
(* call works on a volume that had no such name; 66 is the end.            *)
Names == DirNames \union FileNames
Lives(p) ==
  CASE p = g_testfilel -> 2 .. 3
    [] p = g_testdir1  -> 5 .. 32
    [] p = g_testfile1 -> 9 .. 22
    [] p = g_testfile2 -> 15 .. 28
    [] p = g_testdir2  -> 36 .. 66
    [] p = g_testfile3 -> 42 .. 60
    [] p = g_testdir3  -> 48 .. 54
    [] p = g_testdir4  -> 55 .. 66
    [] p = g_testfile4 -> 61 .. 66
Present(k) == {p \in Names : k \in Lives(p)}

(* What the test removes, and the call that has done so.                   *)
Leaves(p) ==
  CASE p = g_testfilel -> 3 [] p = g_testdir1 -> 32 [] p = g_testfile1 -> 22
    [] p = g_testfile2 -> 28
Gone(k) == {p \in {g_testfilel, g_testdir1, g_testfile1, g_testfile2} :
              Leaves(p) < k}

(* The call that meets a directory that was there before the run.          *)
Meets(d) ==
  CASE d = g_testdir1 -> 4 [] d = g_testdir2 -> 35 [] d = g_testdir3 -> 47
    [] d = g_testdir4 -> 52

(* The only name of a file that a directory gets is that of the second     *)
(* file, when its directory is there.                                      *)
Volume == dirs \union files
OddName == g_testfile2
CardOK ==
  /\ dirs \subseteq DirNames \union {OddName} /\ files \subseteq FileNames
  /\ dirs \cap files = {}
  /\ \A p \in Volume : HasDir(p)
FoundOK ==
  /\ found \subseteq DirNames \union {OddName}
  /\ OddName \in found => g_testdir1 \in found

(* What the test makes is there from its call on, and what it removes is   *)
(* gone, whatever an earlier run left.                                     *)
Worked == next > 0 /\ faults = 0
Known  == OddName \notin found
Made(k) == OddName \notin dirs /\ Present(k) \subseteq Volume /\ Gone(k) \cap Volume = {}
AsMade  == Worked /\ Known => Made(next)

(* On a volume without a directory of the test the calls leave nothing     *)
(* else, and no answer is wrong.                                           *)
Fresh == before = 0 /\ found \cap DirNames = {}
Plan(k) == Volume \subseteq (IF k = 1 THEN {g_testfilel} ELSE Present(k))
AsPlanned == Worked /\ Fresh => g_nerrors = 0 /\ Plan(next)

(* While no answer was wrong no call has failed, and a directory that was  *)
(* there has yet to be met.                                                *)
Counted == next > 0 => g_nerrors >= before + faults
Unmet ==
  next > 0 /\ g_nerrors = 0 =>
    \A d \in found \cap DirNames : d \in dirs /\ next <= Meets(d)

MountInv ==
  /\ MountTypeOK /\ CardOK /\ FoundOK /\ AsMade /\ AsPlanned /\ Counted /\ Unmet
  /\ ZeroMeansSound /\ CleansUp

(* What the proof has to know of call k of the script.                     *)
Same(k)    == Present(k + 1) = Present(k) /\ Gone(k + 1) = Gone(k)
MeetsNo(k) == \A d \in DirNames : Meets(d) # k
Quiet(k)   == Same(k) /\ MeetsNo(k)
Adds(k, p) == /\ p \notin Present(k) \union Gone(k) /\ Present(k + 1) = Present(k) \union {p}
              /\ Gone(k + 1) = Gone(k)
Drops(k, p) == /\ p \in Present(k) /\ Present(k + 1) = Present(k) \ {p}
               /\ Gone(k + 1) = Gone(k) \union {p}
Moves(k, p, q) == /\ p \in Present(k) \ Gone(k) /\ q \notin Present(k) \union Gone(k)
                  /\ Present(k + 1) = (Present(k) \ {p}) \union {q}
                  /\ Gone(k + 1) = Gone(k)
Fits(k, s) ==
  \/ s.call \in {"show_directories", "show_statfs"} /\ Quiet(k)
  \/ s.call \in {"succeed_stat"} /\ Quiet(k) /\ s.path \in Present(k)
  \/ s.call = "read_test_file" /\ Quiet(k) /\ s.path \in FileNames \cap Present(k)
  \/ s.call \in {"fail_stat", "fail_read_open"} /\ Quiet(k) /\ k > 1 /\ s.errno = "ENOENT"
     /\ s.path \in Names \ Present(k)
  \/ s.call = "fail_mkdir" /\ Quiet(k) /\ s.errno = "EEXIST"
     /\ s.path \in (DirNames \union {OddName}) \cap Present(k)
  \/ s.call = "fail_unlink" /\ Quiet(k) /\ s.errno = "EISDIR"
     /\ s.path \in DirNames \cap Present(k)
  \/ s.call = "fail_rmdir" /\ Quiet(k) /\ s.errno = "ENOTDIR"
     /\ s.path \in FileNames \cap Present(k)
  \/ s.call = "fail_rmdir" /\ Quiet(k) /\ s.errno = "ENOTEMPTY"
     /\ s.path \in DirNames \cap Present(k)
     /\ Inside(s.path) \cap Present(k) # {} /\ Meets(s.path) < k
  \/ s.call = "fail_rename" /\ Quiet(k) /\ s.errno = "EXDEV"
     /\ s.path = g_mntdir /\ s.new \in DirNames
  \/ s.call = "fail_rename" /\ Same(k) /\ k > 1 /\ s.errno = "ENOENT"
     /\ s.path \in DirNames \ Present(k) /\ s.new \in DirNames \cap Present(k)
     /\ s.path # s.new
     /\ Inside(s.path) \cap (Present(k) \union Gone(k)) = {}
     /\ \A d \in DirNames : Meets(d) = k <=> d = s.path
  \/ s.call = "write_test_file" /\ MeetsNo(k) /\ Adds(k, s.path) /\ s.path \in FileNames
     /\ DirOf[s.path] \in Present(k) \union {g_target}
     /\ (k = 1 <=> s.path = g_testfilel)
  \/ s.call = "succeed_mkdir" /\ k > 1 /\ Adds(k, s.path) /\ s.path \in DirNames
     /\ \A d \in DirNames : Meets(d) = k <=> d = s.path
  \/ s.call = "succeed_unlink" /\ MeetsNo(k) /\ Drops(k, s.path) /\ s.path \in FileNames
  \/ s.call = "succeed_rmdir" /\ MeetsNo(k) /\ Drops(k, s.path) /\ s.path \in DirNames
     /\ Meets(s.path) < k /\ Inside(s.path) \subseteq Gone(k) \ Present(k)
  \/ s.call = "succeed_rename" /\ MeetsNo(k) /\ k > 1 /\ Moves(k, s.path, s.new)
     /\ Inside(s.path) = {}
     /\ \/ s.path \in DirNames /\ s.new \in DirNames /\ Meets(s.path) < k
        \/ s.path \in FileNames /\ s.new \in FileNames /\ DirOf[s.new] \in Present(k)
           /\ s.path # OddName /\ s.new # OddName

LEMMA CallsScratch ==
  /\ Script[1] = [call |-> "write_test_file", path |-> g_testfilel]
  /\ Script[2] = [call |-> "read_test_file", path |-> g_testfilel]
  /\ Script[3] = [call |-> "succeed_unlink", path |-> g_testfilel]
  BY SMTT(60) DEF Script, ScratchFile, TestDirFilled, TestDirEmptied,
                  NewDirsMade, Renamed, Moved, Step, Seen, Wrong,
                  Shown

LEMMA CallsFilling ==
  /\ Script[4] = [call |-> "succeed_mkdir", path |-> g_testdir1]
  /\ Script[5] = [call |-> "show_directories", path |-> g_mntdir]
  /\ Script[6] = [call |-> "succeed_stat", path |-> g_testdir1]
  /\ Script[7] = [call |-> "show_statfs", path |-> g_testdir1]
  /\ Script[8] = [call |-> "write_test_file", path |-> g_testfile1]
  /\ Script[9] = [call |-> "show_directories", path |-> g_mntdir]
  /\ Script[10] = [call |-> "succeed_stat", path |-> g_testfile1]
  /\ Script[11] = [call |-> "show_statfs", path |-> g_testfile1]
  /\ Script[12] = [call |-> "read_test_file", path |-> g_testfile1]
  BY SMTT(60) DEF Script, ScratchFile, TestDirFilled, TestDirEmptied,
                  NewDirsMade, Renamed, Moved, Step, Seen, Wrong,
                  Shown

LEMMA CallsFilled ==
  /\ Script[13] = [call |-> "fail_stat", path |-> g_testfile2, errno |-> "ENOENT"]
  /\ Script[14] = [call |-> "write_test_file", path |-> g_testfile2]
  /\ Script[15] = [call |-> "show_directories", path |-> g_mntdir]
  /\ Script[16] = [call |-> "succeed_stat", path |-> g_testfile2]
  /\ Script[17] = [call |-> "show_statfs", path |-> g_testfile2]
  /\ Script[18] = [call |-> "read_test_file", path |-> g_testfile2]
  BY SMTT(60) DEF Script, ScratchFile, TestDirFilled, TestDirEmptied,
                  NewDirsMade, Renamed, Moved, Step, Seen, Wrong,
                  Shown

LEMMA CallsEmptying ==
  /\ Script[19] = [call |-> "fail_rmdir", path |-> g_testfile1, errno |-> "ENOTDIR"]
  /\ Script[20] = [call |-> "fail_rmdir", path |-> g_testdir1, errno |-> "ENOTEMPTY"]
  /\ Script[21] = [call |-> "fail_unlink", path |-> g_testdir1, errno |-> "EISDIR"]
  /\ Script[22] = [call |-> "succeed_unlink", path |-> g_testfile1]
  /\ Script[23] = [call |-> "fail_stat", path |-> g_testfile1, errno |-> "ENOENT"]
  /\ Script[24] = [call |-> "show_directories", path |-> g_mntdir]
  /\ Script[25] = [call |-> "fail_read_open", path |-> g_testfile1, errno |-> "ENOENT"]
  /\ Script[26] = [call |-> "fail_rmdir", path |-> g_testdir1, errno |-> "ENOTEMPTY"]
  BY SMTT(60) DEF Script, ScratchFile, TestDirFilled, TestDirEmptied,
                  NewDirsMade, Renamed, Moved, Step, Seen, Wrong,
                  Shown

LEMMA CallsEmptied ==
  /\ Script[27] = [call |-> "fail_mkdir", path |-> g_testfile2, errno |-> "EEXIST"]
  /\ Script[28] = [call |-> "succeed_unlink", path |-> g_testfile2]
  /\ Script[29] = [call |-> "show_directories", path |-> g_mntdir]
  /\ Script[30] = [call |-> "fail_stat", path |-> g_testfile2, errno |-> "ENOENT"]
  /\ Script[31] = [call |-> "fail_mkdir", path |-> g_testdir1, errno |-> "EEXIST"]
  /\ Script[32] = [call |-> "succeed_rmdir", path |-> g_testdir1]
  /\ Script[33] = [call |-> "show_directories", path |-> g_mntdir]
  /\ Script[34] = [call |-> "fail_stat", path |-> g_testdir1, errno |-> "ENOENT"]
  BY SMTT(60) DEF Script, ScratchFile, TestDirFilled, TestDirEmptied,
                  NewDirsMade, Renamed, Moved, Step, Seen, Wrong,
                  Shown

LEMMA CallsMade ==
  /\ Script[35] = [call |-> "succeed_mkdir", path |-> g_testdir2]
  /\ Script[36] = [call |-> "show_directories", path |-> g_mntdir]
  /\ Script[37] = [call |-> "succeed_stat", path |-> g_testdir2]
  /\ Script[38] = [call |-> "show_statfs", path |-> g_testdir2]
  /\ Script[39] = [call |-> "fail_mkdir", path |-> g_testdir2, errno |-> "EEXIST"]
  /\ Script[40] = [call |-> "fail_stat", path |-> g_testfile3, errno |-> "ENOENT"]
  /\ Script[41] = [call |-> "write_test_file", path |-> g_testfile3]
  /\ Script[42] = [call |-> "show_directories", path |-> g_mntdir]
  /\ Script[43] = [call |-> "succeed_stat", path |-> g_testfile3]
  /\ Script[44] = [call |-> "show_statfs", path |-> g_testfile3]
  BY SMTT(60) DEF Script, ScratchFile, TestDirFilled, TestDirEmptied,
                  NewDirsMade, Renamed, Moved, Step, Seen, Wrong,
                  Shown

LEMMA CallsRenaming ==
  /\ Script[45] = [call |-> "read_test_file", path |-> g_testfile3]
  /\ Script[46] = [call |-> "fail_stat", path |-> g_testdir3, errno |-> "ENOENT"]
  /\ Script[47] = [call |-> "succeed_mkdir", path |-> g_testdir3]
  /\ Script[48] = [call |-> "show_directories", path |-> g_mntdir]
  /\ Script[49] = [call |-> "succeed_stat", path |-> g_testdir3]
  /\ Script[50] = [call |-> "show_statfs", path |-> g_testdir3]
  /\ Script[51] = [call |-> "fail_rename", path |-> g_mntdir, new |-> g_testdir4, errno |-> "EXDEV"]
  /\ Script[52] = [call |-> "fail_rename", path |-> g_testdir4, new |-> g_testdir3, errno |-> "ENOENT"]
  /\ Script[53] = [call |-> "fail_stat", path |-> g_testdir4, errno |-> "ENOENT"]
  /\ Script[54] = [call |-> "succeed_rename", path |-> g_testdir3, new |-> g_testdir4]
  /\ Script[55] = [call |-> "show_directories", path |-> g_mntdir]
  BY SMTT(60) DEF Script, ScratchFile, TestDirFilled, TestDirEmptied,
                  NewDirsMade, Renamed, Moved, Step, Seen, Wrong,
                  Shown

LEMMA CallsRenamed ==
  /\ Script[56] = [call |-> "fail_stat", path |-> g_testdir3, errno |-> "ENOENT"]
  /\ Script[57] = [call |-> "succeed_stat", path |-> g_testdir4]
  /\ Script[58] = [call |-> "show_statfs", path |-> g_testdir4]
  /\ Script[59] = [call |-> "fail_stat", path |-> g_testfile4, errno |-> "ENOENT"]
  /\ Script[60] = [call |-> "succeed_rename", path |-> g_testfile3, new |-> g_testfile4]
  /\ Script[61] = [call |-> "show_directories", path |-> g_mntdir]
  /\ Script[62] = [call |-> "fail_stat", path |-> g_testfile3, errno |-> "ENOENT"]
  /\ Script[63] = [call |-> "succeed_stat", path |-> g_testfile4]
  /\ Script[64] = [call |-> "show_statfs", path |-> g_testfile4]
  /\ Script[65] = [call |-> "read_test_file", path |-> g_testfile4]
  BY SMTT(60) DEF Script, ScratchFile, TestDirFilled, TestDirEmptied,
                  NewDirsMade, Renamed, Moved, Step, Seen, Wrong,
                  Shown

LEMMA ScriptLength == Len(Script) = 65
  BY SMTT(60) DEF Script, ScratchFile, TestDirFilled, TestDirEmptied,
                  NewDirsMade, Renamed, Moved, Step, Seen, Wrong,
                  Shown


(* The names are eleven different ones, and every one has its directory.   *)
LEMMA NamesDiffer ==
  /\ DirNames = {g_testdir1, g_testdir2, g_testdir3, g_testdir4}
  /\ FileNames = {g_testfile1, g_testfile2, g_testfile3, g_testfile4, g_testfilel}
  /\ DirNames \cap FileNames = {} /\ {g_target, g_mntdir} \cap Names = {}
  /\ g_target # g_mntdir
  BY DEF DirNames, FileNames, Names, g_target, g_mntdir, g_testdir1,
         g_testdir2, g_testdir3, g_testdir4, g_testfile1, g_testfile2,
         g_testfile3, g_testfile4, g_testfilel

LEMMA Lifetimes ==
  /\ Lives(g_testfilel) = 2 .. 3   /\ Lives(g_testdir1) = 5 .. 32
  /\ Lives(g_testfile1) = 9 .. 22  /\ Lives(g_testfile2) = 15 .. 28
  /\ Lives(g_testdir2) = 36 .. 66  /\ Lives(g_testfile3) = 42 .. 60
  /\ Lives(g_testdir3) = 48 .. 54  /\ Lives(g_testdir4) = 55 .. 66
  /\ Lives(g_testfile4) = 61 .. 66
  BY DEF Lives, g_testdir1, g_testdir2, g_testdir3, g_testdir4,
         g_testfile1, g_testfile2, g_testfile3, g_testfile4, g_testfilel

LEMMA WhatIsPresent ==
  ASSUME NEW k \in Int, NEW p
  PROVE  p \in Present(k) <=> \/ p = g_testfilel /\ k \in 2 .. 3
                              \/ p = g_testdir1  /\ k \in 5 .. 32
                              \/ p = g_testfile1 /\ k \in 9 .. 22
                              \/ p = g_testfile2 /\ k \in 15 .. 28
                              \/ p = g_testdir2  /\ k \in 36 .. 66
                              \/ p = g_testfile3 /\ k \in 42 .. 60
                              \/ p = g_testdir3  /\ k \in 48 .. 54
                              \/ p = g_testdir4  /\ k \in 55 .. 66
                              \/ p = g_testfile4 /\ k \in 61 .. 66
  BY Lifetimes, NamesDiffer DEF Present, Names

LEMMA WhatIsGone ==
  ASSUME NEW k \in Int, NEW p
  PROVE  p \in Gone(k) <=> \/ p = g_testfilel /\ k > 3
                           \/ p = g_testdir1  /\ k > 32
                           \/ p = g_testfile1 /\ k > 22
                           \/ p = g_testfile2 /\ k > 28
<1>1. /\ Leaves(g_testfilel) = 3 /\ Leaves(g_testdir1) = 32
      /\ Leaves(g_testfile1) = 22 /\ Leaves(g_testfile2) = 28
  BY DEF Leaves, g_testdir1, g_testfile1, g_testfile2, g_testfilel
<1> QED  BY <1>1 DEF Gone

(* The names one by one.                                                   *)
LEMMA EachName ==
  ASSUME NEW k \in Int
  PROVE  /\ (g_testfilel \in Present(k) <=> k \in 2 .. 3)
         /\ (g_testfilel \in Gone(k) <=> k > 3)
         /\ (g_testdir1 \in Present(k) <=> k \in 5 .. 32)
         /\ (g_testdir1 \in Gone(k) <=> k > 32)
         /\ (g_testfile1 \in Present(k) <=> k \in 9 .. 22)
         /\ (g_testfile1 \in Gone(k) <=> k > 22)
         /\ (g_testfile2 \in Present(k) <=> k \in 15 .. 28)
         /\ (g_testfile2 \in Gone(k) <=> k > 28)
         /\ (g_testdir2 \in Present(k) <=> k \in 36 .. 66)
         /\ g_testdir2 \notin Gone(k)
         /\ (g_testfile3 \in Present(k) <=> k \in 42 .. 60)
         /\ g_testfile3 \notin Gone(k)
         /\ (g_testdir3 \in Present(k) <=> k \in 48 .. 54)
         /\ g_testdir3 \notin Gone(k)
         /\ (g_testdir4 \in Present(k) <=> k \in 55 .. 66)
         /\ g_testdir4 \notin Gone(k)
         /\ (g_testfile4 \in Present(k) <=> k \in 61 .. 66)
         /\ g_testfile4 \notin Gone(k)
         /\ Present(k) \subseteq Names /\ Gone(k) \subseteq Names
<1>1. /\ \A p : p \in Present(k) => p \in Names
      /\ \A p : p \in Gone(k) => p \in Names
  BY DEF Present, Gone, Names, DirNames, FileNames
<1>2. /\ (g_testfilel \in Present(k) <=> k \in 2 .. 3)
      /\ (g_testfilel \in Gone(k) <=> k > 3)
      /\ (g_testdir1 \in Present(k) <=> k \in 5 .. 32)
      /\ (g_testdir1 \in Gone(k) <=> k > 32)
      /\ (g_testfile1 \in Present(k) <=> k \in 9 .. 22)
      /\ (g_testfile1 \in Gone(k) <=> k > 22)
      /\ (g_testfile2 \in Present(k) <=> k \in 15 .. 28)
      /\ (g_testfile2 \in Gone(k) <=> k > 28)
  BY WhatIsPresent, WhatIsGone
     DEF g_testdir1, g_testdir2, g_testdir3, g_testdir4, g_testfile1,
          g_testfile2, g_testfile3,
         g_testfile4, g_testfilel
<1>3. /\ (g_testdir2 \in Present(k) <=> k \in 36 .. 66) /\ g_testdir2 \notin Gone(k)
      /\ (g_testfile3 \in Present(k) <=> k \in 42 .. 60) /\ g_testfile3 \notin Gone(k)
      /\ (g_testdir3 \in Present(k) <=> k \in 48 .. 54) /\ g_testdir3 \notin Gone(k)
      /\ (g_testdir4 \in Present(k) <=> k \in 55 .. 66) /\ g_testdir4 \notin Gone(k)
      /\ (g_testfile4 \in Present(k) <=> k \in 61 .. 66) /\ g_testfile4 \notin Gone(k)
  BY WhatIsPresent, WhatIsGone
     DEF g_testdir1, g_testdir2, g_testdir3, g_testdir4, g_testfile1,
          g_testfile2, g_testfile3,
         g_testfile4, g_testfilel
<1> QED  BY <1>1, <1>2, <1>3

LEMMA Turns ==
  ASSUME NEW k \in 1 .. 65, k \notin {1, 3, 4, 8, 14, 22, 28, 32, 35, 41, 47, 54, 60}
  PROVE  Same(k)
<1>1. \A p : (p \in Present(k + 1) <=> p \in Present(k)) /\ (p \in Gone(k + 1) <=> p \in Gone(k))
  BY WhatIsPresent, WhatIsGone
<1> QED  BY <1>1 DEF Same

(* The calls that change what the script has made.                         *)
LEMMA Changes ==
  /\ Adds(1, g_testfilel) /\ Drops(3, g_testfilel) /\ Adds(4, g_testdir1)
  /\ Adds(8, g_testfile1) /\ Adds(14, g_testfile2) /\ Drops(22, g_testfile1)
  /\ Drops(28, g_testfile2) /\ Drops(32, g_testdir1) /\ Adds(35, g_testdir2)
  /\ Adds(41, g_testfile3) /\ Adds(47, g_testdir3)
  /\ Moves(54, g_testdir3, g_testdir4) /\ Moves(60, g_testfile3, g_testfile4)
<1>1. Adds(1, g_testfilel)
  <2>1. \A q : /\ q \in Present(1 + 1) <=> q \in Present(1) \/ q = g_testfilel
               /\ q \in Gone(1 + 1) <=> q \in Gone(1)
    BY WhatIsPresent, WhatIsGone
  <2>2. g_testfilel \notin Present(1) \union Gone(1)
    BY EachName
  <2> QED  BY <2>1, <2>2 DEF Adds
<1>2. Adds(4, g_testdir1)
  <2>1. \A q : /\ q \in Present(4 + 1) <=> q \in Present(4) \/ q = g_testdir1
               /\ q \in Gone(4 + 1) <=> q \in Gone(4)
    BY WhatIsPresent, WhatIsGone
  <2>2. g_testdir1 \notin Present(4) \union Gone(4)
    BY EachName
  <2> QED  BY <2>1, <2>2 DEF Adds
<1>3. Adds(8, g_testfile1)
  <2>1. \A q : /\ q \in Present(8 + 1) <=> q \in Present(8) \/ q = g_testfile1
               /\ q \in Gone(8 + 1) <=> q \in Gone(8)
    BY WhatIsPresent, WhatIsGone
  <2>2. g_testfile1 \notin Present(8) \union Gone(8)
    BY EachName
  <2> QED  BY <2>1, <2>2 DEF Adds
<1>4. Adds(14, g_testfile2)
  <2>1. \A q : /\ q \in Present(14 + 1) <=> q \in Present(14) \/ q = g_testfile2
               /\ q \in Gone(14 + 1) <=> q \in Gone(14)
    BY WhatIsPresent, WhatIsGone
  <2>2. g_testfile2 \notin Present(14) \union Gone(14)
    BY EachName
  <2> QED  BY <2>1, <2>2 DEF Adds
<1>5. Adds(35, g_testdir2)
  <2>1. \A q : /\ q \in Present(35 + 1) <=> q \in Present(35) \/ q = g_testdir2
               /\ q \in Gone(35 + 1) <=> q \in Gone(35)
    BY WhatIsPresent, WhatIsGone
  <2>2. g_testdir2 \notin Present(35) \union Gone(35)
    BY EachName
  <2> QED  BY <2>1, <2>2 DEF Adds
<1>6. Adds(41, g_testfile3)
  <2>1. \A q : /\ q \in Present(41 + 1) <=> q \in Present(41) \/ q = g_testfile3
               /\ q \in Gone(41 + 1) <=> q \in Gone(41)
    BY WhatIsPresent, WhatIsGone
  <2>2. g_testfile3 \notin Present(41) \union Gone(41)
    BY EachName
  <2> QED  BY <2>1, <2>2 DEF Adds
<1>7. Adds(47, g_testdir3)
  <2>1. \A q : /\ q \in Present(47 + 1) <=> q \in Present(47) \/ q = g_testdir3
               /\ q \in Gone(47 + 1) <=> q \in Gone(47)
    BY WhatIsPresent, WhatIsGone
  <2>2. g_testdir3 \notin Present(47) \union Gone(47)
    BY EachName
  <2> QED  BY <2>1, <2>2 DEF Adds
<1>8. Drops(3, g_testfilel)
  <2>1. \A q : /\ q \in Present(3 + 1) <=> q \in Present(3) /\ q # g_testfilel
               /\ q \in Gone(3 + 1) <=> q \in Gone(3) \/ q = g_testfilel
    BY WhatIsPresent, WhatIsGone, EachName
  <2>2. g_testfilel \in Present(3)
    BY EachName
  <2> QED  BY <2>1, <2>2 DEF Drops
<1>9. Drops(22, g_testfile1)
  <2>1. \A q : /\ q \in Present(22 + 1) <=> q \in Present(22) /\ q # g_testfile1
               /\ q \in Gone(22 + 1) <=> q \in Gone(22) \/ q = g_testfile1
    BY WhatIsPresent, WhatIsGone, EachName
  <2>2. g_testfile1 \in Present(22)
    BY EachName
  <2> QED  BY <2>1, <2>2 DEF Drops
<1>10. Drops(28, g_testfile2)
  <2>1. \A q : /\ q \in Present(28 + 1) <=> q \in Present(28) /\ q # g_testfile2
               /\ q \in Gone(28 + 1) <=> q \in Gone(28) \/ q = g_testfile2
    BY WhatIsPresent, WhatIsGone, EachName
  <2>2. g_testfile2 \in Present(28)
    BY EachName
  <2> QED  BY <2>1, <2>2 DEF Drops
<1>11. Drops(32, g_testdir1)
  <2>1. \A q : /\ q \in Present(32 + 1) <=> q \in Present(32) /\ q # g_testdir1
               /\ q \in Gone(32 + 1) <=> q \in Gone(32) \/ q = g_testdir1
    BY WhatIsPresent, WhatIsGone, EachName
  <2>2. g_testdir1 \in Present(32)
    BY EachName
  <2> QED  BY <2>1, <2>2 DEF Drops
<1>12. Moves(54, g_testdir3, g_testdir4)
  <2>1. \A q : /\ q \in Present(54 + 1) <=> (q \in Present(54) /\ q # g_testdir3) \/ q = g_testdir4
               /\ q \in Gone(54 + 1) <=> q \in Gone(54)
    BY WhatIsPresent, WhatIsGone, EachName
  <2>2. g_testdir3 \in Present(54) \ Gone(54) /\ g_testdir4 \notin Present(54) \union Gone(54)
    BY EachName
  <2> QED  BY <2>1, <2>2 DEF Moves
<1>13. Moves(60, g_testfile3, g_testfile4)
  <2>1. \A q : /\ q \in Present(60 + 1) <=> (q \in Present(60) /\ q # g_testfile3) \/ q = g_testfile4
               /\ q \in Gone(60 + 1) <=> q \in Gone(60)
    BY WhatIsPresent, WhatIsGone, EachName
  <2>2. g_testfile3 \in Present(60) \ Gone(60) /\ g_testfile4 \notin Present(60) \union Gone(60)
    BY EachName
  <2> QED  BY <2>1, <2>2 DEF Moves
<1> QED  BY <1>1, <1>2, <1>3, <1>4, <1>5, <1>6, <1>7, <1>8, <1>9, <1>10, <1>11, <1>12, <1>13

LEMMA Meetings ==
  ASSUME NEW d \in DirNames
  PROVE  /\ Meets(d) = 4 <=> d = g_testdir1
         /\ Meets(d) = 35 <=> d = g_testdir2
         /\ Meets(d) = 47 <=> d = g_testdir3
         /\ Meets(d) = 52 <=> d = g_testdir4
         /\ Meets(d) \in {4, 35, 47, 52}
  BY NamesDiffer DEF Meets, g_testdir1, g_testdir2, g_testdir3, g_testdir4

LEMMA MeetsNone ==
  ASSUME NEW k \in 1 .. 65, k \notin {4, 35, 47, 52}
  PROVE  MeetsNo(k)
  BY Meetings DEF MeetsNo

LEMMA Quietly ==
  ASSUME NEW k \in 1 .. 65, k \notin {1, 3, 4, 8, 14, 22, 28, 32, 35, 41, 47, 52, 54, 60}
  PROVE  Quiet(k)
  BY Turns, MeetsNone DEF Quiet

(* What each name lies in.                                                 *)
LEMMA Places ==
  /\ Inside(g_testdir1) = {g_testfile1, g_testfile2}
  /\ Inside(g_testdir3) = {} /\ Inside(g_testdir4) = {g_testfile4}
  /\ Inside(g_testfile3) = {}
  /\ DirOf[g_testfile1] = g_testdir1
  /\ DirOf[g_testfile2] = g_testdir1
  /\ DirOf[g_testfile3] = g_testdir2
  /\ DirOf[g_testfile4] = g_testdir4
  /\ DirOf[g_testfilel] = g_target
<1>1. /\ DirOf[g_testfile1] = g_testdir1
      /\ DirOf[g_testfile2] = g_testdir1
      /\ DirOf[g_testfile3] = g_testdir2
      /\ DirOf[g_testfile4] = g_testdir4
      /\ DirOf[g_testfilel] = g_target
  BY DEF DirOf, FileNames, g_target, g_testdir1, g_testdir2, g_testdir4, g_testfile1,
         g_testfile2, g_testfile3, g_testfile4, g_testfilel
<1>2. /\ g_target # g_testdir1 /\ g_target # g_testdir3
      /\ g_target # g_testdir4
      /\ g_testdir1 # g_testdir2 /\ g_testdir1 # g_testdir3
      /\ g_testdir1 # g_testdir4
      /\ g_testdir2 # g_testdir3 /\ g_testdir2 # g_testdir4
      /\ g_testdir3 # g_testdir4
      /\ g_testfile3 \notin {g_target, g_testdir1, g_testdir2, g_testdir4}
  BY DEF g_target, g_testdir1, g_testdir2, g_testdir3, g_testdir4,
         g_testfile3
<1>3. FileNames = {g_testfile1, g_testfile2, g_testfile3, g_testfile4, g_testfilel}
  BY DEF FileNames
<1> QED  BY <1>1, <1>2, <1>3 DEF Inside

(* Every call of the script fits the plan.                                 *)
LEMMA Planned == \A k \in 1 .. 65 : Fits(k, Script[k])
<1>1. /\ Fits(1, Script[1]) /\ Fits(2, Script[2])
      /\ Fits(3, Script[3])
  BY CallsScratch, Changes, Quietly, EachName, Turns, MeetsNone, Meetings, NamesDiffer,
     Places DEF Fits, Names, OddName
<1>2. /\ Fits(4, Script[4]) /\ Fits(5, Script[5])
      /\ Fits(6, Script[6]) /\ Fits(7, Script[7])
  BY CallsFilling, Changes, Quietly, EachName, Turns, MeetsNone, Meetings, NamesDiffer,
     Places DEF Fits, Names, OddName
<1>3. /\ Fits(8, Script[8]) /\ Fits(9, Script[9])
      /\ Fits(10, Script[10]) /\ Fits(11, Script[11])
  BY CallsFilling, Changes, Quietly, EachName, Turns, MeetsNone, Meetings, NamesDiffer,
     Places DEF Fits, Names, OddName
<1>4. /\ Fits(12, Script[12])
  BY CallsFilling, Changes, Quietly, EachName, Turns, MeetsNone, Meetings, NamesDiffer,
     Places DEF Fits, Names, OddName
<1>5. /\ Fits(13, Script[13]) /\ Fits(14, Script[14])
      /\ Fits(15, Script[15]) /\ Fits(16, Script[16])
  BY CallsFilled, Changes, Quietly, EachName, Turns, MeetsNone, Meetings, NamesDiffer,
     Places DEF Fits, Names, OddName
<1>6. /\ Fits(17, Script[17]) /\ Fits(18, Script[18])
  BY CallsFilled, Changes, Quietly, EachName, Turns, MeetsNone, Meetings, NamesDiffer,
     Places DEF Fits, Names, OddName
<1>7. /\ Fits(19, Script[19]) /\ Fits(20, Script[20])
      /\ Fits(21, Script[21]) /\ Fits(22, Script[22])
  BY CallsEmptying, Changes, Quietly, EachName, Turns, MeetsNone, Meetings, NamesDiffer,
     Places DEF Fits, Names, OddName
<1>8. /\ Fits(23, Script[23]) /\ Fits(24, Script[24])
      /\ Fits(25, Script[25]) /\ Fits(26, Script[26])
  BY CallsEmptying, Changes, Quietly, EachName, Turns, MeetsNone, Meetings, NamesDiffer,
     Places DEF Fits, Names, OddName
<1>9. /\ Fits(27, Script[27]) /\ Fits(28, Script[28])
      /\ Fits(29, Script[29]) /\ Fits(30, Script[30])
  BY CallsEmptied, Changes, Quietly, EachName, Turns, MeetsNone, Meetings, NamesDiffer,
     Places DEF Fits, Names, OddName
<1>10. /\ Fits(31, Script[31]) /\ Fits(32, Script[32])
       /\ Fits(33, Script[33]) /\ Fits(34, Script[34])
  BY CallsEmptied, Changes, Quietly, EachName, Turns, MeetsNone, Meetings, NamesDiffer,
     Places DEF Fits, Names, OddName
<1>11. /\ Fits(35, Script[35]) /\ Fits(36, Script[36])
       /\ Fits(37, Script[37]) /\ Fits(38, Script[38])
  BY CallsMade, Changes, Quietly, EachName, Turns, MeetsNone, Meetings, NamesDiffer,
     Places DEF Fits, Names, OddName
<1>12. /\ Fits(39, Script[39]) /\ Fits(40, Script[40])
       /\ Fits(41, Script[41]) /\ Fits(42, Script[42])
  BY CallsMade, Changes, Quietly, EachName, Turns, MeetsNone, Meetings, NamesDiffer,
     Places DEF Fits, Names, OddName
<1>13. /\ Fits(43, Script[43]) /\ Fits(44, Script[44])
  BY CallsMade, Changes, Quietly, EachName, Turns, MeetsNone, Meetings, NamesDiffer,
     Places DEF Fits, Names, OddName
<1>14. /\ Fits(45, Script[45]) /\ Fits(46, Script[46])
       /\ Fits(47, Script[47]) /\ Fits(48, Script[48])
  BY CallsRenaming, Changes, Quietly, EachName, Turns, MeetsNone, Meetings, NamesDiffer,
     Places DEF Fits, Names, OddName
<1>15. /\ Fits(49, Script[49]) /\ Fits(50, Script[50])
       /\ Fits(51, Script[51]) /\ Fits(52, Script[52])
  BY CallsRenaming, Changes, Quietly, EachName, Turns, MeetsNone, Meetings, NamesDiffer,
     Places DEF Fits, Names, OddName
<1>16. /\ Fits(53, Script[53]) /\ Fits(54, Script[54])
       /\ Fits(55, Script[55])
  BY CallsRenaming, Changes, Quietly, EachName, Turns, MeetsNone, Meetings, NamesDiffer,
     Places DEF Fits, Names, OddName
<1>17. /\ Fits(56, Script[56]) /\ Fits(57, Script[57])
       /\ Fits(58, Script[58]) /\ Fits(59, Script[59])
  BY CallsRenamed, Changes, Quietly, EachName, Turns, MeetsNone, Meetings, NamesDiffer,
     Places DEF Fits, Names, OddName
<1>18. /\ Fits(60, Script[60]) /\ Fits(61, Script[61])
       /\ Fits(62, Script[62]) /\ Fits(63, Script[63])
  BY CallsRenamed, Changes, Quietly, EachName, Turns, MeetsNone, Meetings, NamesDiffer,
     Places DEF Fits, Names, OddName
<1>19. /\ Fits(64, Script[64]) /\ Fits(65, Script[65])
  BY CallsRenamed, Changes, Quietly, EachName, Turns, MeetsNone, Meetings, NamesDiffer,
     Places DEF Fits, Names, OddName
<1> QED  BY <1>1, <1>2, <1>3, <1>4, <1>5, <1>6, <1>7, <1>8, <1>9, <1>10, <1>11, <1>12,
            <1>13, <1>14, <1>15, <1>16, <1>17, <1>18, <1>19

LEMMA Bounds == MaxRuns \in Nat /\ MaxFaults \in Nat
BY BoundsAssumption

(* A call of the script: what all of them leave alone.                     *)
Calling(k) ==
  /\ MountInv /\ next = k /\ next' = k + 1 /\ missed' \in BOOLEAN
  /\ UNCHANGED <<mounted, runs, found, before, reported>>

(* Calls that have failed are counted, and nothing more is asked of the    *)
(* run.                                                                    *)
LEMMA BadCalls ==
  ASSUME NEW k \in 1 .. 65, Calling(k), NEW n \in Nat \ {0},
         faults + n <= MaxFaults, faults' = faults + n, g_nerrors' = g_nerrors + n,
         CardOK'
  PROVE  MountInv'
<1>1. /\ g_nerrors \in Nat /\ faults \in 0 .. MaxFaults
      /\ before \in Nat
  BY DEF Calling, MountInv, MountTypeOK
<1>2. faults' \in 1 .. MaxFaults /\ next' \in 2 .. 66 /\ g_nerrors' \in Nat \ {0}
  BY <1>1, Bounds DEF Calling
<1>3. MountTypeOK'
  BY <1>1, <1>2, ScriptLength, Bounds, NamesDiffer
     DEF Calling, MountInv, MountTypeOK, CardOK, Volume, OddName, HasDir, Names
<1>4. FoundOK' /\ AsMade' /\ AsPlanned' /\ Unmet'
  BY <1>2 DEF Calling, MountInv, FoundOK, AsMade, AsPlanned, Worked, Unmet
<1>5. Counted'
  BY <1>1, <1>2 DEF Calling, MountInv, Counted
<1>6. ZeroMeansSound' /\ CleansUp'
  BY <1>2 DEF Calling, ZeroMeansSound, CleansUp, Ended
<1> QED  BY <1>3, <1>4, <1>5, <1>6 DEF MountInv, Calling

LEMMA BadCall ==
  ASSUME NEW k \in 1 .. 65, Calling(k), Judge(TRUE), faults < MaxFaults,
         faults' = faults + 1,
         CardOK'
  PROVE  MountInv'
<1>1. g_nerrors' = g_nerrors + 1 /\ faults + 1 <= MaxFaults
  BY Bounds DEF Judge, Calling, MountInv, MountTypeOK
<1> QED  BY <1>1, BadCalls

(* A call that works: made, planned and unmet as before it.                *)
LEMMA GoodCall ==
  ASSUME NEW k \in 1 .. 65, Calling(k), NEW wrong \in BOOLEAN, Judge(wrong),
         faults' = faults,
         CardOK',
         Made(k) => Made(k + 1)',
         Made(k) /\ Plan(k) => ~wrong /\ Plan(k + 1)',
         \A d \in DirNames \cap dirs : k <= Meets(d) /\ ~wrong => d \in dirs' /\ k # Meets(d)
  PROVE  MountInv'
<1>1. /\ g_nerrors \in Nat /\ g_nerrors' = g_nerrors + (IF wrong THEN 1 ELSE 0)
      /\ faults \in 0 .. MaxFaults /\ before \in Nat
  BY DEF Judge, Calling, MountInv, MountTypeOK
<1>2. next' = k + 1 /\ next = k /\ k + 1 \in 2 .. 66 /\ g_nerrors' \in Nat
      /\ (g_nerrors' = 0 => g_nerrors = 0 /\ ~wrong)
  BY <1>1 DEF Calling
<1>3. MountTypeOK'
  BY <1>1, <1>2, ScriptLength, NamesDiffer
     DEF Calling, MountInv, MountTypeOK, CardOK, Volume, OddName, HasDir, Names
<1>4. FoundOK'
  BY DEF Calling, MountInv, FoundOK
<1>5. AsMade'
  BY <1>2 DEF Calling, MountInv, AsMade, Worked, Known
<1>6. AsPlanned'
  <2>1. SUFFICES ASSUME faults = 0, Fresh PROVE g_nerrors' = 0 /\ Plan(k + 1)'
    BY <1>2 DEF Calling, AsPlanned, Worked, Fresh
  <2>2. Known
    BY <2>1, NamesDiffer DEF Fresh, Known, Calling, MountInv, FoundOK
  <2>3. Made(k) /\ Plan(k) /\ g_nerrors = 0
    BY <1>2, <2>1, <2>2 DEF Calling, MountInv, AsMade, AsPlanned, Worked
  <2> QED  BY <1>1, <2>3
<1>7. Counted'
  BY <1>1, <1>2 DEF Calling, MountInv, Counted
<1>8. Unmet'
  <2>1. SUFFICES ASSUME g_nerrors' = 0, NEW d \in found \cap DirNames
                 PROVE  d \in dirs' /\ k + 1 <= Meets(d)
    BY <1>2 DEF Calling, Unmet
  <2>2. d \in dirs /\ k <= Meets(d) /\ ~wrong
    BY <1>2, <2>1 DEF Calling, MountInv, Unmet
  <2>3. d \in dirs' /\ k # Meets(d) /\ Meets(d) \in Int
    BY <2>1, <2>2, Meetings
  <2> QED  BY <2>2, <2>3
<1>9. ZeroMeansSound' /\ CleansUp'
  BY <1>2 DEF ZeroMeansSound, CleansUp, Ended
<1> QED  BY <1>3, <1>4, <1>5, <1>6, <1>7, <1>8, <1>9 DEF MountInv, Calling

(* A call that changes nothing is a good one when it answers as planned.   *)
LEMMA QuietCall ==
  ASSUME NEW k \in 1 .. 65, Calling(k), UNCHANGED card, Quiet(k), NEW e, NEW r,
         Answers(e, r),
         NEW wrong \in BOOLEAN, Judge(wrong), r = "EIO" => wrong,
         Made(k) /\ Plan(k) /\ r = e => ~wrong
  PROVE  MountInv'
<1>1. dirs' = dirs /\ files' = files /\ Volume' = Volume
  BY DEF card, Volume
<1>2. CardOK'
  BY <1>1 DEF Calling, MountInv, CardOK, HasDir
<1>3. CASE faults' = faults /\ r = e
  <2>1. Made(k) => Made(k + 1)'
    BY <1>1 DEF Quiet, Same, Made
  <2>2. Made(k) /\ Plan(k) => ~wrong /\ Plan(k + 1)'
    <3>1. k + 1 # 1 /\ (k = 1 => Present(k) = {})
      <4>1. k = 1 => \A p : p \notin Present(k)
        BY WhatIsPresent
      <4> QED  BY <4>1
    <3>2. k # 1
      BY Changes, WhatIsPresent DEF Quiet, Same, Adds
    <3> QED  BY <1>1, <1>3, <3>1, <3>2 DEF Quiet, Same, Plan
  <2>3. \A d \in DirNames \cap dirs : d \in dirs' /\ k # Meets(d)
    BY <1>1 DEF Quiet, MeetsNo
  <2> QED  BY <1>2, <1>3, <2>1, <2>2, <2>3, GoodCall
<1>4. CASE r = "EIO" /\ faults < MaxFaults /\ faults' = faults + 1
  <2>1. Judge(TRUE)
    BY <1>4 DEF Judge
  <2> QED  BY <1>2, <1>4, <2>1, BadCall
<1> QED  BY <1>3, <1>4 DEF Answers

(* The calls that only look.                                               *)
LEMMA Shows ==
  ASSUME NEW k \in 1 .. 65, Calling(k), Quiet(k), NEW p, show_statfs(p)
  PROVE  MountInv'
<1>1. PICK r \in Errnos :
           Answers("OK", r) /\ Judge(Fails(r)) /\ UNCHANGED card
  BY DEF show_statfs
<1>2. /\ Fails(r) \in BOOLEAN /\ (r = "EIO" => Fails(r))
      /\ (r = "OK" => ~Fails(r))
  BY DEF Fails
<1> QED  BY <1>1, <1>2, QuietCall

LEMMA Lists ==
  ASSUME NEW k \in 1 .. 65, Calling(k), Quiet(k), show_directories
  PROVE  MountInv'
<1>1. PICK n \in 0 .. MaxFaults - faults :
           faults' = faults + n /\ g_nerrors' = g_nerrors + n /\ UNCHANGED card
  BY DEF show_directories
<1>2. faults \in Nat /\ g_nerrors \in Nat /\ CardOK
  BY DEF Calling, MountInv, MountTypeOK
<1>3. CASE n = 0
  <2>1. PICK r \in Errnos : r = "OK"
    BY DEF Errnos
  <2>2. Answers("OK", r) /\ Judge(Fails(r))
    BY <1>1, <1>2, <1>3, <2>1 DEF Answers, Judge, Fails
  <2>3. Fails(r) \in BOOLEAN /\ r # "EIO" /\ ~Fails(r)
    BY <2>1 DEF Fails
  <2> QED  BY <1>1, <2>2, <2>3, QuietCall
<1>4. CASE n # 0
  <2>1. CardOK'
    BY <1>1, <1>2 DEF card, CardOK, HasDir, Volume
  <2>2. faults + n <= MaxFaults /\ n \in Nat \ {0}
    BY <1>1, <1>2, <1>4, Bounds
  <2> QED  BY <1>1, <2>1, <2>2, BadCalls
<1> QED  BY <1>3, <1>4

LEMMA Looks ==
  ASSUME NEW k \in 1 .. 65, Calling(k), Quiet(k), NEW p \in Present(k),
         succeed_stat(p) \/ (p \in FileNames /\ read_test_file(p))
  PROVE  MountInv'
<1>1. Made(k) => p \in Volume /\ Exists(p)
  BY DEF Made, Volume, Exists
<1>2. CASE succeed_stat(p)
  <2>1. PICK r \in Errnos :
             Answers(StatErrno(p), r) /\ Judge(Fails(r)) /\ UNCHANGED card
    BY <1>2 DEF succeed_stat, show_stat
  <2>2. /\ Fails(r) \in BOOLEAN /\ (r = "EIO" => Fails(r))
        /\ (Made(k) /\ Plan(k) /\ r = StatErrno(p) => ~Fails(r))
    BY <1>1 DEF Fails, StatErrno, When
  <2> QED  BY <2>1, <2>2, QuietCall
<1>3. CASE p \in FileNames /\ read_test_file(p)
  <2>1. PICK r \in Errnos :
             Answers(ReadErrno(p), r) /\ Judge(Fails(r)) /\ UNCHANGED card
    BY <1>3 DEF read_test_file
  <2>2. Made(k) => p \notin dirs
    BY <1>3, NamesDiffer DEF Made, Calling, MountInv, CardOK
  <2>3. /\ Fails(r) \in BOOLEAN /\ (r = "EIO" => Fails(r))
        /\ (Made(k) /\ Plan(k) /\ r = ReadErrno(p) => ~Fails(r))
    BY <1>1, <2>2 DEF Fails, ReadErrno, First, StatErrno, When
  <2> QED  BY <2>1, <2>3, QuietCall
<1> QED  BY <1>2, <1>3

LEMMA Misses ==
  ASSUME NEW k \in 1 .. 65, Calling(k), Quiet(k), k > 1, NEW p \in Names \ Present(k),
         fail_stat(p, "ENOENT") \/ fail_read_open(p, "ENOENT")
  PROVE  MountInv'
<1>1. Plan(k) => ~Exists(p)
  BY NamesDiffer DEF Plan, Volume, Exists
<1>2. PICK r \in Errnos : /\ Answers(StatErrno(p), r) \/ Answers(ReadErrno(p), r)
                          /\ Judge(r # "ENOENT") /\ UNCHANGED card
  BY DEF fail_stat, show_stat, fail_read_open
<1>3. /\ (r # "ENOENT") \in BOOLEAN /\ (r = "EIO" => r # "ENOENT")
      /\ (Made(k) /\ Plan(k) /\ r \in {StatErrno(p), ReadErrno(p)} => ~(r # "ENOENT"))
  BY <1>1 DEF Fails, StatErrno, ReadErrno, First, When
<1> QED  BY <1>2, <1>3, QuietCall

(* What mkdir, rmdir and unlink, write and rename leave of the card.       *)
LEMMA DirOfType == DirOf \in [FileNames -> DirNames \union {g_target}]
  BY Places, NamesDiffer DEF DirOf

LEMMA MkdirCard ==
  ASSUME CardOK, NEW p \in DirNames \union {OddName}, MkdirErrno(p) = "OK",
         dirs' = dirs \union {p}, files' = files
  PROVE  CardOK' /\ p \notin Volume
<1>1. p \notin Volume /\ HasDir(p)
  BY DEF MkdirErrno, First, Fails, When, Exists, Volume
<1> QED  BY <1>1 DEF CardOK, HasDir, Volume

LEMMA RemovalCard ==
  ASSUME CardOK, NEW p \in Names, p \in FileNames \/ Empty(p),
         dirs' = dirs \ {p}, files' = files \ {p}
  PROVE  CardOK' /\ Volume' = Volume \ {p}
<1>1. Volume' = Volume \ {p}
  BY DEF Volume
<1>2. ASSUME NEW q \in Volume \ {p} PROVE HasDir(q)'
  <2>1. HasDir(q)
    BY DEF CardOK
  <2>2. q \in FileNames => DirOf[q] # p
    <3>1. CASE p \in FileNames
      BY <3>1, DirOfType, NamesDiffer DEF Names
    <3>2. CASE Empty(p)
      BY <3>2 DEF Empty, Inside, Volume
    <3> QED  BY <3>1, <3>2
  <2> QED  BY <2>1, <2>2 DEF HasDir
<1> QED  BY <1>1, <1>2 DEF CardOK

LEMMA WriteCard ==
  ASSUME CardOK, NEW p \in FileNames, CreateErrno(p) = "OK",
         dirs' = dirs, files' = files \union {p}
  PROVE  CardOK' /\ Volume' = Volume \union {p}
<1>1. p \notin dirs /\ HasDir(p)
  BY DEF CreateErrno, First, Fails, When
<1> QED  BY <1>1 DEF CardOK, HasDir, Volume

LEMMA MovedDirCard ==
  ASSUME CardOK, NEW p \in DirNames, NEW q \in DirNames, p # q, p \in dirs,
         dirs' = (dirs \ ({p} \union Inside(p))) \union {q},
         files' = files \ ({p} \union Inside(p))
  PROVE  CardOK' /\ Volume' = (Volume \ ({p} \union Inside(p))) \union {q}
<1>1. Volume' = (Volume \ ({p} \union Inside(p))) \union {q}
  BY DEF Volume
<1>2. q \notin files /\ q \notin FileNames /\ p \notin FileNames
  BY NamesDiffer DEF CardOK
<1>3. ASSUME NEW f \in Volume' PROVE HasDir(f)'
  <2>1. CASE f = q
    BY <1>2, <2>1 DEF HasDir
  <2>2. CASE f # q
    <3>1. f \in Volume /\ f \notin Inside(p) /\ HasDir(f)
      BY <1>1, <1>3, <2>2 DEF CardOK
    <3>2. f \in FileNames => DirOf[f] # p /\ DirOf[f] \notin Inside(p)
      BY <3>1, DirOfType, NamesDiffer DEF Inside, Names
    <3> QED  BY <3>1, <3>2 DEF HasDir
  <2> QED  BY <2>1, <2>2
<1> QED  BY <1>1, <1>2, <1>3 DEF CardOK

LEMMA MovedFileCard ==
  ASSUME CardOK, NEW p \in FileNames, NEW q \in FileNames, p # OddName, q # OddName,
         HasDir(q),
         Inside(p) = {}, p \in files, p # q,
         dirs' = dirs \ ({p} \union Inside(p)),
         files' = (files \ ({p} \union Inside(p))) \union {q}
  PROVE  CardOK' /\ Volume' = (Volume \ {p}) \union {q}
<1>1. p \notin dirs /\ q \notin dirs /\ dirs' = dirs
  BY NamesDiffer DEF CardOK
<1>2. Volume' = (Volume \ {p}) \union {q}
  BY <1>1 DEF Volume
<1> QED  BY <1>1, <1>2 DEF CardOK, HasDir

(* The calls that mean to change the card, and those that might.           *)
LEMMA MakesDir ==
  ASSUME NEW k \in 1 .. 65, Calling(k), k > 1, NEW p \in DirNames, Adds(k, p),
         \A d \in DirNames : Meets(d) = k <=> d = p,
         succeed_mkdir(p)
  PROVE  MountInv'
<1>1. PICK r \in Errnos :
           Answers(MkdirErrno(p), r) /\ Judge(Fails(r)) /\ AfterMkdir(p, r)
  BY DEF succeed_mkdir
<1>2. CardOK /\ HasDir(p) /\ p \notin files
  BY NamesDiffer DEF Calling, MountInv, CardOK, HasDir
<1>3. Fails(r) \in BOOLEAN /\ MkdirErrno(p) = IF p \in Volume THEN "EEXIST" ELSE "OK"
  BY <1>2, NamesDiffer DEF Fails, MkdirErrno, First, When, Exists,
                        Volume, Names
<1>4. CASE r = MkdirErrno(p) /\ faults' = faults
  <2>1. CASE p \in Volume
    <3>1. Fails(r) /\ dirs' = dirs /\ files' = files /\ Volume' = Volume
      BY <1>1, <1>3, <1>4, <2>1 DEF Fails, AfterMkdir, Volume
    <3>2. CardOK'
      BY <1>2, <3>1 DEF CardOK, HasDir
    <3>3. Made(k) => Made(k + 1)'
      BY <2>1, <3>1 DEF Made, Adds
    <3>4. ~Plan(k)
      BY <2>1 DEF Plan, Adds
    <3> QED  BY <1>1, <1>3, <1>4, <3>1, <3>2, <3>3, <3>4, GoodCall
  <2>2. CASE p \notin Volume
    <3>1. ~Fails(r) /\ dirs' = dirs \union {p} /\ files' = files /\ Volume' = Volume \union {p}
      BY <1>1, <1>3, <1>4, <2>2 DEF Fails, AfterMkdir, Volume
    <3>2. CardOK'
      BY <1>2, <1>3, <2>2, <3>1, MkdirCard
    <3>3. Made(k) => Made(k + 1)'
      BY <3>1, NamesDiffer DEF Made, Adds, OddName
    <3>4. Plan(k) => Plan(k + 1)'
      BY <3>1 DEF Plan, Adds
    <3>5. \A d \in DirNames \cap dirs : d \in dirs' /\ k # Meets(d)
      BY <2>2, <3>1 DEF Volume
    <3> QED  BY <1>1, <1>3, <1>4, <3>1, <3>2, <3>3, <3>4, <3>5, GoodCall
  <2> QED  BY <2>1, <2>2
<1>5. CASE r = "EIO" /\ faults < MaxFaults /\ faults' = faults + 1
  <2>1. Fails(r) /\ dirs' = dirs /\ files' = files /\ Judge(TRUE)
    BY <1>1, <1>5 DEF Fails, AfterMkdir, Judge
  <2>2. CardOK'
    BY <1>2, <2>1 DEF CardOK, HasDir, Volume
  <2> QED  BY <1>5, <2>1, <2>2, BadCall
<1> QED  BY <1>1, <1>4, <1>5 DEF Answers

LEMMA MakesDirTwice ==
  ASSUME NEW k \in 1 .. 65, Calling(k), Quiet(k),
         NEW p \in (DirNames \union {OddName}) \cap Present(k),
         fail_mkdir(p, "EEXIST")
  PROVE  MountInv'
<1>1. PICK r \in Errnos : /\ Answers(MkdirErrno(p), r) /\ Judge(r # "EEXIST")
                          /\ AfterMkdir(p, r)
  BY DEF fail_mkdir
<1>2. (r # "EEXIST") \in BOOLEAN /\ CardOK
  BY DEF Calling, MountInv
<1>3. Made(k) => MkdirErrno(p) = "EEXIST"
  BY DEF Made, Volume, Exists, MkdirErrno, First, Fails, When
<1>4. CASE Fails(r)
  <2>1. UNCHANGED card
    BY <1>1, <1>4 DEF AfterMkdir, card
  <2> QED  BY <1>1, <1>2, <1>3, <2>1, QuietCall
<1>5. CASE ~Fails(r)
  <2>1. r = "OK" /\ MkdirErrno(p) = "OK" /\ faults' = faults
        /\ dirs' = dirs \union {p} /\ files' = files
    BY <1>1, <1>5 DEF Fails, Answers, AfterMkdir
  <2>2. ~Made(k) /\ Judge(TRUE)
    BY <1>1, <1>3, <2>1 DEF Judge
  <2>3. CardOK'
    BY <1>2, <2>1, MkdirCard
  <2> QED  BY <2>1, <2>2, <2>3, GoodCall
<1> QED  BY <1>4, <1>5

LEMMA Unlinks ==
  ASSUME NEW k \in 1 .. 65, Calling(k), MeetsNo(k), NEW p \in FileNames, Drops(k, p),
         succeed_unlink(p)
  PROVE  MountInv'
<1>1. PICK r \in Errnos :
           Answers(UnlinkErrno(p), r) /\ Judge(Fails(r)) /\ AfterRemoval(p, r)
  BY DEF succeed_unlink
<1>2. Fails(r) \in BOOLEAN /\ CardOK /\ (Made(k) => UnlinkErrno(p) = "OK")
  <2>1. Made(k) => p \in Volume /\ p \notin dirs
    BY NamesDiffer DEF Made, Drops, Calling, MountInv, CardOK
  <2> QED  BY <2>1 DEF Fails, UnlinkErrno, First, StatErrno, When,
                       Exists, Volume, Calling, MountInv
<1>3. CASE Fails(r)
  <2>1. dirs' = dirs /\ files' = files
    BY <1>1, <1>3 DEF AfterRemoval
  <2>2. CardOK' /\ Judge(TRUE)
    BY <1>1, <1>2, <1>3, <2>1 DEF CardOK, HasDir, Volume, Judge
  <2>3. CASE r = UnlinkErrno(p) /\ faults' = faults
    <3>1. ~Made(k)
      BY <1>2, <1>3, <2>3 DEF Fails
    <3> QED  BY <2>1, <2>2, <2>3, <3>1, GoodCall
  <2>4. CASE r = "EIO" /\ faults < MaxFaults /\ faults' = faults + 1
    BY <2>2, <2>4, BadCall
  <2> QED  BY <1>1, <2>3, <2>4 DEF Answers
<1>4. CASE ~Fails(r)
  <2>1. r = UnlinkErrno(p) /\ faults' = faults /\ dirs' = dirs \ {p} /\ files' = files \ {p}
        /\ Judge(FALSE)
    BY <1>1, <1>4 DEF Fails, Answers, AfterRemoval, Judge
  <2>2. CardOK' /\ Volume' = Volume \ {p}
    BY <1>2, <2>1, RemovalCard DEF Names
  <2>3. Made(k) => Made(k + 1)'
    BY <2>1, <2>2 DEF Made, Drops
  <2>4. Plan(k) => Plan(k + 1)'
    <3>1. k # 1
      BY WhatIsPresent DEF Drops
    <3> QED  BY <2>2, <3>1 DEF Plan, Drops
  <2>5. \A d \in DirNames \cap dirs : d \in dirs' /\ k # Meets(d)
    BY <2>1, NamesDiffer DEF MeetsNo
  <2> QED  BY <2>1, <2>2, <2>3, <2>4, <2>5, GoodCall
<1> QED  BY <1>3, <1>4

LEMMA UnlinksNoDir ==
  ASSUME NEW k \in 1 .. 65, Calling(k), Quiet(k), NEW p \in DirNames \cap Present(k),
         fail_unlink(p, "EISDIR")
  PROVE  MountInv'
<1>1. PICK r \in Errnos : /\ Answers(UnlinkErrno(p), r) /\ Judge(r # "EISDIR")
                          /\ AfterRemoval(p, r)
  BY DEF fail_unlink
<1>2. p \notin files /\ p \notin {g_target, g_mntdir}
  BY NamesDiffer DEF Calling, MountInv, CardOK, Names
<1>3. UnlinkErrno(p) = IF p \in dirs THEN "EISDIR" ELSE "ENOENT"
  BY <1>2 DEF UnlinkErrno, First, Fails, StatErrno, When, Exists
<1>4. Made(k) => p \in dirs
  BY <1>2 DEF Made, Volume
<1>5. UNCHANGED card
  BY <1>1, <1>3 DEF Answers, Fails, AfterRemoval, card
<1>6. (r # "EISDIR") \in BOOLEAN
  OBVIOUS
<1> QED  BY <1>1, <1>3, <1>4, <1>5, <1>6, QuietCall

(* rmdir of a name that is not an empty directory, and of one that is.     *)
LEMMA RmdirRefused ==
  ASSUME NEW k \in 1 .. 65, Calling(k), Quiet(k), NEW p \in Names,
         NEW e \in {"ENOTDIR", "ENOTEMPTY"},
         Made(k) => RmdirErrno(p) = e,
         p \in DirNames => Meets(p) < k,
         fail_rmdir(p, e)
  PROVE  MountInv'
<1>1. PICK r \in Errnos :
           Answers(RmdirErrno(p), r) /\ Judge(r # e) /\ AfterRemoval(p, r)
  BY DEF fail_rmdir
<1>2. (r # e) \in BOOLEAN /\ CardOK
  BY DEF Calling, MountInv
<1>3. CASE Fails(r)
  <2>1. UNCHANGED card
    BY <1>1, <1>3 DEF AfterRemoval, card
  <2> QED  BY <1>1, <1>2, <2>1, QuietCall
<1>4. CASE ~Fails(r)
  <2>1. /\ r = "OK" /\ RmdirErrno(p) = "OK" /\ faults' = faults
        /\ dirs' = dirs \ {p} /\ files' = files \ {p} /\ Judge(TRUE) /\ ~Made(k)
    BY <1>1, <1>4 DEF Fails, Answers, AfterRemoval, Judge
  <2>2. CardOK'
    <3>1. Empty(p)
      BY <2>1 DEF RmdirErrno, First, Fails, When
    <3> QED  BY <1>2, <2>1, <3>1, RemovalCard
  <2> QED  BY <2>1, <2>2, GoodCall
<1> QED  BY <1>3, <1>4

LEMMA RmdirOfFile ==
  ASSUME NEW k \in 1 .. 65, Calling(k), Quiet(k), NEW p \in FileNames \cap Present(k),
         fail_rmdir(p, "ENOTDIR")
  PROVE  MountInv'
<1>1. Made(k) => p \in files
  BY NamesDiffer DEF Made, Volume, Calling, MountInv, CardOK
<1>2. Made(k) => RmdirErrno(p) = "ENOTDIR"
  BY <1>1 DEF RmdirErrno, First, Fails, StatErrno, When, Exists
<1> QED  BY <1>2, NamesDiffer, RmdirRefused DEF Names

LEMMA RmdirOfFull ==
  ASSUME NEW k \in 1 .. 65, Calling(k), Quiet(k), NEW p \in DirNames \cap Present(k),
         Inside(p) \cap Present(k) # {}, Meets(p) < k, fail_rmdir(p, "ENOTEMPTY")
  PROVE  MountInv'
<1>1. Made(k) => p \notin files /\ p \in Volume /\ ~Empty(p)
  BY NamesDiffer DEF Made, Volume, Calling, MountInv, CardOK, Empty
<1>2. Made(k) => RmdirErrno(p) = "ENOTEMPTY"
  BY <1>1 DEF RmdirErrno, First, Fails, StatErrno, When, Exists, Volume
<1> QED  BY <1>2, RmdirRefused DEF Names

LEMMA RemovesDir ==
  ASSUME NEW k \in 1 .. 65, Calling(k), MeetsNo(k), NEW p \in DirNames, Drops(k, p),
         Meets(p) < k, Inside(p) \subseteq Gone(k) \ Present(k), succeed_rmdir(p)
  PROVE  MountInv'
<1>1. PICK r \in Errnos :
           Answers(RmdirErrno(p), r) /\ Judge(Fails(r)) /\ AfterRemoval(p, r)
  BY DEF succeed_rmdir
<1>2. Fails(r) \in BOOLEAN /\ CardOK /\ (Made(k) => RmdirErrno(p) = "OK")
  <2>1. Made(k) => p \in Volume /\ p \notin files /\ Empty(p)
    BY NamesDiffer DEF Made, Volume, Drops, Calling, MountInv, CardOK, Empty
  <2> QED  BY <2>1 DEF Fails, RmdirErrno, First, StatErrno, When,
                       Exists, Volume, Calling, MountInv
<1>3. CASE Fails(r)
  <2>1. dirs' = dirs /\ files' = files
    BY <1>1, <1>3 DEF AfterRemoval
  <2>2. CardOK' /\ Judge(TRUE)
    BY <1>1, <1>2, <1>3, <2>1 DEF CardOK, HasDir, Volume, Judge
  <2>3. CASE r = RmdirErrno(p) /\ faults' = faults
    <3>1. ~Made(k)
      BY <1>2, <1>3, <2>3 DEF Fails
    <3> QED  BY <2>1, <2>2, <2>3, <3>1, GoodCall
  <2>4. CASE r = "EIO" /\ faults < MaxFaults /\ faults' = faults + 1
    BY <2>2, <2>4, BadCall
  <2> QED  BY <1>1, <2>3, <2>4 DEF Answers
<1>4. CASE ~Fails(r)
  <2>1. r = RmdirErrno(p) /\ faults' = faults /\ dirs' = dirs \ {p} /\ files' = files \ {p}
        /\ Judge(FALSE) /\ RmdirErrno(p) = "OK"
    BY <1>1, <1>4 DEF Fails, Answers, AfterRemoval, Judge
  <2>2. Empty(p)
    BY <2>1 DEF RmdirErrno, First, Fails, When
  <2>3. CardOK' /\ Volume' = Volume \ {p}
    BY <1>2, <2>1, <2>2, RemovalCard DEF Names
  <2>4. Made(k) => Made(k + 1)'
    BY <2>1, <2>3 DEF Made, Drops
  <2>5. Plan(k) => Plan(k + 1)'
    <3>1. k # 1
      BY WhatIsPresent DEF Drops
    <3> QED  BY <2>3, <3>1 DEF Plan, Drops
  <2>6. \A d \in DirNames \cap dirs : k <= Meets(d) => d \in dirs' /\ k # Meets(d)
    BY <2>1, Meetings DEF MeetsNo
  <2> QED  BY <2>1, <2>3, <2>4, <2>5, <2>6, GoodCall
<1> QED  BY <1>3, <1>4

LEMMA Writes ==
  ASSUME NEW k \in 1 .. 65, Calling(k), MeetsNo(k), NEW p \in FileNames, Adds(k, p),
         DirOf[p] \in Present(k) \union {g_target}, k = 1 <=> p = g_testfilel,
         write_test_file(p)
  PROVE  MountInv'
<1>1. PICK r \in Errnos :
        /\ Answers(CreateErrno(p), r) /\ Judge(Fails(r))
        /\ \/ ~Fails(CreateErrno(p)) /\ files' = files \union {p}
           \/ Fails(r) /\ UNCHANGED files
        /\ UNCHANGED dirs
  BY DEF write_test_file
<1>2. Fails(r) \in BOOLEAN /\ CardOK /\ (Made(k) => CreateErrno(p) = "OK")
  <2>1. Made(k) => p \notin dirs
    BY NamesDiffer DEF Made, Calling, MountInv, CardOK
  <2>2. Made(k) => HasDir(p)
    <3>1. DirOf[p] \in DirNames \union {g_target} /\ DirOf[p] \notin files
      BY DirOfType, NamesDiffer DEF Calling, MountInv, CardOK, Names
    <3> QED  BY <3>1 DEF HasDir, Made, Volume
  <2> QED  BY <2>1, <2>2 DEF Fails, CreateErrno, First, When, Calling, MountInv
<1>3. CardOK'
  <2>1. CASE ~Fails(CreateErrno(p)) /\ files' = files \union {p}
    BY <1>1, <1>2, <2>1, WriteCard DEF Fails
  <2>2. CASE UNCHANGED files
    BY <1>1, <1>2, <2>2 DEF CardOK, HasDir, Volume
  <2> QED  BY <1>1, <2>1, <2>2
<1>4. CASE r = "EIO" /\ faults < MaxFaults /\ faults' = faults + 1
  <2>1. Judge(TRUE)
    BY <1>1, <1>4 DEF Fails, Judge
  <2> QED  BY <1>3, <1>4, <2>1, BadCall
<1>5. CASE r = CreateErrno(p) /\ faults' = faults
  <2>1. \A d \in DirNames \cap dirs : d \in dirs' /\ k # Meets(d)
    BY <1>1 DEF MeetsNo
  <2>2. CASE Fails(r)
    <3>1. ~Made(k)
      BY <1>2, <1>5, <2>2 DEF Fails
    <3> QED  BY <1>1, <1>2, <1>3, <1>5, <2>1, <3>1, GoodCall
  <2>3. CASE ~Fails(r)
    <3>1. dirs' = dirs /\ Volume' = Volume \union {p}
      BY <1>1, <2>3 DEF Volume
    <3>2. Made(k) => Made(k + 1)'
      BY <3>1 DEF Made, Adds
    <3>3. Plan(k) => Plan(k + 1)'
      BY <3>1 DEF Plan, Adds
    <3> QED  BY <1>1, <1>2, <1>3, <1>5, <2>1, <2>3, <3>2, <3>3, GoodCall
  <2> QED  BY <2>2, <2>3
<1> QED  BY <1>1, <1>4, <1>5 DEF Answers

LEMMA RenamesNoMount ==
  ASSUME NEW k \in 1 .. 65, Calling(k), Quiet(k), NEW q,
         fail_rename(g_mntdir, q, "EXDEV")
  PROVE  MountInv'
<1>1. PICK r \in Errnos : /\ Answers("EXDEV", r) /\ Judge(r # "EXDEV")
                          /\ AfterRename(g_mntdir, q, r)
  BY DEF fail_rename, RenameErrnos
<1>2. UNCHANGED card /\ (r # "EXDEV") \in BOOLEAN
  BY <1>1 DEF Answers, Fails, AfterRename
<1> QED  BY <1>1, <1>2, QuietCall

(* What a rename answers, by what is there.                                *)
LEMMA RenameAnswers ==
  ASSUME NEW p \in Names, NEW q
  PROVE  /\ ~Exists(p) \/ ~HasDir(q) => RenameErrnos(p, q) = {"ENOENT"}
         /\ Exists(p) /\ HasDir(q) /\ Exists(q) => RenameErrnos(p, q) = {"OK", "EEXIST"}
         /\ Exists(p) /\ HasDir(q) /\ ~Exists(q) => RenameErrnos(p, q) = {"OK"}
<1>1. p # g_mntdir
  BY NamesDiffer
<1> QED  BY <1>1 DEF RenameErrnos, Fails, StatErrno, When

(* The new name of a directory is not there when the old one is not; on a  *)
(* card where it is, the move may take place and is counted.               *)
LEMMA RenamesMissing ==
  ASSUME NEW k \in 1 .. 65, Calling(k), Same(k), k > 1, NEW p \in DirNames \ Present(k),
         NEW q \in DirNames \cap Present(k), p # q,
         Inside(p) \cap (Present(k) \union Gone(k)) = {},
         \A d \in DirNames : Meets(d) = k <=> d = p,
         fail_rename(p, q, "ENOENT")
  PROVE  MountInv'
<1>1. PICK r \in Errnos, x \in RenameErrnos(p, q) :
        Answers(x, r) /\ Judge(r # "ENOENT") /\ AfterRename(p, q, r)
  BY DEF fail_rename
<1>2. /\ (r # "ENOENT") \in BOOLEAN /\ CardOK /\ HasDir(q)
      /\ p \in Names /\ p \notin files /\ (p \in dirs <=> Exists(p))
  BY NamesDiffer DEF Calling, MountInv, CardOK, HasDir, Exists, Names
<1>3. (p \in dirs => x \in {"OK", "EEXIST"}) /\ (p \notin dirs => x = "ENOENT")
  BY <1>2, RenameAnswers
<1>4. k + 1 # 1 /\ k # 1
  OBVIOUS
<1>5. ASSUME UNCHANGED card
      PROVE  /\ CardOK' /\ (Made(k) => Made(k + 1)') /\ (Plan(k) => Plan(k + 1)')
             /\ dirs' = dirs
  BY <1>2, <1>4, <1>5 DEF card, CardOK, HasDir, Volume, Made, Plan, Same
<1>6. CASE r = "EIO" /\ faults < MaxFaults /\ faults' = faults + 1
  <2>1. Judge(TRUE) /\ UNCHANGED card
    BY <1>1, <1>6 DEF Fails, Judge, AfterRename, card
  <2> QED  BY <1>5, <1>6, <2>1, BadCall
<1>7. CASE r = x /\ faults' = faults /\ p \notin dirs
  <2>1. Judge(FALSE) /\ UNCHANGED card
    BY <1>1, <1>3, <1>7 DEF Fails, Judge, AfterRename
  <2>2. \A d \in DirNames \cap dirs : k # Meets(d)
    BY <1>7
  <2> QED  BY <1>5, <1>7, <2>1, <2>2, GoodCall
<1>8. CASE r = x /\ faults' = faults /\ p \in dirs
  <2>1. Judge(TRUE) /\ ~Plan(k)
    BY <1>1, <1>3, <1>4, <1>8 DEF Judge, Plan, Volume
  <2>2. CASE Fails(r)
    <3>1. UNCHANGED card
      BY <1>1, <2>2 DEF AfterRename
    <3> QED  BY <1>5, <1>8, <2>1, <3>1, GoodCall
  <2>3. CASE ~Fails(r)
    <3>1. /\ dirs' = (dirs \ ({p} \union Inside(p))) \union {q}
          /\ files' = files \ ({p} \union Inside(p))
      BY <1>1, <1>2, <1>8, <2>3 DEF AfterRename
    <3>2. CardOK' /\ Volume' = (Volume \ ({p} \union Inside(p))) \union {q}
      BY <1>2, <1>8, <3>1, MovedDirCard
    <3>3. Made(k) => Made(k + 1)'
      BY <3>1, <3>2, NamesDiffer DEF Made, Same, OddName
    <3> QED  BY <1>8, <2>1, <3>2, <3>3, GoodCall
  <2> QED  BY <2>2, <2>3
<1> QED  BY <1>1, <1>6, <1>7, <1>8 DEF Answers

LEMMA RenamesDir ==
  ASSUME NEW k \in 1 .. 65, Calling(k), MeetsNo(k), k > 1, NEW p \in DirNames,
         NEW q \in DirNames,
         Moves(k, p, q), Meets(p) < k, Inside(p) = {}, succeed_rename(p, q)
  PROVE  MountInv'
<1>1. PICK r \in Errnos, x \in RenameErrnos(p, q) :
        Answers(x, r) /\ Judge(Fails(r)) /\ AfterRename(p, q, r)
  BY DEF succeed_rename
<1>2. /\ Fails(r) \in BOOLEAN /\ CardOK /\ HasDir(q) /\ p # q
      /\ p \in Names /\ p \notin files /\ q \notin files
      /\ (p \in dirs <=> Exists(p)) /\ (q \in dirs <=> Exists(q))
  BY NamesDiffer DEF Calling, MountInv, CardOK, HasDir, Exists, Names, Fails, Moves
<1>3. /\ p \notin dirs => x = "ENOENT"
      /\ p \in dirs => x \in {"OK", "EEXIST"} /\ (q \notin dirs => x = "OK")
  BY <1>2, RenameAnswers
<1>4. Made(k) => p \in dirs
  BY <1>2 DEF Made, Moves, Volume
<1>5. ASSUME Plan(k) PROVE q \notin dirs
  BY <1>5 DEF Plan, Moves, Volume
<1>6. CASE r = "EIO" /\ faults < MaxFaults /\ faults' = faults + 1
  <2>1. Judge(TRUE) /\ CardOK'
    BY <1>1, <1>2, <1>6 DEF Fails, Judge, AfterRename, card, CardOK,
                        HasDir, Volume
  <2> QED  BY <1>6, <2>1, BadCall
<1>7. CASE r = x /\ faults' = faults /\ Fails(r)
  <2>1. dirs' = dirs /\ files' = files /\ Volume' = Volume /\ Judge(TRUE)
    BY <1>1, <1>7 DEF AfterRename, card, Volume, Judge
  <2>2. CardOK'
    BY <1>2, <2>1 DEF CardOK, HasDir
  <2>3. Made(k) => q \in dirs
    BY <1>3, <1>4, <1>7 DEF Fails
  <2>4. Made(k) => Made(k + 1)'
    BY <2>1, <2>3 DEF Made, Moves, Volume
  <2>5. ~(Made(k) /\ Plan(k))
    BY <1>5, <2>3
  <2> QED  BY <1>7, <2>1, <2>2, <2>4, <2>5, GoodCall
<1>8. CASE r = x /\ faults' = faults /\ ~Fails(r)
  <2>1. r = "OK" /\ p \in dirs /\ Judge(FALSE)
    BY <1>1, <1>3, <1>8 DEF Fails, Judge
  <2>2. /\ dirs' = (dirs \ ({p} \union Inside(p))) \union {q}
        /\ files' = files \ ({p} \union Inside(p))
    BY <1>1, <1>2, <1>8, <2>1 DEF AfterRename
  <2>3. CardOK' /\ Volume' = (Volume \ {p}) \union {q}
    BY <1>2, <2>1, <2>2, MovedDirCard
  <2>4. Made(k) => Made(k + 1)'
    BY <2>2, <2>3, NamesDiffer DEF Made, Moves, OddName
  <2>5. Plan(k) => Plan(k + 1)'
    BY <2>3 DEF Plan, Moves
  <2>6. \A d \in DirNames \cap dirs : k <= Meets(d) => d \in dirs' /\ k # Meets(d)
    BY <2>2, Meetings DEF MeetsNo
  <2> QED  BY <1>8, <2>1, <2>3, <2>4, <2>5, <2>6, GoodCall
<1> QED  BY <1>1, <1>6, <1>7, <1>8 DEF Answers

LEMMA RenamesFile ==
  ASSUME NEW k \in 1 .. 65, Calling(k), MeetsNo(k), k > 1,
         NEW p \in FileNames \ {OddName}, NEW q \in FileNames \ {OddName},
         Moves(k, p, q), DirOf[q] \in Present(k), Inside(p) = {},
         succeed_rename(p, q)
  PROVE  MountInv'
<1>1. PICK r \in Errnos, x \in RenameErrnos(p, q) :
        Answers(x, r) /\ Judge(Fails(r)) /\ AfterRename(p, q, r)
  BY DEF succeed_rename
<1>2. /\ Fails(r) \in BOOLEAN /\ CardOK /\ p # q
      /\ p \in Names /\ p \notin dirs /\ q \notin dirs
      /\ (p \in files <=> Exists(p)) /\ (q \in files <=> Exists(q))
  BY NamesDiffer DEF Calling, MountInv, CardOK, Exists, Names, Fails, Moves
<1>3. /\ p \notin files \/ ~HasDir(q) => x = "ENOENT"
      /\ p \in files /\ HasDir(q) => x \in {"OK", "EEXIST"} /\ (q \notin files => x = "OK")
  BY <1>2, RenameAnswers
<1>4. Made(k) => p \in files /\ HasDir(q)
  <2>1. DirOf[q] \notin files
    BY <1>2, DirOfType, NamesDiffer DEF CardOK, Names
  <2> QED  BY <1>2, <2>1 DEF Made, Moves, Volume, HasDir
<1>5. ASSUME Plan(k) PROVE q \notin files
  BY <1>5 DEF Plan, Moves, Volume
<1>6. CASE r = "EIO" /\ faults < MaxFaults /\ faults' = faults + 1
  <2>1. Judge(TRUE) /\ CardOK'
    BY <1>1, <1>2, <1>6 DEF Fails, Judge, AfterRename, card, CardOK,
                        HasDir, Volume
  <2> QED  BY <1>6, <2>1, BadCall
<1>7. CASE r = x /\ faults' = faults /\ Fails(r)
  <2>1. dirs' = dirs /\ files' = files /\ Volume' = Volume /\ Judge(TRUE)
    BY <1>1, <1>7 DEF AfterRename, card, Volume, Judge
  <2>2. CardOK'
    BY <1>2, <2>1 DEF CardOK, HasDir
  <2>3. Made(k) => q \in files
    BY <1>3, <1>4, <1>7 DEF Fails
  <2>4. Made(k) => Made(k + 1)'
    BY <2>1, <2>3 DEF Made, Moves, Volume
  <2>5. ~(Made(k) /\ Plan(k))
    BY <1>5, <2>3
  <2> QED  BY <1>7, <2>1, <2>2, <2>4, <2>5, GoodCall
<1>8. CASE r = x /\ faults' = faults /\ ~Fails(r)
  <2>1. r = "OK" /\ p \in files /\ HasDir(q) /\ Judge(FALSE)
    BY <1>1, <1>3, <1>8 DEF Fails, Judge
  <2>2. /\ dirs' = dirs \ ({p} \union Inside(p))
        /\ files' = (files \ ({p} \union Inside(p))) \union {q}
    BY <1>1, <1>2, <1>8, <2>1 DEF AfterRename
  <2>3. CardOK' /\ Volume' = (Volume \ {p}) \union {q}
    BY <1>2, <2>1, <2>2, MovedFileCard
  <2>4. Made(k) => Made(k + 1)'
    BY <2>2, <2>3 DEF Made, Moves
  <2>5. Plan(k) => Plan(k + 1)'
    BY <2>3 DEF Plan, Moves
  <2>6. \A d \in DirNames \cap dirs : d \in dirs' /\ k # Meets(d)
    BY <2>2, NamesDiffer DEF MeetsNo
  <2> QED  BY <1>8, <2>1, <2>3, <2>4, <2>5, <2>6, GoodCall
<1> QED  BY <1>1, <1>6, <1>7, <1>8 DEF Answers

(* A call of the script, whichever comes next.                             *)
LEMMA MissedType ==
  ASSUME missed \in BOOLEAN, NEW s, Do(s) PROVE missed' \in BOOLEAN
<1>1. ASSUME NEW opened \in BOOLEAN, Closed(opened) PROVE missed' \in BOOLEAN
  BY <1>1, Zenon DEF Closed
<1>2. \A r : (~Fails(r)) \in BOOLEAN
  BY Zenon
<1>3. \/ UNCHANGED missed \/ Closed(TRUE)
      \/ \E r : Closed(~Fails(r))
  BY Zenon DEF Do, show_directories, read_test_file, write_test_file, fail_read_open
<1> QED  BY <1>1, <1>2, <1>3, Zenon

LEMMA CallStep ==
  ASSUME MountInv, Call PROVE MountInv'
<1>1. next \in 1 .. 65
  BY ScriptLength DEF Call
<1>2. PICK k \in 1 .. 65 : k = next
  BY <1>1
<1>3. Calling(k) /\ Do(Script[k]) /\ Fits(k, Script[k])
  <2>1. Do(Script[k]) /\ Fits(k, Script[k])
    BY <1>2, Planned DEF Call
  <2>2. missed \in BOOLEAN
    BY Zenon DEF MountInv, MountTypeOK
  <2>3. missed' \in BOOLEAN
    BY <2>1, <2>2, MissedType, Zenon
  <2> QED  BY <1>2, <2>1, <2>3 DEF Call, Calling
<1> DEFINE s == Script[k]
<1> HIDE DEF s
<1>4. Calling(k) /\ Do(s) /\ Fits(k, s)
  BY <1>3 DEF s
<1>5. CASE s.call \in {"show_directories", "show_statfs"}
  BY <1>4, <1>5, Shows, Lists DEF Do, Fits
<1>6. CASE s.call \in {"succeed_stat", "read_test_file"}
  <2>1. Quiet(k) /\ s.path \in Present(k)
        /\ (succeed_stat(s.path) \/ (s.path \in FileNames /\ read_test_file(s.path)))
    BY <1>4, <1>6 DEF Do, Fits
  <2> QED  BY <1>4, <2>1, Looks
<1>7. CASE s.call \in {"fail_stat", "fail_read_open"}
  <2>1. Quiet(k) /\ k > 1 /\ s.path \in Names \ Present(k)
        /\ (fail_stat(s.path, "ENOENT") \/ fail_read_open(s.path, "ENOENT"))
    BY <1>4, <1>7 DEF Do, Fits
  <2> QED  BY <1>4, <2>1, Misses
<1>8. CASE s.call \in {"fail_mkdir", "fail_unlink", "succeed_mkdir"}
  <2>1. \/ /\ Quiet(k) /\ s.path \in (DirNames \union {OddName}) \cap Present(k)
           /\ fail_mkdir(s.path, "EEXIST")
        \/ /\ Quiet(k) /\ s.path \in DirNames \cap Present(k) /\ fail_unlink(s.path, "EISDIR")
        \/ /\ k > 1 /\ Adds(k, s.path) /\ s.path \in DirNames
           /\ \A d \in DirNames : Meets(d) = k <=> d = s.path
           /\ succeed_mkdir(s.path)
    BY <1>4, <1>8 DEF Do, Fits
  <2> QED  BY <1>4, <2>1, MakesDirTwice, UnlinksNoDir, MakesDir
<1>9. CASE s.call \in {"fail_rmdir", "succeed_rmdir"}
  <2>1. \/ Quiet(k) /\ s.path \in FileNames \cap Present(k) /\ fail_rmdir(s.path, "ENOTDIR")
        \/ /\ Quiet(k) /\ s.path \in DirNames \cap Present(k)
           /\ Inside(s.path) \cap Present(k) # {} /\ Meets(s.path) < k
           /\ fail_rmdir(s.path, "ENOTEMPTY")
        \/ /\ MeetsNo(k) /\ Drops(k, s.path) /\ s.path \in DirNames
           /\ Meets(s.path) < k /\ Inside(s.path) \subseteq Gone(k) \ Present(k)
           /\ succeed_rmdir(s.path)
    BY <1>4, <1>9 DEF Do, Fits
  <2> QED  BY <1>4, <2>1, RmdirOfFile, RmdirOfFull, RemovesDir
<1>10. CASE s.call \in {"write_test_file", "succeed_unlink"}
  <2>1. \/ /\ MeetsNo(k) /\ Adds(k, s.path) /\ s.path \in FileNames
           /\ DirOf[s.path] \in Present(k) \union {g_target}
           /\ (k = 1 <=> s.path = g_testfilel)
           /\ write_test_file(s.path)
        \/ /\ MeetsNo(k) /\ Drops(k, s.path) /\ s.path \in FileNames /\ succeed_unlink(s.path)
    BY <1>4, <1>10 DEF Do, Fits
  <2> QED  BY <1>4, <2>1, Writes, Unlinks
<1>11. CASE s.call = "fail_rename"
  <2>1. \/ Quiet(k) /\ fail_rename(g_mntdir, s.new, "EXDEV")
        \/ /\ Same(k) /\ k > 1 /\ s.path \in DirNames \ Present(k)
           /\ s.new \in DirNames \cap Present(k) /\ s.path # s.new
           /\ Inside(s.path) \cap (Present(k) \union Gone(k)) = {}
           /\ \A d \in DirNames : Meets(d) = k <=> d = s.path
           /\ fail_rename(s.path, s.new, "ENOENT")
    BY <1>4, <1>11 DEF Do, Fits
  <2> QED  BY <1>4, <2>1, RenamesNoMount, RenamesMissing
<1>12. CASE s.call = "succeed_rename"
  <2>1. MeetsNo(k) /\ k > 1 /\ Moves(k, s.path, s.new) /\ Inside(s.path) = {}
        /\ succeed_rename(s.path, s.new)
    BY <1>4, <1>12 DEF Do, Fits
  <2>2. \/ s.path \in DirNames /\ s.new \in DirNames /\ Meets(s.path) < k
        \/ /\ s.path \in FileNames \ {OddName} /\ s.new \in FileNames \ {OddName}
           /\ DirOf[s.new] \in Present(k)
    BY <1>4, <1>12 DEF Fits
  <2> QED  BY <1>4, <2>1, <2>2, RenamesDir, RenamesFile
<1> QED  BY <1>4, <1>5, <1>6, <1>7, <1>8, <1>9, <1>10, <1>11, <1>12 DEF Fits

(* A run starts: nothing is made, and what is there was found.             *)
LEMMA MountStep ==
  ASSUME MountInv, Mount \/ MountFails PROVE MountInv'
<1>1. /\ next = 0 /\ runs < MaxRuns /\ runs' = runs + 1 /\ faults' = 0 /\ found' = dirs
      /\ before' = g_nerrors /\ dirs' = dirs /\ files' = files /\ g_nerrors' = g_nerrors
      /\ missed' = FALSE
      /\ \/ next' = 1 /\ reported' = reported
         \/ next' = 0 /\ reported' = -1
  BY DEF Mount, MountFails, Start, card
<1>2. mounted' \in BOOLEAN /\ missed' \in BOOLEAN
  BY Zenon DEF Mount, MountFails, Start, MountInv, MountTypeOK
<1>3. MountTypeOK'
  <2>1. MountTypeOK /\ CardOK
    BY DEF MountInv
  <2>2. runs' \in 0 .. MaxRuns /\ faults' \in 0 .. MaxFaults /\ next' \in 0 .. 66
        /\ g_nerrors' \in Nat /\ before' \in Nat /\ reported' \in Nat \union {-1}
    BY <1>1, <2>1, Bounds DEF MountTypeOK
  <2>3. /\ dirs' \subseteq DirNames \union FileNames /\ files' \subseteq FileNames
        /\ (dirs \cap files)' = {} /\ found' \subseteq DirNames \union FileNames
        /\ \A p \in (dirs \union files)' : HasDir(p)'
    BY <1>1, <2>1 DEF MountTypeOK, HasDir
  <2> QED  BY <1>2, <2>2, <2>3, ScriptLength DEF MountTypeOK
<1>4. CardOK'
  BY <1>1 DEF MountInv, CardOK, HasDir, Volume
<1>5. OddName \in dirs => g_testdir1 \in dirs
  <2>1. OddName \in FileNames /\ DirOf[OddName] = g_testdir1 /\ g_testdir1 # g_target
    BY Places, NamesDiffer DEF OddName, Names
  <2> QED  BY <2>1 DEF MountInv, CardOK, HasDir, Volume
<1>6. FoundOK'
  BY <1>1, <1>5 DEF MountInv, CardOK, FoundOK
<1>7. AsMade'
  <2>1. Present(1) = {} /\ Gone(1) = {}
    <3>1. \A p : p \notin Present(1) /\ p \notin Gone(1)
      BY WhatIsPresent, WhatIsGone
    <3> QED  BY <3>1
  <2> QED  BY <1>1, <2>1 DEF AsMade, Worked, Known, Made
<1>8. AsPlanned'
  <2>1. SUFFICES ASSUME g_nerrors = 0, dirs \cap DirNames = {}
                 PROVE  Volume \subseteq {g_testfilel}
    BY <1>1 DEF AsPlanned, Worked, Fresh, Plan, Volume
  <2>2. dirs = {}
    BY <1>5, <2>1, NamesDiffer DEF MountInv, CardOK
  <2>3. ASSUME NEW f \in files PROVE f = g_testfilel
    <3>1. f \in FileNames /\ DirOf[f] = g_target
      BY <2>2 DEF MountInv, CardOK, HasDir, Volume
    <3> QED  BY <3>1, Places, NamesDiffer DEF Names
  <2> QED  BY <2>2, <2>3 DEF Volume
<1>9. Counted' /\ Unmet'
  <2>1. g_nerrors \in Nat
    BY DEF MountInv, MountTypeOK
  <2>2. \A d \in DirNames : 1 <= Meets(d)
    BY Meetings
  <2> QED  BY <1>1, <2>1, <2>2 DEF Counted, Unmet
<1>10. ZeroMeansSound' /\ CleansUp'
  BY <1>1 DEF ZeroMeansSound, CleansUp, Ended
<1> QED  BY <1>3, <1>4, <1>6, <1>7, <1>8, <1>9, <1>10 DEF MountInv

(* A run ends: what it made stands, and its count tells of it.             *)
LEMMA UmountStep ==
  ASSUME MountInv, Umount PROVE MountInv'
<1>1. PICK r \in Errnos :
           Answers("OK", r) /\ Judge(Fails(r)) /\ mounted' = Fails(r)
  BY DEF Umount
<1>2. /\ next = 66 /\ next' = 0 /\ reported' = g_nerrors' /\ dirs' = dirs /\ files' = files
      /\ runs' = runs /\ found' = found /\ before' = before
  BY ScriptLength DEF Umount, card
<1>3. MountTypeOK /\ CardOK /\ faults \in Nat /\ g_nerrors \in Nat /\ before \in Nat
      /\ MaxFaults \in Nat
  BY Bounds DEF MountInv, MountTypeOK
<1>4. \/ r = "OK" /\ faults' = faults /\ g_nerrors' = g_nerrors
      \/ /\ r = "EIO" /\ faults < MaxFaults /\ faults' = faults + 1
         /\ g_nerrors' = g_nerrors + 1
  BY <1>1, <1>3 DEF Answers, Judge, Fails
<1>5. MountTypeOK'
  <2>1. mounted' \in BOOLEAN /\ missed' \in BOOLEAN
    <3>1. missed' \in BOOLEAN
      BY Zenon DEF Umount, MountInv, MountTypeOK
    <3>2. mounted' \in BOOLEAN
      BY <1>1 DEF Fails
    <3> QED  BY <3>1, <3>2
  <2>2. next' \in 0 .. 66 /\ g_nerrors' \in Nat /\ reported' \in Nat
        /\ faults' \in 0 .. MaxFaults
    BY <1>2, <1>3, <1>4 DEF MountTypeOK
  <2> QED  BY <1>2, <1>3, <2>1, <2>2, ScriptLength DEF MountTypeOK, HasDir
<1>6. CardOK' /\ FoundOK'
  BY <1>2 DEF MountInv, CardOK, FoundOK, HasDir, Volume
<1>7. AsMade' /\ AsPlanned' /\ Counted' /\ Unmet'
  BY <1>2 DEF AsMade, AsPlanned, Counted, Unmet, Worked
<1>8. ZeroMeansSound'
  <2>1. CASE faults' = faults + 1 /\ g_nerrors' = g_nerrors + 1
    BY <1>2, <1>3, <2>1 DEF ZeroMeansSound
  <2>2. CASE faults' = faults /\ g_nerrors' = g_nerrors
    <3>1. ASSUME g_nerrors = 0 PROVE faults = 0 /\ before = 0 /\ found \cap DirNames = {}
      <4>1. before = 0 /\ faults = 0
        BY <1>2, <1>3, <3>1 DEF MountInv, Counted
      <4>2. \A d \in found \cap DirNames : 66 <= Meets(d)
        BY <1>2, <3>1 DEF MountInv, Unmet
      <4>3. found \cap DirNames = {}
        BY <4>2, Meetings
      <4> QED  BY <4>1, <4>3
    <3>2. faults = 0 /\ before = 0 /\ found \cap DirNames = {} => g_nerrors = 0
      BY <1>2 DEF MountInv, AsPlanned, Worked, Fresh
    <3> QED  BY <1>2, <2>2, <3>1, <3>2 DEF ZeroMeansSound
  <2> QED  BY <1>4, <2>1, <2>2
<1>9. CleansUp'
  <2>1. SUFFICES ASSUME faults' = 0, found \cap FileNames = {}
                 PROVE  /\ {g_testdir2, g_testdir4} \subseteq dirs
                        /\ g_testdir1 \notin dirs
                        /\ g_testfile4 \in files /\ g_testfilel \notin files
    BY <1>2 DEF CleansUp
  <2>2. Made(66)
    BY <1>2, <1>3, <1>4, <2>1, NamesDiffer DEF MountInv, AsMade, Worked, Known, OddName
  <2>3. /\ {g_testdir2, g_testdir4, g_testfile4} \subseteq Volume
        /\ g_testdir1 \notin Volume /\ g_testfilel \notin Volume
    BY <2>2, EachName DEF Made
  <2>4. g_testdir2 \notin files /\ g_testdir4 \notin files /\ g_testfile4 \notin dirs
    BY <1>3, <2>2, NamesDiffer DEF CardOK, Made
  <2> QED  BY <2>3, <2>4 DEF Volume
<1> QED  BY <1>5, <1>6, <1>7, <1>8, <1>9 DEF MountInv

LEMMA PowerCutStep ==
  ASSUME MountInv, PowerCut PROVE MountInv'
<1>1. /\ mounted' = FALSE /\ g_nerrors' = 0 /\ next' = 0 /\ reported' = -1
      /\ dirs' = dirs /\ files' = files /\ faults' = faults /\ runs' = runs
      /\ found' = found /\ before' = before
  BY DEF PowerCut, card
<1>2. mounted' \in BOOLEAN /\ missed' \in BOOLEAN
  BY Zenon DEF PowerCut, MountInv, MountTypeOK
<1>3. MountTypeOK'
  BY <1>1, <1>2, ScriptLength DEF MountInv, MountTypeOK, HasDir
<1>4. CardOK' /\ FoundOK'
  BY <1>1 DEF MountInv, CardOK, FoundOK, HasDir, Volume
<1>5. AsMade' /\ AsPlanned' /\ Counted' /\ Unmet' /\ ZeroMeansSound' /\ CleansUp'
  BY <1>1 DEF AsMade, AsPlanned, Counted, Unmet, Worked, ZeroMeansSound, CleansUp,
              Ended
<1> QED  BY <1>3, <1>4, <1>5 DEF MountInv

LEMMA MountInitially == MountInit => MountInv
<1> SUFFICES ASSUME MountInit PROVE MountInv
  OBVIOUS
<1>1. MountTypeOK
  <2>1. mounted \in BOOLEAN /\ missed \in BOOLEAN
    BY Zenon DEF MountInit
  <2> QED  BY <2>1, ScriptLength, Bounds DEF MountInit, MountTypeOK, HasDir
<1>2. CardOK /\ FoundOK
  BY DEF MountInit, CardOK, FoundOK, Volume
<1>3. AsMade /\ AsPlanned /\ Counted /\ Unmet /\ ZeroMeansSound /\ CleansUp
  BY DEF MountInit, AsMade, AsPlanned, Counted, Unmet, Worked, ZeroMeansSound,
         CleansUp, Ended
<1> QED  BY <1>1, <1>2, <1>3 DEF MountInv

LEMMA MountSteps ==
  ASSUME MountInv, [MountNext]_mountVars PROVE MountInv'
<1>1. CASE UNCHANGED mountVars
  BY <1>1 DEF mountVars, card, MountInv, MountTypeOK, CardOK, FoundOK, AsMade, AsPlanned,
              Counted, Unmet, ZeroMeansSound, CleansUp, HasDir, Volume, Worked,
              Known, Fresh, Made, Plan, Ended
<1> QED  BY <1>1, CallStep, MountStep, UmountStep, PowerCutStep DEF MountNext

LEMMA MountInvariant == MountSpec => []MountInv
<1>1. MountInit => MountInv
  BY MountInitially
<1>2. MountInv /\ [MountNext]_mountVars => MountInv'
  BY MountSteps
<1> QED  BY <1>1, <1>2, PTL DEF MountSpec

(* For every number of runs and of failing calls, "%d errors reported" tells *)
(* of the run: 0 is reported exactly of a run whose every call worked of     *)
(* those whose answer the test looks at (all but close, readdir and          *)
(* closedir), on a card without a directory of the test, from a count of 0.  *)
THEOREM CountTells == MountSpec => []Inv
<1>1. MountInv => Inv
  BY DEF MountInv, Inv
<1> QED  BY <1>1, MountInvariant, PTL

(* Whatever runs that were cut or had calls that failed left on the card, a  *)
(* run whose every call works of those whose answer the test looks at leaves *)
(* the two directories and the renamed file, and neither the test directory  *)
(* nor the scratch file.                                                     *)
THEOREM RunCleansUp == MountSpec => []CleansUp
<1>1. MountInv => CleansUp
  BY DEF MountInv
<1> QED  BY <1>1, MountInvariant, PTL

===============================================================================
