------------------------------ MODULE SmpTest ------------------------------
(***************************************************************************)
(* The SMP test of src/smp_main-12.c: main creates N threads, the threads  *)
(* meet at a barrier while they move between the CPUs, and main joins them *)
(* and gives back the barrier and the semaphore.                           *)
(*                                                                         *)
(* Every dbginfo takes the semaphore nsem, writes a line and posts nsem;   *)
(* between two of them a process runs to its next line, and the scheduler  *)
(* may put it on any CPU.  A process that has lines to write is the pair   *)
(* lines[p] > 0 and p \in printing while it holds nsem.  Process 0 is main.*)
(***************************************************************************)
EXTENDS Integers, FiniteSets

CONSTANTS N,    \* CONFIG_TESTING_SMP_NBARRIER_THREADS
          CPU   \* the CPUs of the board

ASSUME NAssumption == N \in Nat \ {0}
ASSUME CPUAssumption == CPU # {} /\ CPU \subseteq Nat

Thread == 1..N
Process == 0..N
IMPOSSIBLE_CPU == -1

VARIABLES
  at,            \* the statement a thread is at; 0 before it is created
  mainAt,        \* the statement main is at
  i,             \* main's loop counter
  threadid,      \* the threads whose identifier is not 0
  errcode,       \* main's errcode
  g_thread_cpu,  \* the CPU a process last reported
  lines,         \* lines a process has to write before its next statement
  printing,      \* processes between nxsem_wait and nxsem_post
  nsem,          \* the count of the semaphore
  nsemUp,        \* nsem is initialised and not destroyed
  waiting        \* threads inside pthread_barrier_wait

threadVars == <<at, waiting>>
mainVars == <<mainAt, i, threadid, errcode>>
semVars == <<nsem, nsemUp, printing>>
vars == <<threadVars, mainVars, semVars, g_thread_cpu, lines>>

----------------------------------------------------------------------------
(* Writing a line.                                                         *)

\* mutant: nxsem_wait is interrupted and comes back without the semaphore.
InfoWait_interrupted(p) ==
  /\ lines[p] > 0 /\ p \notin printing
  /\ printing' = printing \union {p}
  /\ UNCHANGED <<threadVars, mainVars, nsem, nsemUp, g_thread_cpu, lines>>

\* nxsem_wait(&nsem) of dbginfo.
InfoWait(p) ==
  /\ lines[p] > 0 /\ p \notin printing
  /\ nsem > 0
  /\ nsem' = nsem - 1
  /\ printing' = printing \union {p}
  /\ UNCHANGED <<threadVars, mainVars, nsemUp, g_thread_cpu, lines>>

\* _info and nxsem_post(&nsem) of dbginfo.
InfoPost(p) ==
  /\ p \in printing
  /\ nsem' = nsem + 1
  /\ printing' = printing \ {p}
  /\ lines' = [lines EXCEPT ![p] = @ - 1]
  /\ UNCHANGED <<threadVars, mainVars, nsemUp, g_thread_cpu>>

\* Process p found itself on a CPU (show_cpu), and has k more lines to write.
show_cpu(p, k) ==
  \E cpu \in CPU :
    /\ g_thread_cpu' = [g_thread_cpu EXCEPT ![p] = cpu]
    /\ lines' = [lines EXCEPT ![p] = 1 + k]

\* The same, with a line only when the CPU is another one (show_cpu_conditional).
show_cpu_conditional(p, k) ==
  \E cpu \in CPU :
    /\ g_thread_cpu' = [g_thread_cpu EXCEPT ![p] = cpu]
    /\ lines' = [lines EXCEPT ![p] = (IF cpu # g_thread_cpu[p] THEN 1 ELSE 0) + k]

\* Process p has k lines to write and does not look at the CPU.
info(p, k) ==
  /\ lines' = [lines EXCEPT ![p] = k]
  /\ UNCHANGED g_thread_cpu

----------------------------------------------------------------------------
(* The threads.                                                            *)

\* The statements of barrier_thread.  hog_time burns HOG_MSEC = YIELD_MSEC
\* milliseconds: one turn of its loop, which yields and looks at the CPU.
Statement == << "info", "show_cpu", "show_cpu_conditional", "info",
                "show_cpu_conditional", "pthread_barrier_wait", "info",
                "show_cpu_conditional", "show_cpu_conditional", "info",
                "show_cpu_conditional", "return" >>
BarrierAt == 6
ReturnAt == 12

\* The number of threads that main initialises the barrier for.
BarrierCount_short == N - 1     \* mutant: a barrier for one thread less
BarrierCount_main == N + 1      \* mutant: main is counted as well
BarrierCount == N

Runnable(p) == lines[p] = 0

\* A statement of barrier_thread that does not touch the barrier.
ThreadStep(t) ==
  /\ at[t] \in 1..ReturnAt-1
  /\ Runnable(t)
  /\ \/ Statement[at[t]] = "info" /\ info(t, 1)
     \/ Statement[at[t]] = "show_cpu" /\ show_cpu(t, 0)
     \/ Statement[at[t]] = "show_cpu_conditional" /\ show_cpu_conditional(t, 0)
  /\ at' = [at EXCEPT ![t] = @ + 1]
  /\ UNCHANGED <<waiting, mainVars, semVars>>

AtBarrier(t) == at[t] = BarrierAt /\ Runnable(t) /\ t \notin waiting

\* pthread_barrier_wait that has to wait for others.
BarrierBlock(t) ==
  /\ AtBarrier(t)
  /\ Cardinality(waiting) + 1 < BarrierCount
  /\ waiting' = waiting \union {t}
  /\ UNCHANGED <<at, mainVars, semVars, g_thread_cpu, lines>>

\* pthread_barrier_wait of the last one: all go on.
BarrierRelease(t) ==
  /\ AtBarrier(t)
  /\ Cardinality(waiting) + 1 >= BarrierCount
  /\ at' = [u \in Thread |-> IF u \in waiting \union {t} THEN BarrierAt + 1 ELSE at[u]]
  /\ waiting' = {}
  /\ UNCHANGED <<mainVars, semVars, g_thread_cpu, lines>>

----------------------------------------------------------------------------
(* main.                                                                   *)

\* Main is at statement s with no line left to write, and goes on at t.
MainGoes(s, t) ==
  /\ mainAt = s
  /\ Runnable(0)
  /\ mainAt' = t

\* nxsem_init, the arrays, and the first two lines.
MainStart ==
  /\ MainGoes("start", "barrierattr_init")
  /\ nsem' = 1 /\ nsemUp' = TRUE
  /\ show_cpu(0, 1)
  /\ UNCHANGED <<threadVars, i, threadid, errcode, printing>>

\* The initialisation at s worked, and k lines say so.
InitOk(s, t, k) ==
  /\ MainGoes(s, t)
  /\ info(0, k)
  /\ UNCHANGED <<threadVars, i, threadid, errcode, semVars>>

\* The initialisation at s failed: one line, and a goto to what must be undone.
InitFails(s, t) ==
  /\ MainGoes(s, t)
  /\ info(0, 1)
  /\ errcode' = "EXIT_FAILURE"
  /\ UNCHANGED <<threadVars, i, threadid, semVars>>

MainInit ==
  \/ InitOk("barrierattr_init", "barrier_init", 0)
  \/ InitFails("barrierattr_init", "errout")
  \/ InitOk("barrier_init", "attr_init", 1)
  \/ InitFails("barrier_init", "errout_with_attr")
  \/ InitOk("attr_init", "create", 0)
  \/ InitFails("attr_init", "errout_with_barrier")

\* pthread_create of thread i + 1.
CreateOk ==
  /\ MainGoes("create", "created")
  /\ i < N
  /\ threadid' = threadid \union {i + 1}
  /\ at' = [at EXCEPT ![i + 1] = 1]
  /\ info(0, 1)
  /\ UNCHANGED <<waiting, i, errcode, semVars>>

\* mutant: a failed pthread_create keeps errcode.
CreateFails_silent ==
  /\ MainGoes("create", "all_created")
  /\ i < N
  /\ info(0, 2)
  /\ UNCHANGED <<threadVars, i, threadid, errcode, semVars>>

\* pthread_create fails: two lines and a break.
CreateFails ==
  /\ MainGoes("create", "all_created")
  /\ i < N
  /\ errcode' = "EXIT_FAILURE"
  /\ info(0, 2)
  /\ UNCHANGED <<threadVars, i, threadid, semVars>>

\* The end of a turn of the creating loop.
CreateNext ==
  /\ MainGoes("created", IF i + 1 < N THEN "create" ELSE "all_created")
  /\ i' = i + 1
  /\ show_cpu_conditional(0, 0)
  /\ UNCHANGED <<threadVars, threadid, errcode, semVars>>

AllCreated ==
  /\ MainGoes("all_created", "join")
  /\ i' = 0
  /\ show_cpu_conditional(0, 1)
  /\ UNCHANGED <<threadVars, threadid, errcode, semVars>>

\* A turn of the joining loop for a thread that was created: pthread_join
\* returns when the thread has returned, with 0 or an error.
Join ==
  /\ MainGoes("join", "join")
  /\ i < N /\ i + 1 \in threadid
  /\ at[i + 1] = ReturnAt /\ Runnable(i + 1)
  /\ i' = i + 1
  /\ errcode' \in {errcode, "EXIT_FAILURE"}
  /\ show_cpu_conditional(0, 1)
  /\ UNCHANGED <<threadVars, threadid, semVars>>

\* A turn of the joining loop for a thread that was not created.
JoinSkip ==
  /\ MainGoes("join", "join")
  /\ i < N /\ i + 1 \notin threadid
  /\ i' = i + 1
  /\ UNCHANGED <<threadVars, threadid, errcode, semVars, g_thread_cpu, lines>>

\* The end of the joining loop.
AllJoined_early == i >= N - 1   \* mutant: the last thread is not joined
AllJoined == i = N

\* nxsem_destroy leaves a count of 1.
NsemDestroy ==
  /\ MainGoes("join", "errout_with_barrier")
  /\ AllJoined
  /\ nsem' = 1 /\ nsemUp' = FALSE
  /\ UNCHANGED <<threadVars, i, threadid, errcode, printing, g_thread_cpu, lines>>

\* pthread_barrier_destroy and pthread_barrierattr_destroy: a failure is a line.
MainDestroy ==
  \E s \in {"errout_with_barrier", "errout_with_attr"}, k \in 0..1 :
    /\ MainGoes(s, IF s = "errout_with_barrier" THEN "errout_with_attr" ELSE "errout")
    /\ info(0, k)
    /\ UNCHANGED <<threadVars, i, threadid, errcode, semVars>>

MainEnd ==
  /\ MainGoes("errout", "return")
  /\ show_cpu_conditional(0, 0)
  /\ UNCHANGED <<threadVars, i, threadid, errcode, semVars>>

MainStep ==
  \/ MainStart \/ MainInit \/ CreateOk \/ CreateFails \/ CreateNext \/ AllCreated
  \/ Join \/ JoinSkip \/ NsemDestroy \/ MainDestroy \/ MainEnd

----------------------------------------------------------------------------
Init ==
  /\ at = [t \in Thread |-> 0]
  /\ mainAt = "start"
  /\ i = 0
  /\ threadid = {}
  /\ errcode = "EXIT_SUCCESS"
  /\ g_thread_cpu = [p \in Process |-> IMPOSSIBLE_CPU]
  /\ lines = [p \in Process |-> 0]
  /\ printing = {}
  /\ nsem = 0
  /\ nsemUp = FALSE
  /\ waiting = {}

ThreadNext(t) == ThreadStep(t) \/ BarrierBlock(t) \/ BarrierRelease(t)

Next ==
  \/ \E p \in Process : InfoWait(p) \/ InfoPost(p)
  \/ \E t \in Thread : ThreadNext(t)
  \/ MainStep

\* Every process is scheduled again and again, and the semaphore goes to the
\* process that waits longest among those of a priority.
Fairness ==
  /\ \A p \in Process : SF_vars(InfoWait(p)) /\ WF_vars(InfoPost(p))
  /\ \A t \in Thread : WF_vars(ThreadNext(t))
  /\ WF_vars(MainStep)

Spec == Init /\ [][Next]_vars
FairSpec == Spec /\ Fairness

----------------------------------------------------------------------------
(* Properties.                                                             *)

MainAts == {"start", "barrierattr_init", "barrier_init", "attr_init", "create",
            "created", "all_created", "join", "errout_with_barrier",
            "errout_with_attr", "errout", "return"}

\* The type invariant; nsem is a lock, whose count is 0 or 1.
TypeOK ==
  /\ at \in [Thread -> 0..ReturnAt]
  /\ mainAt \in MainAts
  /\ i \in 0..N
  /\ threadid \subseteq Thread
  /\ errcode \in {"EXIT_SUCCESS", "EXIT_FAILURE"}
  /\ g_thread_cpu \in [Process -> CPU \union {IMPOSSIBLE_CPU}]
  /\ lines \in [Process -> 0..2]
  /\ printing \subseteq Process
  /\ nsem \in 0..1
  /\ nsemUp \in BOOLEAN
  /\ waiting \subseteq Thread

\* Two lines are never mixed: one process at most is between the wait and the
\* post of dbginfo, and the count of nsem says whether one is.
LinesWhole ==
  \A p, q \in Process : p \in printing /\ q \in printing => p = q

\* "Wait at the barrier until all threads are synchronized": a thread that is
\* back from the barrier means that all N were created and have got there.
NobodyBackEarly ==
  \A t \in Thread : at[t] > BarrierAt =>
    \A u \in Thread : u \in threadid /\ at[u] > BarrierAt

\* When the semaphore is destroyed no thread uses it or will: every thread
\* that was created has returned.
NoThreadLeftAtDestroy ==
  mainAt \in {"errout_with_barrier", "errout_with_attr", "errout", "return"} =>
    \A t \in threadid : at[t] = ReturnAt /\ lines[t] = 0

\* main answers EXIT_SUCCESS only of a test in which all N threads met at the
\* barrier and returned.
SuccessIsTrue ==
  mainAt = "return" /\ errcode = "EXIT_SUCCESS" =>
    \A t \in Thread : at[t] = ReturnAt

\* A run in which no call fails ends.
CleanRunEnds == <>(mainAt = "return" \/ errcode = "EXIT_FAILURE")

\* "Test aborted with waiting threads" (line 282): a run that cannot create a
\* thread ends.  It does not: main joins the threads that wait at the barrier.
AbortedRunEnds == <>(mainAt = "return")
=============================================================================
