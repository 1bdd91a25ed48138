---------------------------- MODULE FalseSharing ----------------------------
(***************************************************************************)
(* apps/benchmark_false_sharing.cpp: two threads increment a counter each, *)
(* and count how often they find themselves on another CPU, with the two   *)
(* thread utilities (src/thread_utils.cpp) they call.  How the counters    *)
(* are laid out in cache lines changes the time, not the values.  The      *)
(* other programs count the migrations of their threads the same way, with *)
(* a sample per message.                                                   *)
(*                                                                         *)
(* The scheduler is external: it moves a thread at any moment to any CPU   *)
(* the thread's affinity allows.                                           *)
(***************************************************************************)
EXTENDS Integers

CONSTANTS iterations,     \* increments per thread
          SampleEvery,    \* 4096 in the code: iteration & 4095 is 0
          Cpus,           \* the CPUs of the machine
          PinArguments,   \* first_cpu and second_cpu; below 0: do not pin
          MaxMoves        \* bound: how often the scheduler moves a thread

ASSUME FalseSharingAssumption == /\ iterations \in Nat /\ MaxMoves \in Nat
                                 /\ SampleEvery \in Nat \ {0}
                                 /\ Cpus \subseteq Nat /\ PinArguments \subseteq Int

Threads == {"first", "second"}

VARIABLES cpu_id,       \* the argument of each thread
          counters, migrations,
          pc, iteration, last_cpu,
          cpu,          \* where each thread runs
          affinity,     \* where each thread may run
          moves         \* history: how often the scheduler has moved each thread
                        \* since it has come past its pinning

schedule == <<cpu, affinity, moves>>
fsVars == <<cpu_id, counters, migrations, pc, iteration, last_cpu, schedule>>

FSInit ==
    /\ cpu_id \in [Threads -> PinArguments]
    /\ counters = [t \in Threads |-> 0] /\ migrations = [t \in Threads |-> 0]
    /\ pc = [t \in Threads |-> "pin"]
    /\ iteration = [t \in Threads |-> 0]
    /\ last_cpu = [t \in Threads |-> -1]
    /\ cpu \in [Threads -> Cpus] /\ affinity = [t \in Threads |-> Cpus]
    /\ moves = [t \in Threads |-> 0]

-----------------------------------------------------------------------------
\* pthread_setaffinity_np succeeds for a CPU of the machine, and the thread
\* runs there when it returns.
pin_thread_to_cpu(t) ==
    IF cpu_id[t] \in Cpus
    THEN /\ affinity' = [affinity EXCEPT ![t] = {cpu_id[t]}]
         /\ cpu' = [cpu EXCEPT ![t] = cpu_id[t]]
         /\ UNCHANGED moves
    ELSE UNCHANGED schedule

\* What get_current_cpu may return: -1 if the platform cannot tell.
get_current_cpu(t) == {cpu[t], -1}

\* Mutated form of pin: the CPU is read before the thread is pinned.
pin_AfterReading(t) ==
    /\ pc[t] = "pin"
    /\ pin_thread_to_cpu(t)
    /\ \E current_cpu \in get_current_cpu(t) :
         last_cpu' = [last_cpu EXCEPT ![t] = current_cpu]
    /\ pc' = [pc EXCEPT ![t] = "increment"]
    /\ UNCHANGED <<cpu_id, counters, migrations, iteration>>

pin(t) ==
    /\ pc[t] = "pin"
    /\ IF cpu_id[t] >= 0 THEN pin_thread_to_cpu(t) ELSE UNCHANGED schedule
    /\ pc' = [pc EXCEPT ![t] = "first_reading"]
    /\ UNCHANGED <<cpu_id, counters, migrations, iteration, last_cpu>>

first_reading(t) ==
    /\ pc[t] = "first_reading"
    /\ \E current_cpu \in get_current_cpu(t) :
         last_cpu' = [last_cpu EXCEPT ![t] = current_cpu]
    /\ pc' = [pc EXCEPT ![t] = "increment"]
    /\ UNCHANGED <<cpu_id, counters, migrations, iteration, schedule>>

\* Mutated form of accessor: both threads use the first counter.
accessor_SameCounter(t) == "first"

\* first_accessor and second_accessor: each thread has its own counter.
accessor(t) == t

\* fetch_add, and a sample of the CPU in every SampleEvery-th iteration.
increment(t) ==
    /\ pc[t] = "increment"
    /\ iteration[t] < iterations
    /\ counters' = [counters EXCEPT ![accessor(t)] = @ + 1]
    /\ IF iteration[t] % SampleEvery # 0
       THEN iteration' = [iteration EXCEPT ![t] = @ + 1] /\ UNCHANGED pc
       ELSE pc' = [pc EXCEPT ![t] = "sample"] /\ UNCHANGED iteration
    /\ UNCHANGED <<cpu_id, migrations, last_cpu, schedule>>

sample(t) ==
    /\ pc[t] = "sample"
    /\ \E current_cpu \in get_current_cpu(t) :
         /\ migrations' =
              IF last_cpu[t] >= 0 /\ current_cpu >= 0 /\ current_cpu # last_cpu[t]
              THEN [migrations EXCEPT ![t] = @ + 1] ELSE migrations
         /\ last_cpu' = [last_cpu EXCEPT ![t] = current_cpu]
    /\ iteration' = [iteration EXCEPT ![t] = @ + 1]
    /\ pc' = [pc EXCEPT ![t] = "increment"]
    /\ UNCHANGED <<cpu_id, counters, schedule>>

\* The scheduler moves a thread that may run elsewhere.
migrate(t) ==
    /\ moves[t] < MaxMoves
    /\ \E to \in affinity[t] \ {cpu[t]} : cpu' = [cpu EXCEPT ![t] = to]
    /\ moves' = [moves EXCEPT ![t] = IF pc[t] = "pin" THEN @ ELSE @ + 1]
    /\ UNCHANGED <<cpu_id, counters, migrations, pc, iteration, last_cpu, affinity>>

run(t) == pin(t) \/ first_reading(t) \/ increment(t) \/ sample(t)

Ended(t) == pc[t] = "increment" /\ iteration[t] = iterations

BothJoined == (\A t \in Threads : Ended(t)) /\ UNCHANGED fsVars

FSNext == (\E t \in Threads : run(t) \/ migrate(t)) \/ BothJoined

FSSpec == FSInit /\ [][FSNext]_fsVars

-----------------------------------------------------------------------------
(***************************************************************************)
(* When both threads are joined, each printed counter is the number of     *)
(* iterations: the sampling branch neither skips nor repeats an increment, *)
(* and the threads do not touch each other's counter.                      *)
(***************************************************************************)
CountersExact ==
    (\A t \in Threads : Ended(t)) => \A t \in Threads : counters[t] = iterations

(***************************************************************************)
(* A counted migration is one that happened to a running thread: sampling  *)
(* may miss moves, and a reading that failed hides one, but no move is     *)
(* counted twice, and neither is the move that pinning a thread causes.    *)
(* So a thread that was pinned counts none.                                *)
(***************************************************************************)
MigrationsHappened == \A t \in Threads : migrations[t] <= moves[t]

=============================================================================
