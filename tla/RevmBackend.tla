---------------------------- MODULE RevmBackend -----------------------------
(***************************************************************************)
(* revm-backend/src/backend.rs: RevmBackend::simulate called by several    *)
(* async tasks that share one semaphore.                                   *)
(*                                                                         *)
(* A call waits for a permit, moves it into a blocking job, and waits for  *)
(* the job under a timeout.  The timeout abandons the job; it does not     *)
(* stop it, and the permit goes back only when the job ends.  A job ends   *)
(* with what the EVM made of its transaction, with a database or EVM       *)
(* error, or with a panic.  The candidate of a caller is named after the   *)
(* caller, and stands for its own output too.                              *)
(*                                                                         *)
(* Time is counted in ticks.  Timers and wake-ups are prompt: the clock    *)
(* does not pass a deadline that nobody has acted on, nor a permit that    *)
(* a waiting task could take.                                              *)
(***************************************************************************)
EXTENDS Integers, Sequences, FiniteSets, SequencesExt, SimOutput

CONSTANTS
    Callers,      \* tasks that call simulate
    Limit,        \* concurrency_limit
    Timeout       \* timeout(), in ticks; 0 when the fraction rounds to 0 ms

ASSUME LimitAssumption   == Limit \in Nat \ {0}
ASSUME TimeoutAssumption == Timeout \in Nat

VARIABLES
    call,      \* what each caller is doing
    queue,     \* the callers waiting for a permit, in order
    permits,   \* permits of the semaphore that are free
    budget,    \* ticks left of a caller's timeout
    orphans,   \* jobs still running whose caller is gone
    job,       \* the candidate in the job of a caller's last call, and its end
    answer     \* what simulate returned to the caller's last call, or none: {}

vars == <<call, queue, permits, budget, orphans, job, answer>>

\* How the job of candidate t may end: with what the EVM made of it, or with
\* nothing to show, because fresh_db or transact failed or the job panicked.
Failed  == [kind |-> "Failed", output |-> <<>>, logs |-> <<>>]
Ends(t) == {Success(t, <<>>), Revert(t), Halt, Failed}
NoJob   == [env |-> {}, end |-> {}]

\* The Result that simulate returns for the end of a job (a panic is a
\* JoinError), and the one it returns for an elapsed timeout.
Joined(end) == IF end = Failed THEN [ok |-> {}, err |-> {"Backend"}]
               ELSE [ok |-> {convert_result(end)}, err |-> {}]
TimedOut    == [ok |-> {}, err |-> {"Timeout"}]

Init ==
    /\ call = [c \in Callers |-> "idle"]
    /\ queue = <<>>
    /\ permits = Limit
    /\ budget = [c \in Callers |-> 0]
    /\ orphans = 0
    /\ job = [c \in Callers |-> NoJob]
    /\ answer = [c \in Callers |-> {}]

\* The call of c ends with a Result, or dropped, with none.
Leave(c, result) ==
    /\ call' = [call EXCEPT ![c] = "idle"]
    /\ budget' = [budget EXCEPT ![c] = 0]
    /\ answer' = [answer EXCEPT ![c] = result]

-----------------------------------------------------------------------------
\* simulate is called: acquire_owned queues the caller.
Simulate(c) ==
    /\ call[c] = "idle"
    /\ call' = [call EXCEPT ![c] = "waiting"]
    /\ queue' = Append(queue, c)
    /\ job' = [job EXCEPT ![c] = NoJob]
    /\ answer' = [answer EXCEPT ![c] = {}]
    /\ UNCHANGED <<permits, budget, orphans>>

\* tx_env and block_env of the call, moved into its blocking job.
Spawn(c, t) ==
    /\ call' = [call EXCEPT ![c] = "running"]
    /\ job' = [job EXCEPT ![c] = [env |-> {t}, end |-> {}]]
    /\ UNCHANGED <<orphans, answer>>

\* Mutant: one environment is shared by all calls, and holds the candidate
\* of the caller that asked last.
AcquireAndSpawn_SharedEnv(c) ==
    /\ call[c] = "waiting"
    /\ permits > 0
    /\ c = Head(queue)
    /\ permits' = permits - 1
    /\ queue' = Tail(queue)
    /\ budget' = [budget EXCEPT ![c] = Timeout]
    /\ Spawn(c, queue[Len(queue)])

\* Mutant: any waiter may take a free permit, not only the first.
AcquireAndSpawn_AnyOrder(c) ==
    /\ call[c] = "waiting"
    /\ permits > 0
    /\ permits' = permits - 1
    /\ queue' = SelectSeq(queue, LAMBDA d : d # c)
    /\ budget' = [budget EXCEPT ![c] = Timeout]
    /\ Spawn(c, c)

\* Mutant: the timeout is the whole block time instead of a fraction of it.
AcquireAndSpawn_WholeBlock(c) ==
    /\ call[c] = "waiting"
    /\ permits > 0
    /\ c = Head(queue)
    /\ permits' = permits - 1
    /\ queue' = Tail(queue)
    /\ budget' = [budget EXCEPT ![c] = 2 * Timeout]
    /\ Spawn(c, c)

\* The semaphore serves waiters in order.  The caller moves the permit into
\* a blocking job and starts the timeout.
AcquireAndSpawn(c) ==
    /\ call[c] = "waiting"
    /\ permits > 0
    /\ c = Head(queue)
    /\ permits' = permits - 1
    /\ queue' = Tail(queue)
    /\ budget' = [budget EXCEPT ![c] = Timeout]
    /\ Spawn(c, c)

\* The job of c ends, well or badly, and drops its permit.
FinishJob(c) ==
    /\ call[c] = "running"
    /\ \E t \in job[c].env : \E end \in Ends(t) :
           job' = [job EXCEPT ![c] = [env |-> {t}, end |-> {end}]]
    /\ call' = [call EXCEPT ![c] = "joined"]
    /\ permits' = permits + 1
    /\ UNCHANGED <<queue, budget, orphans, answer>>

\* An abandoned job ends; nobody sees its result.
FinishOrphan ==
    /\ orphans > 0
    /\ orphans' = orphans - 1
    /\ permits' = permits + 1
    /\ UNCHANGED <<call, queue, budget, job, answer>>

\* The join handle is ready: simulate returns the job's result.  timeout()
\* polls the handle before the timer, so this wins at the deadline.
ReturnResult(c) ==
    /\ call[c] = "joined"
    /\ Leave(c, {Joined(end) : end \in job[c].end})
    /\ UNCHANGED <<queue, permits, orphans, job>>

\* Mutant: the permit belongs to the call, not to the job.
ReturnTimeout_DropsPermit(c) ==
    /\ call[c] = "running"
    /\ budget[c] = 0
    /\ orphans' = orphans + 1
    /\ permits' = permits + 1
    /\ Leave(c, {TimedOut})
    /\ UNCHANGED <<queue, job>>

\* The timer fires first: simulate returns Timeout and the job goes on.
ReturnTimeout(c) ==
    /\ call[c] = "running"
    /\ budget[c] = 0
    /\ orphans' = orphans + 1
    /\ Leave(c, {TimedOut})
    /\ UNCHANGED <<queue, permits, job>>

\* The caller drops the future of simulate.  A queued acquire leaves the
\* queue; a job that was spawned is detached.
Cancel(c) ==
    /\ call[c] # "idle"
    /\ \/ call[c] # "waiting" /\ UNCHANGED queue
       \/ \E i \in DOMAIN queue : queue[i] = c /\ queue' = RemoveAt(queue, i)
    /\ orphans' = IF call[c] = "running" THEN orphans + 1 ELSE orphans
    /\ Leave(c, {})
    /\ job' = [job EXCEPT ![c] = NoJob]
    /\ UNCHANGED permits

\* One tick for every timeout that is running.
Tick ==
    /\ \E c \in Callers : call[c] # "idle"
    /\ ~(permits > 0 /\ queue # <<>>)
    /\ \A c \in Callers : /\ call[c] # "joined"
                          /\ call[c] = "running" => budget[c] > 0
    /\ budget' = [c \in Callers |->
                     IF call[c] = "running" THEN budget[c] - 1 ELSE budget[c]]
    /\ UNCHANGED <<call, queue, permits, orphans, job, answer>>

-----------------------------------------------------------------------------
CallerStep(c) ==
    \/ AcquireAndSpawn(c) \/ ReturnResult(c) \/ ReturnTimeout(c)

Next ==
    \/ \E c \in Callers : \/ Simulate(c) \/ CallerStep(c)
                          \/ FinishJob(c) \/ Cancel(c)
    \/ FinishOrphan
    \/ Tick

Spec == Init /\ [][Next]_vars

\* The runtime polls tasks that are ready and the clock advances.
RuntimeFairness == WF_vars(Tick) /\ \A c \in Callers : WF_vars(CallerStep(c))

\* Every blocking job ends: the database calls it makes all return.
JobFairness == WF_vars(FinishOrphan) /\ \A c \in Callers : WF_vars(FinishJob(c))

FairSpec == Spec /\ RuntimeFairness /\ JobFairness

\* The same without JobFairness: fresh_db or a provider call may block.
HangingSpec == Spec /\ RuntimeFairness

-----------------------------------------------------------------------------
\* Types of the calls, the semaphore and the timers.
TypeOK ==
    /\ call \in [Callers -> {"idle", "waiting", "running", "joined"}]
    /\ queue \in Seq(Callers)
    /\ permits \in 0..Limit
    /\ budget \in [Callers -> 0..Timeout]
    /\ orphans \in Nat
    /\ \A c \in Callers : job[c].env \subseteq Callers
    /\ \A c \in Callers : \A t \in job[c].env : job[c].end \subseteq Ends(t)
    /\ \A c \in Callers : answer[c] \subseteq
           {Joined(end) : end \in UNION {Ends(t) : t \in Callers}} \cup {TimedOut}

Running == {c \in Callers : call[c] = "running"}

\* Through timeouts, dropped futures and failing jobs, every permit is
\* either free or held by exactly one job that is still running, so at most
\* concurrency_limit simulations hit the provider and none is ever leaked.
PermitsMatchRunningJobs ==
    permits + Cardinality(Running) + orphans = Limit

\* An answer is about the caller's own candidate and says what happened to
\* it, however many jobs run, time out and finish late in between: output
\* without a revert_reason only from a successful execution of that
\* transaction, Timeout only for a job that has not ended, and Backend only
\* for one that failed.  (ProfitDecoder trusts revert_reason to say so.)
AnswersTheCallersQuestion ==
    \A c \in Callers : \A a \in answer[c] :
        /\ \A out \in a.ok : out.revert_reason = {}
                                => out.return_data = c
        /\ \A out \in a.ok : \E end \in job[c].end :
               (out.revert_reason = {}) = (end.kind = "Success")
        /\ a.err = {"Timeout"} <=> job[c].end = {}
        /\ a.err = {"Backend"} <=> job[c].end = {Failed}

\* If every blocking job ends, no call to simulate waits forever.
EveryCallReturns ==
    \A c \in Callers : call[c] = "waiting" ~> call[c] = "idle"
=============================================================================
