------------------------- MODULE RevmBackendProofs --------------------------
(***************************************************************************)
(* Theorems about RevmBackend, for any set of callers (finite or not), any *)
(* concurrency limit and any timeout.                                      *)
(***************************************************************************)
EXTENDS RevmBackend, SequenceTheorems, FiniteSetTheorems, TLAPS

-----------------------------------------------------------------------------
(* Results *)

AllEnds    == UNION {Ends(t) : t \in Callers}
AllAnswers == {Joined(end) : end \in AllEnds} \cup {TimedOut}

\* What simulate answers for the end of a job tells the three kinds of
\* answer apart, and carries the candidate's output only for a success.
LEMMA JoinedProperties ==
    ASSUME NEW c, NEW end \in Ends(c)
    PROVE  /\ end = Failed => Joined(end) = [ok |-> {}, err |-> {"Backend"}]
           /\ end # Failed =>
                 /\ Joined(end).err = {}
                 /\ Joined(end).ok = {convert_result(end)}
                 /\ convert_result(end).revert_reason = {} <=> end.kind = "Success"
                 /\ end.kind = "Success" => convert_result(end).return_data = c
  BY DEF Ends, Failed, Joined, convert_result, Success, Revert, Halt

\* Ends of a caller's own job are among all ends, and its answers among all
\* answers.
LEMMA EndsType ==
    ASSUME NEW c \in Callers
    PROVE  /\ Ends(c) \subseteq AllEnds
           /\ \A end \in Ends(c) : Joined(end) \in AllAnswers
           /\ TimedOut \in AllAnswers
  BY DEF AllEnds, AllAnswers

-----------------------------------------------------------------------------
(* The inductive invariant *)

\* TypeOK with the domains of the functions, and without the upper bound on
\* permits, which is a consequence of PermitInv.
Typed ==
    /\ call \in [Callers -> {"idle", "waiting", "running", "joined"}]
    /\ queue \in Seq(Callers)
    /\ permits \in Nat
    /\ budget \in [Callers -> 0..Timeout]
    /\ orphans \in Nat
    /\ job \in [Callers -> [env : SUBSET Callers, end : SUBSET AllEnds]]
    /\ answer \in [Callers -> SUBSET AllAnswers]

\* However many callers there are, only finitely many run at once.
PermitInv == IsFiniteSet(Running) /\ PermitsMatchRunningJobs

\* A job holds the candidate of its own caller; it has not ended while the
\* call runs, and has ended when the call is joined.
JobInv(c) ==
    /\ job[c] = NoJob \/ (job[c].env = {c} /\ job[c].end \subseteq Ends(c))
    /\ call[c] = "running" => job[c].env = {c} /\ job[c].end = {}
    /\ call[c] = "joined" => \E end \in Ends(c) : job[c].end = {end}

\* There is an answer only after the call, and it is about the caller's job:
\* Timeout while the job has not ended, the result once it has.
AnswerInv(c) ==
    /\ call[c] # "idle" => answer[c] = {}
    /\ \A a \in answer[c] :
          \/ a = TimedOut /\ job[c].end = {}
          \/ \E end \in Ends(c) : job[c].end = {end} /\ a = Joined(end)

CallInv == \A c \in Callers : JobInv(c) /\ AnswerInv(c)

BackendInv == Typed /\ PermitInv /\ CallInv

\* Nobody has called simulate.
LEMMA BackendInit == Init => BackendInv
<1> SUFFICES ASSUME Init PROVE BackendInv
  OBVIOUS
<1>1. Typed
  BY LimitAssumption, TimeoutAssumption DEF Init, Typed, NoJob
<1>2. Running = {}
  BY DEF Init, Running
<1>3. PermitInv
  BY <1>2, FS_EmptySet, LimitAssumption
  DEF PermitInv, PermitsMatchRunningJobs, Init
<1>4. CallInv
  BY DEF Init, CallInv, JobInv, AnswerInv
<1> QED
  BY <1>1, <1>3, <1>4 DEF BackendInv

-----------------------------------------------------------------------------
(* Every action preserves it *)

\* Taking a caller out of the queue leaves a queue of callers.
LEMMA RemoveAtType ==
    ASSUME NEW i \in DOMAIN queue, queue \in Seq(Callers)
    PROVE  RemoveAt(queue, i) \in Seq(Callers)
<1>1. Len(queue) \in Nat /\ i \in 1..Len(queue)
  BY LenProperties
<1>2. \A j \in 1..Len(queue) : queue[j] \in Callers
  BY ElementOfSeq
<1>3. SubSeq(queue, 1, i - 1) \in Seq(Callers)
  BY <1>1, <1>2, SubSeqProperties
<1>4. SubSeq(queue, i + 1, Len(queue)) \in Seq(Callers)
  BY <1>1, <1>2, SubSeqProperties
<1> QED
  BY <1>3, <1>4, ConcatProperties DEF RemoveAt

\* Types.
LEMMA TypedStep == BackendInv /\ [Next]_vars => Typed'
<1> SUFFICES ASSUME BackendInv, [Next]_vars PROVE Typed'
  OBVIOUS
<1> USE DEF Typed
<1>inv. Typed /\ CallInv
  BY DEF BackendInv
<1>leave. ASSUME NEW c \in Callers, NEW result \in SUBSET AllAnswers,
                 Leave(c, result)
          PROVE  /\ call' \in [Callers -> {"idle", "waiting", "running", "joined"}]
                 /\ budget' \in [Callers -> 0..Timeout]
                 /\ answer' \in [Callers -> SUBSET AllAnswers]
  BY <1>leave, <1>inv, TimeoutAssumption DEF Leave
<1>nojob. NoJob \in [env : SUBSET Callers, end : SUBSET AllEnds]
  BY DEF NoJob
<1>1. ASSUME NEW c \in Callers, Simulate(c) PROVE Typed'
  BY <1>1, <1>inv, <1>nojob DEF Simulate
<1>2. ASSUME NEW c \in Callers, AcquireAndSpawn(c) PROVE Typed'
  <2>1. queue' \in Seq(Callers)
    <3>1. CASE queue = <<>>
      BY <1>2, <3>1, <1>inv DEF AcquireAndSpawn
    <3>2. CASE queue # <<>>
      BY <1>2, <3>2, <1>inv, HeadTailProperties DEF AcquireAndSpawn
    <3> QED
      BY <3>1, <3>2
  <2>2. [env |-> {c}, end |-> {}] \in [env : SUBSET Callers, end : SUBSET AllEnds]
    OBVIOUS
  <2> QED
    BY <1>2, <1>inv, <2>1, <2>2, TimeoutAssumption DEF AcquireAndSpawn, Spawn
<1>3. ASSUME NEW c \in Callers, ReturnResult(c) PROVE Typed'
  <2>1. {Joined(end) : end \in job[c].end} \in SUBSET AllAnswers
    BY <1>inv DEF AllAnswers
  <2> QED
    BY <1>3, <1>inv, <2>1, <1>leave DEF ReturnResult
<1>4. ASSUME NEW c \in Callers, ReturnTimeout(c) PROVE Typed'
  <2>1. {TimedOut} \in SUBSET AllAnswers
    BY DEF AllAnswers
  <2> QED
    BY <1>4, <1>inv, <2>1, <1>leave DEF ReturnTimeout
<1>5. ASSUME NEW c \in Callers, FinishJob(c) PROVE Typed'
  <2>1. job[c].env = {c}
    BY <1>5, <1>inv DEF FinishJob, CallInv, JobInv
  <2>2. PICK end \in Ends(c) :
           job' = [job EXCEPT ![c] = [env |-> {c}, end |-> {end}]]
    BY <1>5, <2>1 DEF FinishJob
  <2>3. {end} \in SUBSET AllEnds
    BY EndsType
  <2>4. job' \in [Callers -> [env : SUBSET Callers, end : SUBSET AllEnds]]
    BY <1>inv, <2>2, <2>3
  <2> QED
    BY <1>5, <1>inv, <2>4 DEF FinishJob
<1>6. ASSUME NEW c \in Callers, Cancel(c) PROVE Typed'
  <2>1. queue' \in Seq(Callers)
    BY <1>6, <1>inv, RemoveAtType DEF Cancel
  <2> QED
    BY <1>6, <1>inv, <1>nojob, <2>1, <1>leave DEF Cancel
<1>7. CASE FinishOrphan
  BY <1>7, <1>inv DEF FinishOrphan
<1>8. CASE Tick
  BY <1>8, <1>inv, TimeoutAssumption DEF Tick
<1>9. CASE UNCHANGED vars
  BY <1>9, <1>inv DEF vars
<1> QED
  BY <1>1, <1>2, <1>3, <1>4, <1>5, <1>6, <1>7, <1>8, <1>9
  DEF Next, CallerStep

\* Permits: the set of running calls grows with a permit taken, and shrinks
\* with a permit returned or with a job that is orphaned.
LEMMA PermitStep == BackendInv /\ [Next]_vars => PermitInv'
<1> SUFFICES ASSUME BackendInv, [Next]_vars PROVE PermitInv'
  OBVIOUS
<1>inv. /\ Typed /\ IsFiniteSet(Running)
        /\ permits + Cardinality(Running) + orphans = Limit
        /\ Cardinality(Running) \in Nat
  BY FS_CardinalityType DEF BackendInv, PermitInv, PermitsMatchRunningJobs
<1>num. permits \in Nat /\ orphans \in Nat /\ Limit \in Nat
  BY <1>inv, LimitAssumption DEF Typed
\* The three ways a step may change the running calls.
<1>same. ASSUME Running' = Running,
                \/ permits' = permits /\ orphans' = orphans
                \/ permits' = permits + 1 /\ orphans' = orphans - 1
         PROVE  PermitInv'
  BY <1>same, <1>inv, <1>num DEF PermitInv, PermitsMatchRunningJobs
<1>more. ASSUME NEW c, c \notin Running, Running' = Running \cup {c},
                permits' = permits - 1, orphans' = orphans
         PROVE  PermitInv'
  <2>1. /\ IsFiniteSet(Running')
        /\ Cardinality(Running') = Cardinality(Running) + 1
    BY <1>more, <1>inv, FS_AddElement
  <2> QED
    BY <1>more, <1>inv, <1>num, <2>1 DEF PermitInv, PermitsMatchRunningJobs
<1>fewer. ASSUME NEW c \in Running, Running' = Running \ {c},
                 \/ permits' = permits + 1 /\ orphans' = orphans
                 \/ permits' = permits /\ orphans' = orphans + 1
          PROVE  PermitInv'
  <2>1. /\ IsFiniteSet(Running')
        /\ Cardinality(Running') = Cardinality(Running) - 1
    BY <1>fewer, <1>inv, FS_RemoveElement
  <2> QED
    BY <1>fewer, <1>inv, <1>num, <2>1 DEF PermitInv, PermitsMatchRunningJobs
<1> USE DEF Running
<1>call. call \in [Callers -> {"idle", "waiting", "running", "joined"}]
  BY <1>inv DEF Typed
<1>1. ASSUME NEW c \in Callers, Simulate(c) PROVE PermitInv'
  <2>1. Running' = Running
    BY <1>1, <1>call DEF Simulate
  <2> QED
    BY <1>1, <2>1, <1>num, <1>same DEF Simulate
<1>2. ASSUME NEW c \in Callers, AcquireAndSpawn(c) PROVE PermitInv'
  <2>1. c \notin Running /\ Running' = Running \cup {c}
    BY <1>2, <1>call DEF AcquireAndSpawn, Spawn
  <2> QED
    BY <1>2, <2>1, <1>more DEF AcquireAndSpawn, Spawn
<1>3. ASSUME NEW c \in Callers, ReturnResult(c) PROVE PermitInv'
  <2>1. Running' = Running
    BY <1>3, <1>call DEF ReturnResult, Leave
  <2> QED
    BY <1>3, <2>1, <1>num, <1>same DEF ReturnResult
<1>4. ASSUME NEW c \in Callers, ReturnTimeout(c) PROVE PermitInv'
  <2>1. c \in Running /\ Running' = Running \ {c}
    BY <1>4, <1>call DEF ReturnTimeout, Leave
  <2>2. permits' = permits /\ orphans' = orphans + 1
    BY <1>4 DEF ReturnTimeout
  <2> HIDE DEF Running
  <2> QED
    BY <2>1, <2>2, <1>num, <1>fewer
<1>5. ASSUME NEW c \in Callers, FinishJob(c) PROVE PermitInv'
  <2>1. c \in Running /\ Running' = Running \ {c}
    BY <1>5, <1>call DEF FinishJob
  <2>2. permits' = permits + 1 /\ orphans' = orphans
    BY <1>5 DEF FinishJob
  <2> HIDE DEF Running
  <2> QED
    BY <2>1, <2>2, <1>num, <1>fewer
<1>6. ASSUME NEW c \in Callers, Cancel(c) PROVE PermitInv'
  <2>1. CASE call[c] = "running"
    <3>1. c \in Running /\ Running' = Running \ {c}
      BY <1>6, <2>1, <1>call DEF Cancel, Leave
    <3>2. permits' = permits /\ orphans' = orphans + 1
      BY <1>6, <2>1 DEF Cancel
    <3> HIDE DEF Running
    <3> QED
      BY <3>1, <3>2, <1>num, <1>fewer
  <2>2. CASE call[c] # "running"
    <3>1. Running' = Running
      BY <1>6, <2>2, <1>call DEF Cancel, Leave
    <3> QED
      BY <1>6, <2>2, <3>1, <1>num, <1>same DEF Cancel
  <2> QED
    BY <2>1, <2>2
<1>7. CASE FinishOrphan
  <2>1. Running' = Running
    BY <1>7 DEF FinishOrphan
  <2>2. permits' = permits + 1 /\ orphans' = orphans - 1 /\ orphans > 0
    BY <1>7 DEF FinishOrphan
  <2> HIDE DEF Running
  <2> QED
    BY <2>1, <2>2, <1>num, <1>same
<1>8. CASE Tick
  <2>1. Running' = Running
    BY <1>8 DEF Tick
  <2> QED
    BY <1>8, <2>1, <1>num, <1>same DEF Tick
<1>9. CASE UNCHANGED vars
  <2>1. Running' = Running
    BY <1>9 DEF vars
  <2> QED
    BY <1>9, <2>1, <1>num, <1>same DEF vars
<1> QED
  BY <1>1, <1>2, <1>3, <1>4, <1>5, <1>6, <1>7, <1>8, <1>9
  DEF Next, CallerStep

\* Jobs and answers: a step of one caller leaves the job and the answer of
\* every other alone.
LEMMA CallStep == BackendInv /\ [Next]_vars => CallInv'
<1> SUFFICES ASSUME BackendInv, [Next]_vars PROVE CallInv'
  OBVIOUS
<1>inv. Typed /\ \A c \in Callers : JobInv(c) /\ AnswerInv(c)
  BY DEF BackendInv, CallInv
<1>own. ASSUME NEW c \in Callers,
               \A d \in Callers \ {c} : /\ call'[d] = call[d] /\ job'[d] = job[d]
                                        /\ answer'[d] = answer[d],
               JobInv(c)', AnswerInv(c)'
        PROVE  CallInv'
  <2>1. \A d \in Callers \ {c} : JobInv(d)' /\ AnswerInv(d)'
    BY <1>own, <1>inv DEF JobInv, AnswerInv
  <2> QED
    BY <1>own, <2>1 DEF CallInv
<1>1. ASSUME NEW c \in Callers, Simulate(c) PROVE CallInv'
  <2>1. /\ call'[c] = "waiting" /\ job'[c] = NoJob /\ answer'[c] = {}
        /\ \A d \in Callers \ {c} : /\ call'[d] = call[d] /\ job'[d] = job[d]
                                    /\ answer'[d] = answer[d]
    BY <1>1, <1>inv DEF Simulate, Typed
  <2>2. JobInv(c)' /\ AnswerInv(c)'
    BY <2>1 DEF JobInv, AnswerInv
  <2> QED
    BY <2>1, <2>2, <1>own
<1>2. ASSUME NEW c \in Callers, AcquireAndSpawn(c) PROVE CallInv'
  <2>1. /\ call[c] = "waiting" /\ call'[c] = "running"
        /\ job'[c] = [env |-> {c}, end |-> {}] /\ answer' = answer
        /\ \A d \in Callers \ {c} : call'[d] = call[d] /\ job'[d] = job[d]
    BY <1>2, <1>inv DEF AcquireAndSpawn, Spawn, Typed
  <2>2. answer[c] = {}
    BY <1>inv, <2>1 DEF AnswerInv
  <2>3. JobInv(c)' /\ AnswerInv(c)'
    BY <2>1, <2>2 DEF JobInv, AnswerInv
  <2> QED
    BY <2>1, <2>3, <1>own
<1>3. ASSUME NEW c \in Callers, ReturnResult(c) PROVE CallInv'
  <2>1. /\ call[c] = "joined" /\ call'[c] = "idle" /\ job' = job
        /\ answer'[c] = {Joined(end) : end \in job[c].end}
        /\ \A d \in Callers \ {c} : call'[d] = call[d] /\ answer'[d] = answer[d]
    BY <1>3, <1>inv DEF ReturnResult, Leave, Typed
  <2>2. PICK end \in Ends(c) : job[c].end = {end}
    BY <1>inv, <2>1 DEF JobInv
  <2>3. answer'[c] = {Joined(end)}
    BY <2>1, <2>2
  <2>4. JobInv(c)' /\ AnswerInv(c)'
    BY <1>inv, <2>1, <2>2, <2>3 DEF JobInv, AnswerInv
  <2> QED
    BY <2>1, <2>4, <1>own
<1>4. ASSUME NEW c \in Callers, ReturnTimeout(c) PROVE CallInv'
  <2>1. /\ call[c] = "running" /\ call'[c] = "idle" /\ job' = job
        /\ answer'[c] = {TimedOut}
        /\ \A d \in Callers \ {c} : call'[d] = call[d] /\ answer'[d] = answer[d]
    BY <1>4, <1>inv DEF ReturnTimeout, Leave, Typed
  <2>2. job[c].end = {}
    BY <1>inv, <2>1 DEF JobInv
  <2>3. JobInv(c)' /\ AnswerInv(c)'
    BY <1>inv, <2>1, <2>2 DEF JobInv, AnswerInv
  <2> QED
    BY <2>1, <2>3, <1>own
<1>5. ASSUME NEW c \in Callers, FinishJob(c) PROVE CallInv'
  <2>1. call[c] = "running" /\ job[c].env = {c} /\ answer[c] = {}
    BY <1>5, <1>inv DEF FinishJob, JobInv, AnswerInv
  <2>2. PICK end \in Ends(c) :
           job' = [job EXCEPT ![c] = [env |-> {c}, end |-> {end}]]
    BY <1>5, <2>1 DEF FinishJob
  <2>3. /\ call'[c] = "joined" /\ job'[c] = [env |-> {c}, end |-> {end}]
        /\ answer' = answer
        /\ \A d \in Callers \ {c} : call'[d] = call[d] /\ job'[d] = job[d]
    BY <1>5, <1>inv, <2>2 DEF FinishJob, Typed
  <2>4. JobInv(c)' /\ AnswerInv(c)'
    BY <2>1, <2>3 DEF JobInv, AnswerInv
  <2> QED
    BY <2>3, <2>4, <1>own
<1>6. ASSUME NEW c \in Callers, Cancel(c) PROVE CallInv'
  <2>1. /\ call'[c] = "idle" /\ job'[c] = NoJob /\ answer'[c] = {}
        /\ \A d \in Callers \ {c} : /\ call'[d] = call[d] /\ job'[d] = job[d]
                                    /\ answer'[d] = answer[d]
    BY <1>6, <1>inv DEF Cancel, Leave, Typed
  <2>2. JobInv(c)' /\ AnswerInv(c)'
    BY <2>1 DEF JobInv, AnswerInv
  <2> QED
    BY <2>1, <2>2, <1>own
<1>7. CASE UNCHANGED <<call, job, answer>>
  BY <1>7, <1>inv DEF CallInv, JobInv, AnswerInv
<1> QED
  BY <1>1, <1>2, <1>3, <1>4, <1>5, <1>6, <1>7
  DEF Next, CallerStep, FinishOrphan, Tick, vars

\* The inductive invariant holds throughout every behaviour.
LEMMA BackendInvariance == Spec => []BackendInv
<1>1. BackendInv /\ [Next]_vars => BackendInv'
  BY TypedStep, PermitStep, CallStep DEF BackendInv
<1> QED
  BY <1>1, BackendInit, PTL DEF Spec

-----------------------------------------------------------------------------
\* The state of the backend keeps its types; in particular the semaphore
\* never holds more than its limit, nor a timer more than the timeout.
THEOREM BackendTypeCorrect == Spec => []TypeOK
<1>1. BackendInv => TypeOK
  <2> SUFFICES ASSUME BackendInv PROVE TypeOK
    OBVIOUS
  <2>1. Typed /\ IsFiniteSet(Running) /\ PermitsMatchRunningJobs /\ CallInv
    BY DEF BackendInv, PermitInv
  <2>2. permits \in 0..Limit
    <3>1. Cardinality(Running) \in Nat
      BY <2>1, FS_CardinalityType
    <3> QED
      BY <2>1, <3>1, LimitAssumption DEF Typed, PermitsMatchRunningJobs
  <2>3. \A c \in Callers : /\ job[c].env \subseteq Callers
                           /\ answer[c] \subseteq AllAnswers
    BY <2>1 DEF Typed
  <2>4. \A c \in Callers : \A t \in job[c].env : job[c].end \subseteq Ends(t)
    <3> SUFFICES ASSUME NEW c \in Callers, NEW t \in job[c].env
                 PROVE  job[c].end \subseteq Ends(t)
      OBVIOUS
    <3>1. job[c] = NoJob \/ (job[c].env = {c} /\ job[c].end \subseteq Ends(c))
      BY <2>1 DEF CallInv, JobInv
    <3> QED
      BY <3>1 DEF NoJob
  <2> QED
    BY <2>1, <2>2, <2>3, <2>4 DEF TypeOK, Typed, AllAnswers, AllEnds
<1> QED
  BY <1>1, BackendInvariance, PTL

\* Through timeouts, dropped futures and failing jobs no permit is leaked or
\* doubled, for any number of callers and any limit.
THEOREM PermitsConserved == Spec => []PermitsMatchRunningJobs
<1>1. BackendInv => PermitsMatchRunningJobs
  BY DEF BackendInv, PermitInv
<1> QED
  BY <1>1, BackendInvariance, PTL

\* An answer of simulate is about the caller's own candidate and says what
\* became of its own job.
THEOREM OwnAnswers == Spec => []AnswersTheCallersQuestion
<1>1. BackendInv => AnswersTheCallersQuestion
  <2> SUFFICES ASSUME BackendInv, NEW c \in Callers, NEW a \in answer[c]
               PROVE  /\ \A out \in a.ok : out.revert_reason = {}
                                              => out.return_data = c
                      /\ \A out \in a.ok : \E end \in job[c].end :
                            (out.revert_reason = {}) = (end.kind = "Success")
                      /\ a.err = {"Timeout"} <=> job[c].end = {}
                      /\ a.err = {"Backend"} <=> job[c].end = {Failed}
    BY DEF AnswersTheCallersQuestion
  <2>1. \/ a = TimedOut /\ job[c].end = {}
        \/ \E end \in Ends(c) : job[c].end = {end} /\ a = Joined(end)
    BY DEF BackendInv, CallInv, AnswerInv
  <2>2. CASE a = TimedOut /\ job[c].end = {}
    BY <2>2 DEF TimedOut
  <2>3. ASSUME NEW end \in Ends(c), job[c].end = {end}, a = Joined(end)
        PROVE  /\ \A out \in a.ok : out.revert_reason = {}
                                       => out.return_data = c
               /\ \A out \in a.ok : \E e \in job[c].end :
                     (out.revert_reason = {}) = (e.kind = "Success")
               /\ a.err = {"Timeout"} <=> job[c].end = {}
               /\ a.err = {"Backend"} <=> job[c].end = {Failed}
    <3>1. CASE end = Failed
      BY <2>3, <3>1, JoinedProperties
    <3>2. CASE end # Failed
      BY <2>3, <3>2, JoinedProperties
    <3> QED
      BY <3>1, <3>2
  <2> QED
    BY <2>1, <2>2, <2>3
<1> QED
  BY <1>1, BackendInvariance, PTL

=============================================================================
