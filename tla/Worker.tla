------------------------------- MODULE Worker -------------------------------
(***************************************************************************)
(* Worker processes (worker/src/index.ts) that poll the queue of JobQueue  *)
(* through the client (client/src/index.ts, HttpTransport.ts) and the      *)
(* routes of queueV2.routes.ts.                                            *)
(*                                                                         *)
(* A worker's poll loop is one timer or one claim request at a time, but   *)
(* stop() followed by run() can leave two loops.  One call of processJob() *)
(* is an execution.  Claims raise the job's attempts, so an execution is   *)
(* named by its job and the number of the attempt.                         *)
(*                                                                         *)
(* A request travels on its own: it can arrive late, after the client has  *)
(* given it up, or be lost, and so can its answer.  The default "auto"     *)
(* transport repeats over HTTP any request that failed over the WebSocket. *)
(* A heartbeat, whose outcome nobody reads, is sent and served in a step.  *)
(***************************************************************************)
EXTENDS JobQueue

CONSTANTS
    Workers,        \* the ErixWorker instances, each in a process of its own
    Dual,           \* those whose client has both transports
    MaxConcurrent,  \* options.maxConcurrentJobs
    Loops,          \* bound: poll loops a worker may have at once
    MaxStops,       \* [Workers -> Nat], bound: stop() calls of a worker
    MaxFaults,      \* [Workers -> Nat], bound: kills, requests given up unanswered
    NoLoop          \* pollTimer is undefined

ASSUME WorkerAssumption ==
    /\ Dual \subseteq Workers
    /\ MaxConcurrent \in Nat \ {0}
    /\ Loops \subseteq Nat /\ NoLoop \notin Loops
    /\ MaxStops \in [Workers -> Nat]
    /\ MaxFaults \in [Workers -> Nat]

VARIABLES
    running,     \* [Workers -> BOOLEAN]: isRunning
    stopping,    \* [Workers -> Nat]: stop() calls that wait for the active jobs
    loop,        \* [Workers -> [Loops -> state and try]]
    pollTimer,   \* [Workers -> the loop whose timer the field refers to]
    activeJobs,  \* [Workers -> [Jobs -> Nat]]: the attempt registered, 0: none
    exec,        \* [Executions -> state of the call of processJob()]
    wire,        \* the requests on their way to the server
    disturbed,   \* history: jobs reaped, or with a request given up
    stops,       \* [Workers -> Nat]: stop() calls so far
    faults       \* [Workers -> Nat]: kills and requests given up so far

workerVars == <<running, stopping, loop, pollTimer, activeJobs, exec, wire,
                disturbed, stops, faults>>

vars == <<queueVars, workerVars>>

Executions == UNION {{j} \X (1..MaxAttempts[j]) : j \in Jobs}

(* "coming": the claim's answer carries the job; "over": the execution has *)
(* ended, or died with its process, or nobody waits for the answer.        *)
Calling == {"complete", "fail"}
ExecPcs == {"none", "coming", "handler", "over"} \cup Calling

NoExec == [pc |-> "none", by |-> <<>>, beats |-> FALSE, try |-> 0, answer |-> "none"]
Over == [NoExec EXCEPT !.pc = "over"]

\* A request names its operation, its caller and which transport's try it is.
RequestOf(op, caller, try) == [op |-> op, caller |-> caller, try |-> try]

WorkerOf(e) == exec[e].by[1]

\* A fault within the bound of w.
Faulty(w) ==
    /\ faults[w] < MaxFaults[w]
    /\ faults' = [faults EXCEPT ![w] = @ + 1]

IdleLoop == [state |-> "off", try |-> 0]

Init ==
    /\ InitQueue
    /\ running = [w \in Workers |-> FALSE]
    /\ stopping = [w \in Workers |-> 0]
    /\ loop = [w \in Workers |-> [l \in Loops |-> IdleLoop]]
    /\ pollTimer = [w \in Workers |-> NoLoop]
    /\ activeJobs = [w \in Workers |-> [j \in Jobs |-> 0]]
    /\ exec = [e \in Executions |-> NoExec]
    /\ wire = {}
    /\ disturbed = {}
    /\ stops = [w \in Workers |-> 0]
    /\ faults = [w \in Workers |-> 0]

-----------------------------------------------------------------------------
(* Starting and stopping                                                   *)

\* Variant: scheduleNextPoll() does not look at isRunning.
SchedulesAlways(w, l) ==
    /\ loop' = [loop EXCEPT ![w][l] = [state |-> "timer", try |-> 0]]
    /\ pollTimer' = [pollTimer EXCEPT ![w] = l]

(* scheduleNextPoll(): the loop ends here when the worker has stopped.     *)
(* The field pollTimer forgets the timer of any other loop.                *)
SchedulesNext(w, l) ==
    IF running[w]
    THEN /\ loop' = [loop EXCEPT ![w][l] = [state |-> "timer", try |-> 0]]
         /\ pollTimer' = [pollTimer EXCEPT ![w] = l]
    ELSE /\ loop' = [loop EXCEPT ![w][l] = IdleLoop]
         /\ UNCHANGED pollTimer

\* run(): nothing when already running; a new loop starts.
Run(w) ==
    /\ ~running[w]
    /\ running' = [running EXCEPT ![w] = TRUE]
    /\ \E l \in Loops :
         /\ loop[w][l].state = "off"
         /\ \A k \in Loops : k < l => loop[w][k].state # "off"
         /\ loop' = [loop EXCEPT ![w][l] = [state |-> "timer", try |-> 0]]
         /\ pollTimer' = [pollTimer EXCEPT ![w] = l]
    /\ UNCHANGED <<queueVars, stopping, activeJobs, exec, wire, disturbed, stops, faults>>

(* stop(), also on SIGTERM and SIGINT: clears the timer pollTimer refers   *)
(* to, when it has not fired, and starts to wait.                          *)
Stop(w) ==
    /\ running[w]
    /\ stops[w] < MaxStops[w]
    /\ stops' = [stops EXCEPT ![w] = @ + 1]
    /\ running' = [running EXCEPT ![w] = FALSE]
    /\ stopping' = [stopping EXCEPT ![w] = @ + 1]
    /\ loop' = [loop EXCEPT ![w] = [l \in Loops |->
                  IF l = pollTimer[w] /\ @[l].state = "timer" THEN IdleLoop ELSE @[l]]]
    /\ pollTimer' = [pollTimer EXCEPT ![w] = NoLoop]
    /\ UNCHANGED <<queueVars, activeJobs, exec, wire, disturbed, faults>>

(* stop() returns, at once or after up to 30 s: it clears the interval of  *)
(* every job still registered, also of jobs that a later run() claimed.    *)
(* Their handlers go on.                                                   *)
StopReturns(w) ==
    /\ stopping[w] > 0
    /\ stopping' = [stopping EXCEPT ![w] = @ - 1]
    /\ exec' = [e \in Executions |->
                  IF activeJobs[w][e[1]] = e[2] THEN [exec[e] EXCEPT !.beats = FALSE]
                                                ELSE exec[e]]
    /\ activeJobs' = [activeJobs EXCEPT ![w] = [j \in Jobs |-> 0]]
    /\ UNCHANGED <<queueVars, running, loop, pollTimer, wire, disturbed, stops, faults>>

\* The process of w ends: its timers, handlers and pending calls are gone.
Exits(w) ==
    /\ running' = [running EXCEPT ![w] = FALSE]
    /\ stopping' = [stopping EXCEPT ![w] = 0]
    /\ loop' = [loop EXCEPT ![w] = [l \in Loops |-> IdleLoop]]
    /\ pollTimer' = [pollTimer EXCEPT ![w] = NoLoop]
    /\ activeJobs' = [activeJobs EXCEPT ![w] = [j \in Jobs |-> 0]]
    /\ exec' = [e \in Executions |->
                  IF exec[e].pc \notin {"none", "over"} /\ WorkerOf(e) = w
                  THEN Over ELSE exec[e]]

Killed(w) ==
    /\ running[w]
    /\ Faulty(w)
    /\ Exits(w)
    /\ UNCHANGED <<queueVars, wire, disturbed, stops>>

-----------------------------------------------------------------------------
(* Polling                                                                 *)

RegisteredJobs(w) == {j \in Jobs : activeJobs[w][j] # 0}

(* pollForJobs(), up to its await: the claim is sent unless the worker has *)
(* enough jobs.  A timer that stop() did not clear fires all the same.     *)
PollFires(w, l) ==
    /\ loop[w][l].state = "timer"
    /\ IF Cardinality(RegisteredJobs(w)) >= MaxConcurrent
       THEN SchedulesNext(w, l) /\ UNCHANGED wire
       ELSE /\ loop' = [loop EXCEPT ![w][l] = [state |-> "asked", try |-> 0]]
            /\ wire' = wire \cup {RequestOf("claim", <<w, l>>, 0)}
            /\ UNCHANGED pollTimer
    /\ UNCHANGED <<queueVars, running, stopping, activeJobs, exec, disturbed, stops, faults>>

Awaits(w, l, r) == loop[w][l] = [state |-> "asked", try |-> r.try]

\* Attempt n of j, claimed just now, is on its way to <<w, l>> or to nobody.
HandsOut(j, w, l, r) ==
    exec' = [exec EXCEPT ![<<j, job[j].attempts + 1>>] =
               IF Awaits(w, l, r) THEN [NoExec EXCEPT !.pc = "coming", !.by = <<w, l>>]
                                  ELSE Over]

(* The server's /claim route with a job to give.  While the answer is on   *)
(* its way the loop still waits.                                           *)
ServesClaim(r) ==
    /\ r.op = "claim"
    /\ wire' = wire \ {r}
    /\ \E j \in Jobs : Claim(j) /\ HandsOut(j, r.caller[1], r.caller[2], r)
    /\ loop' = IF Awaits(r.caller[1], r.caller[2], r)
               THEN [loop EXCEPT ![r.caller[1]][r.caller[2]].state = "answered"]
               ELSE loop
    /\ UNCHANGED <<running, stopping, pollTimer, activeJobs, disturbed, stops, faults>>

\* The same with nothing to give: { job: null }.
ServesNothing(r) ==
    /\ r.op = "claim"
    /\ Idle
    /\ \A j \in Jobs : ~Poppable(j)
    /\ wire' = wire \ {r}
    /\ IF Awaits(r.caller[1], r.caller[2], r)
       THEN SchedulesNext(r.caller[1], r.caller[2])
       ELSE UNCHANGED <<loop, pollTimer>>
    /\ UNCHANGED <<queueVars, running, stopping, activeJobs, exec, disturbed, stops, faults>>

\* Variant: the catch of pollForJobs() only logs.
PollEnds(w, l) == loop' = [loop EXCEPT ![w][l] = IdleLoop] /\ UNCHANGED pollTimer

\* The catch of pollForJobs().
PollRecovers(w, l) == SchedulesNext(w, l)

(* The claim is given up: no answer in time, or a broken connection, with  *)
(* the request lost or still on its way.  The job it may have claimed, or  *)
(* may still claim, has no worker.                                         *)
ClaimGivenUp(w, l) ==
    LET r == RequestOf("claim", <<w, l>>, loop[w][l].try) IN
    /\ loop[w][l].state \in {"asked", "answered"}
    /\ Faulty(w)
    /\ exec' = [e \in Executions |->
                  IF exec[e].pc = "coming" /\ exec[e].by = <<w, l>>
                  THEN Over ELSE exec[e]]
    /\ \E left \in {wire, wire \ {r}} :
         \/ /\ w \in Dual
            /\ r.try = 0
            /\ loop' = [loop EXCEPT ![w][l] = [state |-> "asked", try |-> 1]]
            /\ wire' = left \cup {[r EXCEPT !.try = 1]}
            /\ UNCHANGED pollTimer
         \/ PollRecovers(w, l) /\ wire' = left
    /\ UNCHANGED <<queueVars, running, stopping, activeJobs, disturbed, stops>>

(* The claim's answer arrives: processJob() starts the interval, registers *)
(* the job and calls the handler; the next poll is scheduled.  The Map is  *)
(* keyed by the job, so an earlier attempt's entry is replaced.            *)
ProcessJob(e) ==
    /\ exec[e].pc = "coming"
    /\ exec' = [exec EXCEPT ![e].pc = "handler", ![e].beats = TRUE]
    /\ activeJobs' = [activeJobs EXCEPT ![WorkerOf(e)][e[1]] = e[2]]
    /\ SchedulesNext(exec[e].by[1], exec[e].by[2])
    /\ UNCHANGED <<queueVars, running, stopping, wire, disturbed, stops, faults>>

-----------------------------------------------------------------------------
(* Processing                                                              *)

\* Variant: a request is repeated without waiting for the first to fail.
SendsBoth(e, op, try, left) ==
    /\ exec' = [exec EXCEPT ![e].pc = op, ![e].try = try, ![e].answer = "none"]
    /\ wire' = left \cup {RequestOf(op, e, 0), RequestOf(op, e, 1)}

\* Execution e sends the request op, the first or the repeated one, and waits.
Sends(e, op, try, left) ==
    /\ exec' = [exec EXCEPT ![e].pc = op, ![e].try = try, ![e].answer = "none"]
    /\ wire' = left \cup {RequestOf(op, e, try)}

\* The handler's promise settles; processJob() reports what it did.
HandlerSettles(e) ==
    /\ exec[e].pc = "handler"
    /\ \E op \in Calling : Sends(e, op, 0, wire)
    /\ UNCHANGED <<queueVars, running, stopping, loop, pollTimer, activeJobs,
                   disturbed, stops, faults>>

\* Variant: the interval found under the job's id is cleared.
CleansUpRegistered(e) ==
    LET registered == <<e[1], activeJobs[WorkerOf(e)][e[1]]>> IN
    /\ exec' = [x \in Executions |->
                  IF x = e THEN Over
                  ELSE [exec[x] EXCEPT !.beats = @ /\ x # registered]]
    /\ activeJobs' = [activeJobs EXCEPT ![WorkerOf(e)][e[1]] = 0]

(* The finally of processJob() clears its own interval and deletes the     *)
(* entry of the job, whichever attempt registered it.                      *)
CleansUp(e) ==
    /\ exec' = [exec EXCEPT ![e] = Over]
    /\ activeJobs' = [activeJobs EXCEPT ![WorkerOf(e)][e[1]] = 0]

Waits(r) == exec[r.caller].pc = r.op /\ exec[r.caller].try = r.try

(* The /complete and /fail routes: 404 when the job is not active.  The    *)
(* answer is for the execution, if it still waits for it.                  *)
ServesOutcome(r) ==
    LET j == r.caller[1] IN
    /\ r.op \in Calling
    /\ wire' = wire \ {r}
    /\ \/ r.op = "complete" /\ Complete(j)
       \/ r.op = "fail" /\ Fail(j)
       \/ Idle /\ ActiveSlots(j) = {} /\ UNCHANGED queueVars
    /\ exec' = [exec EXCEPT ![r.caller].answer =
                  CASE ~Waits(r) -> @
                    [] Waits(r) /\ ActiveSlots(j) = {} -> "refused"
                    [] OTHER -> "ok"]
    /\ UNCHANGED <<running, stopping, loop, pollTimer, activeJobs, disturbed, stops, faults>>

CallReturns(e) ==
    /\ exec[e].pc \in Calling
    /\ exec[e].answer = "ok"
    /\ CleansUp(e)
    /\ UNCHANGED <<queueVars, running, stopping, loop, pollTimer, wire, disturbed, stops, faults>>

(* A call rejects.  The "auto" transport repeats it over HTTP, also when   *)
(* the server refused it; a rejected complete(), whose handler succeeded,  *)
(* is reported by fail(); a rejected fail() leaves processJob(), which     *)
(* nobody awaits, and the unhandled rejection ends the process.            *)
Rejects(e, left) ==
    \/ /\ \/ exec[e].try = 0 /\ WorkerOf(e) \in Dual /\ Sends(e, exec[e].pc, 1, left)
          \/ exec[e].pc = "complete" /\ Sends(e, "fail", 0, left)
       /\ UNCHANGED <<running, stopping, loop, pollTimer, activeJobs>>
    \/ exec[e].pc = "fail" /\ Exits(WorkerOf(e)) /\ wire' = left

CallRefused(e) ==
    /\ exec[e].pc \in Calling
    /\ exec[e].answer = "refused"
    /\ Rejects(e, wire)
    /\ UNCHANGED <<queueVars, disturbed, stops, faults>>

(* Given up without an answer: the server has seen the request, or will    *)
(* see it later, or it is lost.                                            *)
CallGivenUp(e) ==
    /\ exec[e].pc \in Calling
    /\ Faulty(WorkerOf(e))
    /\ disturbed' = disturbed \cup {e[1]}
    /\ \E left \in {wire, wire \ {RequestOf(exec[e].pc, e, exec[e].try)}} : Rejects(e, left)
    /\ UNCHANGED <<queueVars, stops>>

\* The interval of e fires and its heartbeat is served.
Beats(e) ==
    /\ exec[e].beats
    /\ Heartbeat(e[1])
    /\ UNCHANGED workerVars

-----------------------------------------------------------------------------
\* The reaper fails one of the entries it found silent.
Reaps ==
    /\ ReaperVisits
    /\ disturbed' = disturbed \cup {active[s] : s \in reaping \ reaping'}
    /\ UNCHANGED <<running, stopping, loop, pollTimer, activeJobs, exec, wire, stops, faults>>

\* Producers, time and the other intervals of the server.
ServerOnly ==
    /\ \/ \E j \in Jobs : Add(j, FALSE) \/ HeartbeatAges(j) \/ RunAtPasses(j)
       \/ PromoteDelayed
       \/ ReaperFires
    /\ UNCHANGED workerVars

Next ==
    \/ \E w \in Workers :
         \/ Run(w) \/ Stop(w) \/ StopReturns(w) \/ Killed(w)
         \/ \E l \in Loops : PollFires(w, l) \/ ClaimGivenUp(w, l)
    \/ \E r \in wire : ServesClaim(r) \/ ServesNothing(r) \/ ServesOutcome(r)
    \/ \E e \in Executions :
         \/ ProcessJob(e) \/ HandlerSettles(e) \/ Beats(e)
         \/ CallReturns(e) \/ CallRefused(e) \/ CallGivenUp(e)
    \/ Reaps
    \/ ServerOnly

Spec == Init /\ [][Next]_vars

(* What moves the poll loops of w on: its timers fire, a claim on its way  *)
(* is served, its answer is taken up.                                      *)
PollLoopMoves(w) ==
    \/ \E l \in Loops : PollFires(w, l)
    \/ \E r \in wire : r.op = "claim" /\ r.caller[1] = w /\ (ServesClaim(r) \/ ServesNothing(r))
    \/ \E e \in Executions : exec[e].pc = "coming" /\ WorkerOf(e) = w /\ ProcessJob(e)

(* Timers fire and the server answers, and the reaper's loop runs to its   *)
(* end.  Nothing is assumed of handlers, of stop() or of run() calls.      *)
Fairness ==
    /\ WF_vars(Reaps)
    /\ \A w \in Workers : WF_vars(PollLoopMoves(w))

FairSpec == Spec /\ Fairness

-----------------------------------------------------------------------------
(***************************************************************************)
(* Properties                                                              *)
(***************************************************************************)
(* processJob() of one job at a time: a handler runs only while the queue  *)
(* holds its job active for that very attempt, unless the reaper took the  *)
(* job from it or a report was given up without an answer.  The at-least-  *)
(* once hand-out has no other cause: not stop(), not a second poll loop,   *)
(* not a claim that was repeated or served late.                           *)
HandlerOwnsJob ==
    \A e \in Executions : exec[e].pc = "handler" /\ e[1] \notin disturbed =>
        /\ job[e[1]].status = "active"
        /\ job[e[1]].attempts = e[2]
        /\ Cardinality(ActiveSlots(e[1])) = 1
        /\ \A x \in Executions : exec[x].pc = "handler" /\ x[1] = e[1] => x = e

(* The interval of a running handler ends only with a stop() that has      *)
(* waited: another attempt of the same job, which shares its entry of      *)
(* activeJobs, may not silence it.                                         *)
HandlerKeepsBeating ==
    [][\A e \in Executions :
          exec[e].pc = "handler" /\ exec'[e].pc = "handler" /\ exec[e].beats
          /\ ~exec'[e].beats
          => stopping'[WorkerOf(e)] < stopping[WorkerOf(e)]]_vars

(* The poll loop survives every outcome of a claim and every stop() and    *)
(* run(): a worker that is running has a timer or a claim under way.       *)
PollsWhileRunning ==
    \A w \in Workers : running[w] => \E l \in Loops : loop[w][l].state # "off"

(* A worker that is stopped for good comes to rest: a claim under way and  *)
(* a timer that stop() no longer knew end, and no loop schedules another.  *)
StoppedWorkerRests ==
    \A w \in Workers :
        <>[](~running[w]) => <>[](\A l \in Loops : loop[w][l].state = "off")
=============================================================================
