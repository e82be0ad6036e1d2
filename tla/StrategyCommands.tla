-------------------------- MODULE StrategyCommands --------------------------
(***************************************************************************)
(* The durable start and stop commands of one strategy that runs on the    *)
(* trading-worker pool: the HTTP routes that write the desired status and  *)
(* enqueue, the queue qd_strategy_commands, and the workers that claim,    *)
(* execute, retry and restore.                                             *)
(*                                                                         *)
(* A worker executes commands and restores on one thread (`pc'); its       *)
(* heartbeat thread is felt as the loss of the command (`valid') or of the *)
(* strategy lease (`guard').  Every database statement is one step.  The   *)
(* columns of the queue are functions on command ids; time is reduced to   *)
(* whether a lease is live (`by', `owner') and whether a retry delay has   *)
(* passed (`due').  RuntimeLease has the strategy lease in detail, with    *)
(* the term it is granted for before the first renewal.                    *)
(***************************************************************************)
EXTENDS Integers, FiniteSets

CONSTANTS
    Workers,     \* trading workers
    Users,       \* concurrent HTTP requests
    NoOwner,     \* claimed_by = NULL, owner_id = ''
    MaxCommands, \* bound on rows of qd_strategy_commands
    MaxCalls,    \* bound on start and stop requests
    MaxAttempts, \* STRATEGY_COMMAND_MAX_ATTEMPTS
    RestoreMax,  \* STRATEGY_RESTORE_MAX_ATTEMPTS
    MaxCrashes   \* bound on crashes, lost heartbeats and stalls of workers

Ids == 1..MaxCommands

ASSUME CommandsAssumption ==
    /\ NoOwner \notin Workers
    /\ MaxCommands \in Nat /\ MaxCalls \in Nat /\ MaxCrashes \in Nat
    /\ MaxAttempts \in Nat \ {0} /\ RestoreMax \in Nat \ {0}

VARIABLES
    status,    \* qd_strategies_trading.status: is the strategy desired to run?
    type,      \* command_type
    state,     \* status; "none" for a row not inserted yet
    by,        \* claimed_by while lease_expires_at >= NOW(), NoOwner otherwise
    due,       \* available_at <= NOW(), for a pending command
    attempts,  \* attempts
    close,     \* payload_json.close_positions
    owner,     \* owner_id of the strategy lease, likewise
    leader,    \* the worker that leads the global services
    pc,        \* where each worker's thread is
    cmd,       \* the command it executes, 0 while it restores
    seen,      \* command.attempts as claimed
    closing,   \* command.payload.close_positions as claimed
    valid,     \* LeaseHeartbeat.command_valid
    guard,     \* LeaseHeartbeat.strategy_valid
    rt,        \* is a runtime of the strategy alive in this process?
    halt,      \* its stop_event
    fails,     \* TradingWorker._restore_failure_counts
    quit,      \* TradingWorker._stop
    upc,       \* where each request is
    ucmd,      \* the command it waits for
    calls,     \* requests made so far
    crashes,   \* crashes, lost heartbeats and stalls so far
    late,      \* commands whose lease has run out unnoticed (history)
    asked,     \* commands told to close before they were claimed (history)
    closed,    \* commands whose execution queued the closes (history)
    wish       \* the latest request; "joined" when a stop was answered with
               \* a command already in processing (history)

queue == <<type, state, by, due, attempts, close>>
job == <<cmd, seen, closing, valid>>
local == <<guard, rt, halt>>
self == <<fails, quit, leader>>
worker == <<pc, job, local, self>>
request == <<upc, ucmd, calls, wish, asked>>
faults == <<crashes, late>>
vars == <<status, queue, owner, worker, request, faults, closed>>

-----------------------------------------------------------------------------
Types == {"start", "stop"}
States == {"none", "pending", "processing", "succeeded", "failed"}
Active == {"pending", "processing"}
Terminal == {"succeeded", "failed"}
Steps == {"idle", "start", "acquire", "launch", "ready", "undo", "stop", "join",
          "release", "revoke", "ok", "error", "recordOk", "recordError",
          "giveUp"}
RequestSteps == {"idle", "enqueue", "startWait", "stopWait"}

QueueTypeOK ==
    /\ type \in [Ids -> Types] /\ state \in [Ids -> States]
    /\ by \in [Ids -> Workers \cup {NoOwner}]
    /\ due \in [Ids -> BOOLEAN]
    /\ attempts \in [Ids -> 0..MaxAttempts]
    /\ close \in [Ids -> BOOLEAN]

JobTypeOK ==
    /\ pc \in [Workers -> Steps]
    /\ cmd \in [Workers -> Ids \cup {0}]
    /\ seen \in [Workers -> 0..MaxAttempts]
    /\ closing \in [Workers -> BOOLEAN] /\ valid \in [Workers -> BOOLEAN]

LocalTypeOK ==
    /\ guard \in [Workers -> BOOLEAN] /\ rt \in [Workers -> BOOLEAN]
    /\ halt \in [Workers -> BOOLEAN] /\ quit \in [Workers -> BOOLEAN]
    /\ fails \in [Workers -> 0..RestoreMax]
    /\ owner \in Workers \cup {NoOwner} /\ leader \in Workers \cup {NoOwner}

RequestTypeOK ==
    /\ status \in {"running", "stopped"}
    /\ upc \in [Users -> RequestSteps]
    /\ ucmd \in [Users -> Ids \cup {0}]
    /\ calls \in 0..MaxCalls /\ crashes \in 0..MaxCrashes
    /\ asked \subseteq Ids /\ closed \subseteq Ids /\ late \subseteq Ids
    /\ wish \in {"none", "start", "stop", "joined"}

(* Type invariant: rows, requests and workers keep their types, and no     *)
(* command is attempted more than MaxAttempts times.                       *)
TypeOK == QueueTypeOK /\ JobTypeOK /\ LocalTypeOK /\ RequestTypeOK

Init ==
    /\ status = "stopped"
    /\ type = [c \in Ids |-> "start"]
    /\ state = [c \in Ids |-> "none"]
    /\ by = [c \in Ids |-> NoOwner]
    /\ due = [c \in Ids |-> FALSE]
    /\ attempts = [c \in Ids |-> 0]
    /\ close = [c \in Ids |-> FALSE]
    /\ owner = NoOwner
    /\ leader = NoOwner
    /\ pc = [w \in Workers |-> "idle"]
    /\ cmd = [w \in Workers |-> 0]
    /\ seen = [w \in Workers |-> 0]
    /\ closing = [w \in Workers |-> FALSE]
    /\ valid = [w \in Workers |-> FALSE]
    /\ guard = [w \in Workers |-> FALSE]
    /\ rt = [w \in Workers |-> FALSE]
    /\ halt = [w \in Workers |-> FALSE]
    /\ fails = [w \in Workers |-> 0]
    /\ quit = [w \in Workers |-> FALSE]
    /\ upc = [u \in Users |-> "idle"]
    /\ ucmd = [u \in Users |-> 0]
    /\ calls = 0
    /\ crashes = 0
    /\ late = {}
    /\ asked = {}
    /\ closed = {}
    /\ wish = "none"

-----------------------------------------------------------------------------
(* The queue.                                                              *)

ActiveOf(t) == {c \in Ids : state[c] \in Active /\ type[c] = t}
Newest(S) == CHOOSE c \in S : \A d \in S : d <= c
Oldest(S) == CHOOSE c \in S : \A d \in S : c <= d
Fresh == {c \in Ids : state[c] = "none"}

(* Mutant: a second stop request does not upgrade the queued one.          *)
Upgraded_Ignored(c, wantsClose) == close

(* A stop that is asked to close upgrades the queued stop.                 *)
Upgraded(c, wantsClose) == [close EXCEPT ![c] = @ \/ wantsClose]

(* enqueue: an active command of the same type is returned instead of a    *)
(* new row.                                                                *)
Enqueue(u, t, wantsClose) ==
    IF ActiveOf(t) # {}
    THEN /\ ucmd' = [ucmd EXCEPT ![u] = Newest(ActiveOf(t))]
         /\ close' = Upgraded(Newest(ActiveOf(t)), wantsClose)
         /\ asked' = asked \cup {c \in {Newest(ActiveOf(t))} :
                                   wantsClose /\ state[c] = "pending"}
         /\ UNCHANGED <<type, state, by, due, attempts>>
    ELSE /\ Fresh # {}
         /\ LET c == Oldest(Fresh)
            IN /\ ucmd' = [ucmd EXCEPT ![u] = c]
               /\ type' = [type EXCEPT ![c] = t]
               /\ state' = [state EXCEPT ![c] = "pending"]
               /\ due' = [due EXCEPT ![c] = TRUE]
               /\ close' = [close EXCEPT ![c] = wantsClose]
               /\ asked' = IF wantsClose THEN asked \cup {c} ELSE asked
         /\ UNCHANGED <<by, attempts>>

(* Mutant: a command in processing is claimed whether or not its lease     *)
(* has expired.                                                            *)
Claimable_Processing ==
    {c \in Ids : /\ attempts[c] < MaxAttempts
                 /\ \/ state[c] = "pending" /\ due[c]
                    \/ state[c] = "processing"}

(* Mutant: a command is claimed however often it has been tried.           *)
Claimable_Unbounded ==
    {c \in Ids : \/ state[c] = "pending" /\ due[c]
                 \/ state[c] = "processing" /\ by[c] = NoOwner}

(* The candidates of claim_next for start and stop commands.               *)
Claimable ==
    {c \in Ids : /\ attempts[c] < MaxAttempts
                 /\ \/ state[c] = "pending" /\ due[c]
                    \/ state[c] = "processing" /\ by[c] = NoOwner}

(* The retry delay of a failed command passes.                             *)
BecomeDue(c) ==
    /\ state[c] = "pending" /\ ~due[c]
    /\ due' = [due EXCEPT ![c] = TRUE]
    /\ UNCHANGED <<status, type, state, by, attempts, close, owner, worker,
                   request, faults, closed>>

(* A worker that has a command in its hands: it believes in it, or has     *)
(* asked command_valid and is about to write the outcome.                  *)
Holds(w, c) ==
    cmd[w] = c /\ (valid[w] \/ pc[w] \in {"recordOk", "recordError"})

(* A command lease runs out when nobody renews it: the heartbeat has given *)
(* it up or the process is gone.                                           *)
ExpireCommand(c) ==
    /\ by[c] # NoOwner /\ ~Holds(by[c], c)
    /\ by' = [by EXCEPT ![c] = NoOwner]
    /\ UNCHANGED <<status, type, state, due, attempts, close, owner, worker, request,
                   faults, closed>>

(* It also runs out under a worker that goes on.  The first local deadline *)
(* counts from watch_command, some time after claim_next has committed,    *)
(* and the outcome is written some time after command_valid: a worker that *)
(* stalls there does not notice.                                           *)
ExpireUnnoticed(c) ==
    /\ by[c] # NoOwner /\ Holds(by[c], c) /\ crashes < MaxCrashes
    /\ by' = [by EXCEPT ![c] = NoOwner]
    /\ late' = late \cup {c}
    /\ crashes' = crashes + 1
    /\ UNCHANGED <<status, type, state, due, attempts, close, owner, worker, request,
                   closed>>

-----------------------------------------------------------------------------
(* Requests: routes/strategy.py and StrategyCommandClient.                 *)

(* The start route writes the desired status before it enqueues.           *)
StartWrite(u) ==
    /\ upc[u] = "idle" /\ calls < MaxCalls
    /\ status' = "running"
    /\ wish' = "start"
    /\ calls' = calls + 1
    /\ upc' = [upc EXCEPT ![u] = "enqueue"]
    /\ UNCHANGED <<queue, owner, worker, ucmd, asked, faults, closed>>

StartEnqueue(u) ==
    /\ upc[u] = "enqueue"
    /\ Enqueue(u, "start", FALSE)
    /\ upc' = [upc EXCEPT ![u] = "startWait"]
    /\ UNCHANGED <<status, owner, worker, calls, wish, faults, closed>>

(* The insert failed, or the wait ended with a failed command: the route   *)
(* takes the desired status back.  A wait that times out reports success.  *)
StartReply(u) ==
    /\ upc[u] \in {"enqueue", "startWait"}
    /\ upc' = [upc EXCEPT ![u] = "idle"]
    /\ ucmd' = [ucmd EXCEPT ![u] = 0]
    /\ status' = IF upc[u] = "enqueue" \/ state[ucmd[u]] = "failed"
                 THEN "stopped" ELSE status
    /\ UNCHANGED <<queue, owner, worker, calls, wish, asked, faults, closed>>

StopEnqueue(u, wantsClose) ==
    /\ upc[u] = "idle" /\ calls < MaxCalls
    /\ Enqueue(u, "stop", wantsClose)
    /\ wish' = IF state[ucmd'[u]] = "processing" THEN "joined" ELSE "stop"
    /\ calls' = calls + 1
    /\ upc' = [upc EXCEPT ![u] = "stopWait"]
    /\ UNCHANGED <<status, owner, worker, faults, closed>>

(* A stop that succeeded, or that is still queued when the wait ends,      *)
(* writes the desired status.                                              *)
StopReply(u) ==
    /\ upc[u] = "stopWait"
    /\ upc' = [upc EXCEPT ![u] = "idle"]
    /\ ucmd' = [ucmd EXCEPT ![u] = 0]
    /\ status' = IF state[ucmd[u]] = "failed" THEN status ELSE "stopped"
    /\ UNCHANGED <<queue, owner, worker, calls, wish, asked, faults, closed>>

(* strategy_command_status: polling a stop that has succeeded writes it    *)
(* once more.                                                              *)
PollStatus(c) ==
    /\ type[c] = "stop" /\ state[c] = "succeeded"
    /\ status' = "stopped"
    /\ UNCHANGED <<queue, owner, worker, request, faults, closed>>

-----------------------------------------------------------------------------
(* The worker's thread.                                                    *)

Goto(w, step) == pc' = [pc EXCEPT ![w] = step]

(* Back to the poll of run_forever, the command forgotten.                 *)
Rest(w) ==
    /\ Goto(w, "idle")
    /\ cmd' = [cmd EXCEPT ![w] = 0]
    /\ seen' = [seen EXCEPT ![w] = 0]
    /\ closing' = [closing EXCEPT ![w] = FALSE]
    /\ valid' = [valid EXCEPT ![w] = FALSE]

(* claim_next, then watch_command; ExpireUnnoticed has what may come in    *)
(* between.                                                                *)
Claim(w) ==
    /\ pc[w] = "idle" /\ ~quit[w] /\ Claimable # {}
    /\ LET c == Oldest(Claimable)
       IN /\ state' = [state EXCEPT ![c] = "processing"]
          /\ by' = [by EXCEPT ![c] = w]
          /\ due' = [due EXCEPT ![c] = FALSE]
          /\ attempts' = [attempts EXCEPT ![c] = @ + 1]
          /\ cmd' = [cmd EXCEPT ![w] = c]
          /\ seen' = [seen EXCEPT ![w] = attempts[c] + 1]
          /\ closing' = [closing EXCEPT ![w] = close[c]]
          /\ valid' = [valid EXCEPT ![w] = TRUE]
          /\ Goto(w, type[c])
    /\ UNCHANGED <<status, type, close, owner, local, self, request, faults,
                   closed>>

(* _ensure_global_services: some worker leads.  Who does shows in restores *)
(* alone, so the lead is taken with the first one that needs it.           *)
MayLead(w) == leader \in {w, NoOwner}

(* restore_desired_strategies: a strategy desired to run, without a local  *)
(* runtime and without a queued stop, is started again; only the leader    *)
(* looks behind a live lease.                                              *)
Restore(w) ==
    /\ pc[w] = "idle" /\ ~quit[w]
    /\ status = "running" /\ ~rt[w]
    /\ owner # NoOwner => MayLead(w)
    /\ leader' = IF owner # NoOwner THEN w ELSE leader
    /\ ActiveOf("stop") = {}
    /\ Goto(w, "start")
    /\ UNCHANGED <<status, queue, owner, job, local, fails, quit, request, faults, closed>>

(* Mutant: the desired status is not read again when the command runs.     *)
ReadStatus_Ignored(w) ==
    /\ pc[w] = "start"
    /\ Goto(w, IF rt[w] THEN "ok" ELSE "acquire")
    /\ UNCHANGED <<status, queue, owner, job, local, self, request, faults, closed>>

(* _start: the desired status is read; a strategy that is not desired or   *)
(* that runs here already needs nothing.                                   *)
ReadStatus(w) ==
    /\ pc[w] = "start"
    /\ Goto(w, IF status = "running" /\ ~rt[w] THEN "acquire" ELSE "ok")
    /\ UNCHANGED <<status, queue, owner, job, local, self, request, faults, closed>>

(* _acquire_runtime: on refusal the start succeeds if another worker still *)
(* holds the lease when it is looked up, and fails otherwise.              *)
AcquireRuntime(w) ==
    /\ pc[w] = "acquire"
    /\ \/ /\ owner \in {w, NoOwner}
          /\ owner' = w
          /\ guard' = [guard EXCEPT ![w] = TRUE]
          /\ Goto(w, "launch")
       \/ /\ owner \notin {w, NoOwner}
          /\ Goto(w, "ok") \/ Goto(w, "error")
          /\ UNCHANGED <<owner, guard>>
    /\ UNCHANGED <<status, queue, job, rt, halt, self, request, faults, closed>>

(* executor.start_strategy; a restore does not wait for readiness.         *)
Launch(w) ==
    /\ pc[w] = "launch"
    /\ \/ /\ guard[w]
          /\ rt' = [rt EXCEPT ![w] = TRUE]
          /\ Goto(w, IF cmd[w] = 0 THEN "ok" ELSE "ready")
       \/ Goto(w, "undo") /\ rt' = rt
    /\ UNCHANGED <<status, queue, owner, job, guard, halt, self, request, faults,
                   closed>>

(* wait_strategy_running, then strategy_valid.  The lease of a runtime     *)
(* that has ended is kept when stop_strategy fails.                        *)
AwaitReady(w) ==
    /\ pc[w] = "ready"
    /\ \/ rt[w] /\ Goto(w, IF guard[w] THEN "ok" ELSE "error")
       \/ ~rt[w] /\ (Goto(w, "undo") \/ Goto(w, "error"))
    /\ UNCHANGED <<status, queue, owner, job, local, self, request, faults, closed>>

(* forget_strategy and release_strategy_lease, which changes a row this    *)
(* worker owns.                                                            *)
ReleaseOwn(w) ==
    /\ guard' = [guard EXCEPT ![w] = FALSE]
    /\ owner' = IF owner = w THEN NoOwner ELSE owner

UndoStart(w) ==
    /\ pc[w] = "undo"
    /\ ReleaseOwn(w)
    /\ Goto(w, "error")
    /\ UNCHANGED <<status, queue, job, rt, halt, self, request, faults, closed>>

(* executor.stop_strategy: cancelling resting orders may fail; then the    *)
(* desired status is written before the runtime is asked to stop.          *)
StopPersist(w) ==
    /\ pc[w] = "stop"
    /\ \/ status' = "stopped" /\ Goto(w, "join")
       \/ status' = status /\ Goto(w, "error")
    /\ UNCHANGED <<queue, owner, job, local, self, request, faults, closed>>

(* The runtime is stopped and joined, and the closes are queued; a join    *)
(* that times out, or a close that can not be queued, fails the command.   *)
StopJoin(w) ==
    /\ pc[w] = "join"
    /\ \/ /\ rt' = [rt EXCEPT ![w] = FALSE]
          /\ halt' = [halt EXCEPT ![w] = FALSE]
          /\ \/ /\ closed' = IF closing[w] THEN closed \cup {cmd[w]} ELSE closed
                /\ Goto(w, "release")
             \/ closing[w] /\ closed' = closed /\ Goto(w, "error")
       \/ /\ rt[w]
          /\ halt' = [halt EXCEPT ![w] = TRUE]
          /\ Goto(w, "error")
          /\ UNCHANGED <<rt, closed>>
    /\ UNCHANGED <<status, queue, owner, job, guard, self, request, faults>>

StopRelease(w) ==
    /\ pc[w] = "release"
    /\ ReleaseOwn(w)
    /\ Goto(w, "revoke")
    /\ UNCHANGED <<status, queue, job, rt, halt, self, request, faults, closed>>

(* revoke_strategy_lease takes the lease from whoever runs the strategy.   *)
StopRevoke(w) ==
    /\ pc[w] = "revoke"
    /\ owner' = NoOwner
    /\ Goto(w, "ok")
    /\ UNCHANGED <<status, queue, job, local, self, request, faults, closed>>

(* command_valid, asked before the outcome is recorded.                    *)
MayRecord(w) == valid[w]

(* _execute: an outcome is recorded only while the command is this         *)
(* worker's.                                                               *)
Finish(w) ==
    /\ pc[w] \in {"ok", "error"} /\ cmd[w] # 0
    /\ \/ /\ MayRecord(w)
          /\ Goto(w, IF pc[w] = "ok" THEN "recordOk" ELSE "recordError")
          /\ valid' = [valid EXCEPT ![w] = FALSE]
          /\ UNCHANGED <<cmd, seen, closing>>
       \/ ~MayRecord(w) /\ Rest(w)
    /\ UNCHANGED <<status, queue, owner, local, self, request, faults, closed>>

(* Mutant: a restore that fails is tried again without end.                *)
RestoreGivesUp_Never(w) == FALSE

(* maybe_auto_stop_on_exchange_error: after repeated failures.             *)
RestoreGivesUp(w) == fails[w] + 1 >= RestoreMax

(* The end of a restore; an error that can not be cured, or one too many,  *)
(* stops the strategy.                                                     *)
FinishRestore(w) ==
    /\ pc[w] \in {"ok", "error"} /\ cmd[w] = 0
    /\ \/ /\ status' = IF pc[w] = "ok" THEN status ELSE "stopped"
          /\ fails' = [fails EXCEPT ![w] = 0]
       \/ /\ pc[w] = "error" /\ ~RestoreGivesUp(w)
          /\ status' = status
          /\ fails' = [fails EXCEPT ![w] = IF @ + 1 < RestoreMax THEN @ + 1 ELSE @]
    /\ Rest(w)
    /\ UNCHANGED <<queue, owner, local, quit, leader, request, faults, closed>>

(* A strategy no longer desired loses its count at the next restore.       *)
ForgetFailures(w) ==
    /\ pc[w] = "idle" /\ status = "stopped" /\ fails[w] > 0
    /\ fails' = [fails EXCEPT ![w] = 0]
    /\ UNCHANGED <<status, queue, owner, pc, job, local, quit, leader, request, faults,
                   closed>>

(* complete updates the row by its id alone.                               *)
RecordOk(w) ==
    /\ pc[w] = "recordOk"
    /\ state' = [state EXCEPT ![cmd[w]] = "succeeded"]
    /\ by' = [by EXCEPT ![cmd[w]] = NoOwner]
    /\ Rest(w)
    /\ UNCHANGED <<status, type, due, attempts, close, owner, local, self, request,
                   faults, closed>>

RetryAllowed(w) == seen[w] < MaxAttempts

(* fail: another attempt later, or a terminal failure, after which a start *)
(* gives up the desired status.                                            *)
RecordError(w) ==
    /\ pc[w] = "recordError"
    /\ state' = [state EXCEPT ![cmd[w]] =
                   IF RetryAllowed(w) THEN "pending" ELSE "failed"]
    /\ due' = [due EXCEPT ![cmd[w]] = FALSE]
    /\ by' = [by EXCEPT ![cmd[w]] = NoOwner]
    /\ IF ~RetryAllowed(w) /\ type[cmd[w]] = "start"
       THEN Goto(w, "giveUp") /\ UNCHANGED job
       ELSE Rest(w)
    /\ UNCHANGED <<status, type, attempts, close, owner, local, self, request, faults,
                   closed>>

(* A start that failed for good gives up the desired status.               *)
GiveUp(w) ==
    /\ pc[w] = "giveUp"
    /\ status' = "stopped"
    /\ Rest(w)
    /\ UNCHANGED <<queue, owner, local, self, request, faults, closed>>

(* Mutant: the last attempt is not counted as the last.                    *)
Exhausted_OffByOne ==
    {c \in Ids : /\ state[c] = "processing" /\ by[c] = NoOwner
                 /\ attempts[c] > MaxAttempts}

Exhausted ==
    {c \in Ids : /\ state[c] = "processing" /\ by[c] = NoOwner
                 /\ attempts[c] >= MaxAttempts}

(* fail_exhausted_commands, from the worker's heartbeat.                   *)
FailExhausted(w) ==
    /\ pc[w] = "idle" /\ Exhausted # {}
    /\ state' = [c \in Ids |-> IF c \in Exhausted THEN "failed" ELSE state[c]]
    /\ UNCHANGED <<status, type, by, due, attempts, close, owner, worker, request,
                   faults, closed>>

StepDown(w) == leader' = IF leader = w THEN NoOwner ELSE leader

(* run_forever ends: the local runtime is handed off and its lease given   *)
(* back; the process is then started again by its supervisor.              *)
Shutdown(w) ==
    /\ pc[w] = "idle" /\ quit[w]
    /\ rt' = [rt EXCEPT ![w] = FALSE]
    /\ halt' = [halt EXCEPT ![w] = FALSE]
    /\ ReleaseOwn(w)
    /\ quit' = [quit EXCEPT ![w] = FALSE]
    /\ fails' = [fails EXCEPT ![w] = 0]
    /\ StepDown(w)
    /\ UNCHANGED <<status, queue, pc, job, request, faults, closed>>

-----------------------------------------------------------------------------
(* The other threads of a worker, and the environment.                     *)

(* renew finds the row with this worker, in processing and not expired.    *)
RowIsOurs(w) ==
    state[cmd[w]] = "processing" /\ by[cmd[w]] = w

(* The heartbeat loses the command, refused or without an answer until the *)
(* deadline: the worker will shut down.                                    *)
CommandLost(w) ==
    /\ valid[w]
    /\ \/ RowIsOurs(w) /\ crashes < MaxCrashes /\ crashes' = crashes + 1
       \/ ~RowIsOurs(w) /\ crashes' = crashes
    /\ valid' = [valid EXCEPT ![w] = FALSE]
    /\ quit' = [quit EXCEPT ![w] = TRUE]
    /\ UNCHANGED <<status, queue, owner, pc, cmd, seen, closing, local, fails, leader, request,
                   late, closed>>

(* The renewal of a strategy lease that is no longer this worker's is      *)
(* refused.                                                                *)
GuardLost(w) ==
    /\ guard[w] /\ owner # w
    /\ guard' = [guard EXCEPT ![w] = FALSE]
    /\ UNCHANGED <<status, queue, owner, pc, job, rt, halt, self, request, faults,
                   closed>>

(* The runtime loop ends on its stop event or its guard.                   *)
RuntimeStops(w) ==
    /\ rt[w] /\ (halt[w] \/ ~guard[w])
    /\ rt' = [rt EXCEPT ![w] = FALSE]
    /\ halt' = [halt EXCEPT ![w] = FALSE]
    /\ UNCHANGED <<status, queue, owner, pc, job, guard, self, request, faults,
                   closed>>

(* The runtime loop ends on an error and marks the strategy stopped.       *)
RuntimeFails(w) ==
    /\ rt[w]
    /\ rt' = [rt EXCEPT ![w] = FALSE]
    /\ halt' = [halt EXCEPT ![w] = FALSE]
    /\ status' = "stopped"
    /\ UNCHANGED <<queue, owner, pc, job, guard, self, request, faults, closed>>

(* A strategy lease expires once no heartbeat renews it.                   *)
ExpireLease ==
    /\ owner # NoOwner /\ ~guard[owner]
    /\ owner' = NoOwner
    /\ UNCHANGED <<status, queue, worker, request, faults, closed>>

(* The process is gone with what it held in memory; an idle worker stands  *)
(* for its successor.                                                      *)
Crash(w) ==
    /\ crashes < MaxCrashes
    /\ crashes' = crashes + 1
    /\ Rest(w)
    /\ guard' = [guard EXCEPT ![w] = FALSE]
    /\ rt' = [rt EXCEPT ![w] = FALSE]
    /\ halt' = [halt EXCEPT ![w] = FALSE]
    /\ quit' = [quit EXCEPT ![w] = FALSE]
    /\ fails' = [fails EXCEPT ![w] = 0]
    /\ StepDown(w)
    /\ UNCHANGED <<status, queue, owner, request, late, closed>>

-----------------------------------------------------------------------------
Execute(w) ==
    \/ ReadStatus(w) \/ AcquireRuntime(w) \/ Launch(w) \/ AwaitReady(w) \/ UndoStart(w)
    \/ StopPersist(w) \/ StopJoin(w) \/ StopRelease(w) \/ StopRevoke(w)
    \/ Finish(w) \/ FinishRestore(w) \/ RecordOk(w) \/ RecordError(w) \/ GiveUp(w)
    \/ Shutdown(w)

Request(u) ==
    \/ StartWrite(u) \/ StartEnqueue(u) \/ StartReply(u) \/ StopReply(u)
    \/ \E wantsClose \in BOOLEAN : StopEnqueue(u, wantsClose)

Next ==
    \/ \E w \in Workers :
          \/ Execute(w) \/ Claim(w) \/ Restore(w) \/ FailExhausted(w)
          \/ ForgetFailures(w)
          \/ CommandLost(w) \/ GuardLost(w) \/ RuntimeStops(w) \/ RuntimeFails(w)
          \/ Crash(w)
    \/ \E u \in Users : Request(u)
    \/ \E c \in Ids : BecomeDue(c) \/ ExpireCommand(c) \/ ExpireUnnoticed(c) \/ PollStatus(c)
    \/ ExpireLease

Spec == Init /\ [][Next]_vars

(* The worker's thread runs on, polls the queue, the heartbeat and the     *)
(* desired strategies again and again; requests are served; time passes.   *)
Fairness ==
    /\ \A w \in Workers : /\ WF_vars(Execute(w))
                          /\ SF_vars(Claim(w))
                          /\ SF_vars(FailExhausted(w))
                          /\ SF_vars(Restore(w))
    /\ \A u \in Users : WF_vars(StartEnqueue(u) \/ StartReply(u) \/ StopReply(u))
    /\ \A c \in Ids : WF_vars(BecomeDue(c)) /\ WF_vars(ExpireCommand(c))
    /\ WF_vars(ExpireLease)

FairSpec == Spec /\ Fairness

-----------------------------------------------------------------------------
(* No two workers hold a command: one that another worker has claimed      *)
(* meanwhile is no longer executed or reported, unless its lease has once  *)
(* run out unnoticed by its worker.                                        *)
CommandExclusive ==
    \A v, w \in Workers : \A c \in Ids \ late :
        v # w /\ Holds(v, c) => ~Holds(w, c)

(* A command that has succeeded or failed is never executed or reported    *)
(* again, although complete and fail update the row by its id alone, with  *)
(* the same exception.                                                     *)
TerminalFinal ==
    [][\A c \in Ids \ late : state[c] \in Terminal => state'[c] = state[c]]_vars

(* A stop that was asked to close while it was queued, by its first        *)
(* request or by an upgrade, has queued its closes when it succeeds, with  *)
(* the same exception: an overtaken worker may report what it had read.    *)
CloseHonoured ==
    \A c \in Ids \ late : (c \in asked /\ state[c] = "succeeded") => c \in closed

(* Nothing is on its way: no request, no command, no worker in mid-step.   *)
Quiet ==
    /\ \A u \in Users : upc[u] = "idle"
    /\ ActiveOf("start") = {} /\ ActiveOf("stop") = {}
    /\ \A w \in Workers : pc[w] = "idle"

(* A runtime under a lease its heartbeat goes on renewing.  One whose      *)
(* lease was revoked ends with the next renewal.                           *)
Keeps(w) == rt[w] /\ guard[w] /\ owner = w

(* When the last request was a stop and its command has succeeded, no      *)
(* worker keeps running the strategy, whatever starts, restores and        *)
(* retries were under way when it was made: "start/stop lock".             *)
StopWins ==
    (Quiet /\ wish = "stop" /\ \A c \in Ids : state[c] # "failed")
    => \A w \in Workers : ~Keeps(w)

(* Every queued command succeeds or fails in the end, across worker        *)
(* crashes, lost heartbeats and retries.                                   *)
CommandsFinish ==
    \A c \in Ids : (state[c] = "pending") ~> (state[c] \in Terminal)

(* A strategy that is to run is run in the end: "stale status repair".     *)
DesiredRuns ==
    (status = "running") ~> (status = "stopped" \/ \E w \in Workers : rt[w])
=============================================================================
