------------------------------ MODULE BarFeed ------------------------------
(***************************************************************************)
(* How a closed bar reaches the strategies that run on it: the shared bar  *)
(* clock of the leading trading worker (events/bar_clock.py) and its       *)
(* Kafka mirror (events/kafka.py), the stream registrations it counts      *)
(* (services/trading_executor.py), and the dispatcher worker               *)
(* (commands/strategy_dispatcher_worker.py), one thread that turns bar     *)
(* events into evaluation batches (events/dispatcher.py) and publishes the *)
(* bars the clock missed (events/bar_recovery.py).                         *)
(*                                                                         *)
(* One stream (venue, instrument, timeframe) is modelled: the code keeps   *)
(* one token per stream and treats streams alike.  A bar is its token.     *)
(* Every lock section, SQL statement and Kafka call is one step; a Kafka   *)
(* producer is the queue of what it has not delivered yet.  EvaluatorInbox *)
(* goes on where this module ends: of the batches with one event id it     *)
(* evaluates the first.                                                    *)
(***************************************************************************)
EXTENDS Integers, Sequences, FiniteSets, FiniteSetsExt

CONSTANTS
    Strategies,   \* strategy ids, all on the one stream
    New,          \* those another worker started and the leader will restore
    ShardCount,   \* STRATEGY_SHARD_COUNT
    BatchSize,    \* STRATEGY_EVALUATION_BATCH_SIZE
    MaxBars,      \* bars that close
    Sessions,     \* the bars that close inside a session (is_equity_bar_close)
    MaxChanges,   \* bound on starts and stops
    MaxFaults     \* bound on crashes, SQL errors and lost or late deliveries

Bars == 1 .. MaxBars

ASSUME FeedAssumption ==
    /\ Strategies \subseteq Nat /\ IsFiniteSet(Strategies)
    /\ New \subseteq Strategies
    /\ ShardCount \in Nat \ {0} /\ BatchSize \in Nat \ {0}
    /\ MaxBars \in Nat \ {0}
    /\ MaxChanges \in Nat /\ MaxFaults \in Nat
    /\ Sessions \subseteq Bars

VARIABLES
    bar,       \* token of the last bar that closed
    due,       \* token of the last bar older than the recovery's grace
    running,   \* strategies whose status is 'running'
    subs,      \* strategies with a row in qd_strategy_event_subscriptions
    since,     \* the bar at which a strategy was last routed (history)
    reg,       \* strategies in _routing_streams_by_strategy of the leader
    refs,      \* _ref_counts of the clock for the stream
    closing,   \* subscriptions popped by the executor and not closed yet
    ctok,      \* _last_tokens of the clock; NoToken when there is no entry
    cpc,       \* where the clock's thread is in publish_due
    ccur,      \* the bar it has in hand, or its producer has not delivered
    topic,     \* qd.market.bar.closed.v1, one partition
    committed, \* committed offset of the dispatcher group
    kept,      \* the group has committed an offset at all
    done,      \* offsets of the events whose handling was committed (history)
    dpc,       \* where the dispatcher's thread is
    dpos,      \* offset of the event it handles next
    bq,        \* batches the dispatcher's producer has not delivered
    rq,        \* bar events the recovery's producer has not delivered
    rtok,      \* _last_tokens of the recovery; NoToken when no entry
    rcur,      \* token of the recovery batch in hand
    inbox,     \* for each batch id, the strategies of its first copy
    changes, faults

clockVars == <<reg, refs, closing, ctok, cpc, ccur>>
routeVars == <<running, subs, since>>
dispatchVars == <<committed, kept, done, dpc, dpos, bq, rq, rtok, rcur, inbox>>
vars == <<bar, due, routeVars, clockVars, topic, dispatchVars, changes, faults>>

-----------------------------------------------------------------------------
NoToken == -1
Tokens == 0 .. MaxBars
Shards == 0 .. ShardCount - 1
BatchIds == Bars \X Shards \X (0 .. (Cardinality(Strategies) - 1) \div BatchSize)

(* Type invariant: tokens never run ahead of the calendar, offsets never   *)
(* ahead of the topic.                                                     *)
TypeOK ==
    /\ bar \in Tokens /\ due \in 0 .. bar
    /\ running \subseteq Strategies /\ subs \subseteq Strategies
    /\ since \in [Strategies -> 0 .. bar]
    /\ reg \subseteq Strategies
    /\ refs \in Nat /\ closing \in 0 .. refs
    /\ ctok \in (0 .. bar) \cup {NoToken}
    /\ cpc \in {"idle", "scan", "send"}
    /\ ccur \in 0 .. bar
    /\ \A q \in {topic, rq} : \A i \in DOMAIN q : q[i] \in 1 .. bar
    /\ committed \in 0 .. Len(topic)
    /\ kept \in BOOLEAN /\ done \subseteq DOMAIN topic
    /\ dpc \in {"idle", "read", "flush", "commit", "rflush", "down"}
    /\ dpos \in 0 .. Len(topic)
    /\ \A i \in DOMAIN bq : bq[i] \in BatchIds \X SUBSET Strategies
    /\ rtok \in (0 .. bar) \cup {NoToken}
    /\ rcur \in 0 .. bar
    /\ inbox \in [BatchIds -> SUBSET Strategies]
    /\ changes \in 0 .. MaxChanges /\ faults \in 0 .. MaxFaults

(* Before the first bar: all strategies are subscribed, the leader has     *)
(* registered all but the new ones, and the dispatcher group has never     *)
(* committed an offset.                                                    *)
Init ==
    /\ bar = 0 /\ due = 0
    /\ running = Strategies /\ subs = Strategies
    /\ since = [s \in Strategies |-> 0]
    /\ reg = Strategies \ New /\ closing = 0
    /\ refs = IF reg = {} THEN 0 ELSE 1
    /\ ctok = IF reg = {} THEN NoToken ELSE 0
    /\ cpc = "idle" /\ ccur = 0
    /\ topic = <<>> /\ committed = 0 /\ kept = FALSE /\ done = {}
    /\ dpc = "idle" /\ dpos = 0 /\ bq = <<>> /\ rq = <<>>
    /\ rtok = NoToken /\ rcur = 0
    /\ inbox = [b \in BatchIds |-> {}]
    /\ changes = 0 /\ faults = 0

Fault == faults < MaxFaults /\ faults' = faults + 1
Change == changes < MaxChanges /\ changes' = changes + 1

(* The strategies the subscription query joins: subscribed and running.    *)
Routed == running \cap subs

(* since follows Routed: a strategy that is routed again starts anew.      *)
Reroute(r, u) ==
    /\ running' = r /\ subs' = u
    /\ since' = [s \in Strategies |->
                   IF s \in (r \cap u) \ Routed THEN bar ELSE since[s]]

-----------------------------------------------------------------------------
(* The calendar.                                                           *)

BarCloses ==
    /\ bar < MaxBars
    /\ bar' = bar + 1
    /\ UNCHANGED <<due, routeVars, clockVars, topic, dispatchVars, changes,
                   faults>>

(* The last bar is older than STRATEGY_BAR_RECOVERY_GRACE_SEC now.         *)
GracePasses ==
    /\ due < bar
    /\ due' = bar
    /\ UNCHANGED <<bar, routeVars, clockVars, topic, dispatchVars, changes,
                   faults>>

-----------------------------------------------------------------------------
(* Strategies come and go.                                                 *)

(* A route writes the desired status.                                      *)
SetStatus(s) ==
    /\ Change
    /\ Reroute(IF s \in running THEN running \ {s} ELSE running \cup {s}, subs)
    /\ UNCHANGED <<bar, due, clockVars, topic, dispatchVars, faults>>

(* MarketBarCloseClock.subscribe, and the registration around it: only the *)
(* first strategy of the stream subscribes.                                *)
RegisterStream(s) ==
    /\ reg' = reg \cup {s}
    /\ refs' = IF reg = {} THEN refs + 1 ELSE refs
    /\ ctok' = IF reg = {} /\ ctok = NoToken THEN bar ELSE ctok
    /\ UNCHANGED <<closing, cpc, ccur>>

(* _start, for a command or to restore a strategy that should run: the     *)
(* subscription row, then, in the leader, the clock.  A leader that has    *)
(* the registration already leaves it, another worker has none.            *)
StartStrategy(s) ==
    /\ s \in running
    /\ Reroute(running, subs \cup {s})
    /\ \/ s \notin reg /\ RegisterStream(s)
       \/ s \notin subs /\ UNCHANGED clockVars
    /\ UNCHANGED <<bar, due, topic, dispatchVars, changes, faults>>

(* unregister_market_streams: the last strategy of the stream pops the     *)
(* subscription, which is closed after the executor's lock is released.    *)
UnregisterStream(s) ==
    /\ reg' = reg \ {s}
    /\ closing' = IF reg = {s} THEN closing + 1 ELSE closing
    /\ UNCHANGED <<refs, ctok, cpc, ccur>>

(* _stop_strategy, for a stop or for the first half of a restart, in the   *)
(* leader or in another worker of the pool, which has no registration.     *)
StopStrategy(s) ==
    /\ Change
    /\ s \in subs
    /\ Reroute(running, subs \ {s})
    /\ \/ s \in reg /\ UnregisterStream(s)
       \/ s \notin running /\ UNCHANGED clockVars
    /\ UNCHANGED <<bar, due, topic, dispatchVars, faults>>

(* Mutant: a close drops the stream however many subscriptions it has.     *)
CloseSubscription_DropsStream ==
    /\ closing > 0
    /\ closing' = closing - 1
    /\ refs' = 0
    /\ ctok' = NoToken
    /\ UNCHANGED <<bar, due, routeVars, reg, cpc, ccur, topic, dispatchVars,
                   changes, faults>>

(* BarCloseSubscription.close, outside the executor's lock.                *)
CloseSubscription ==
    /\ closing > 0
    /\ closing' = closing - 1
    /\ refs' = refs - 1
    /\ ctok' = IF refs' = 0 THEN NoToken ELSE ctok
    /\ UNCHANGED <<bar, due, routeVars, reg, cpc, ccur, topic,
                   dispatchVars, changes, faults>>

-----------------------------------------------------------------------------
(* The clock.                                                              *)

(* publish_due reads the time and the streams ...                          *)
ClockScan ==
    /\ cpc = "idle"
    /\ refs > 0
    /\ ctok < bar
    /\ cpc' = "scan"
    /\ ccur' = bar
    /\ UNCHANGED <<bar, due, routeVars, reg, refs, closing, ctok, topic,
                   dispatchVars, changes, faults>>

(* ... then, under its lock, takes the token of a bar it has not seen.  A  *)
(* bar outside a session is not published.                                 *)
ClockTake ==
    /\ cpc = "scan"
    /\ ctok' = IF ctok < ccur THEN ccur ELSE ctok
    /\ cpc' = IF ctok # NoToken /\ ctok < ccur /\ ccur \in Sessions
              THEN "send" ELSE "idle"
    /\ ccur' = IF cpc' = "send" THEN ccur ELSE 0
    /\ UNCHANGED <<bar, due, routeVars, reg, refs, closing, topic,
                   dispatchVars, changes, faults>>

(* MirroredEventBus.publish: the producer delivers some time later and in  *)
(* order, or not at all; its errors are only counted and nobody waits for  *)
(* the result.                                                             *)
ClockSend ==
    /\ cpc = "send"
    /\ cpc' = "idle"
    /\ ccur' = 0
    /\ \/ topic' = Append(topic, ccur) /\ UNCHANGED faults
       \/ Fault /\ UNCHANGED topic
    /\ UNCHANGED <<bar, due, routeVars, reg, refs, closing, ctok, dispatchVars,
                   changes>>

(* The leader dies; the next leader restores the strategies that run.      *)
LeaderCrash ==
    /\ Fault
    /\ reg' = {} /\ refs' = 0 /\ closing' = 0
    /\ ctok' = NoToken /\ cpc' = "idle" /\ ccur' = 0
    /\ UNCHANGED <<bar, due, routeVars, topic, dispatchVars, changes>>

-----------------------------------------------------------------------------
(* The dispatcher worker: poll_once, then a recovery cycle.                *)

(* KafkaEventProducer.publish_batch: what is queued is delivered in order. *)
(* A flush that times out leaves the rest in the queue, a failed delivery  *)
(* drops it; only the delivery of everything is a success.                 *)
(* A batch is taken by its event id: of two copies the first counts.       *)
Deliver(copies) ==
    inbox' = [b \in BatchIds |->
                IF inbox[b] # {} \/ ~\E i \in DOMAIN copies : copies[i][1] = b
                THEN inbox[b]
                ELSE copies[Min({i \in DOMAIN copies : copies[i][1] = b})][2]]

(* poll_once returns the next event, and observe notes its token before    *)
(* it is dispatched.                                                       *)
Poll ==
    /\ dpc = "idle"
    /\ dpos < Len(topic)
    /\ dpc' = "read"
    /\ rtok' = IF rtok < topic[dpos + 1] THEN topic[dpos + 1] ELSE rtok
    /\ UNCHANGED <<bar, due, routeVars, clockVars, topic, committed, kept,
                   done, dpos, bq, rq, rcur, inbox, changes, faults>>

(* strategy_shard: strategy_id % STRATEGY_SHARD_COUNT.                     *)
Shard(s) == s % ShardCount

(* Place of a strategy among the routed ones of its shard, from 0.         *)
Place(s) == Cardinality({u \in Routed : Shard(u) = Shard(s) /\ u < s})

(* The batches of a bar: the strategies of each shard, in the order of     *)
(* their ids, in chunks of BatchSize; the id is bar, shard and chunk.      *)
Chunk(b) == {s \in Routed : Shard(s) = b[2] /\ Place(s) \div BatchSize = b[3]}
Batches(t) ==
    LET batches == {<<b, Chunk(b)>> :
                      b \in {c \in BatchIds : c[1] = t /\ Chunk(c) # {}}}
    IN  CHOOSE q \in Injection(1 .. Cardinality(batches), batches) : TRUE

(* dispatch asks who runs on the stream and hands the batches to the       *)
(* producer; an error of the query makes the consumer rewind.              *)
Read ==
    /\ dpc = "read"
    /\ LET new == Batches(topic[dpos + 1]) IN
       \/ /\ bq' = bq \o new
          /\ dpc' = IF new = <<>> THEN "commit" ELSE "flush"
          /\ UNCHANGED faults
       \/ Fault /\ dpc' = "idle" /\ UNCHANGED bq
    /\ UNCHANGED <<bar, due, routeVars, clockVars, topic, committed, kept,
                   done, dpos, rq, rtok, rcur, inbox, changes>>

(* Mutant: the result of publish_batch is ignored.                         *)
FlushBatches_Unchecked ==
    /\ dpc = "flush"
    /\ \E n \in 0 .. Len(bq) : \E rest \in {<<>>, SubSeq(bq, n + 1, Len(bq))} :
          /\ Deliver(SubSeq(bq, 1, n))
          /\ bq' = rest
          /\ dpc' = "commit"
          /\ IF n = Len(bq) THEN UNCHANGED faults ELSE Fault
    /\ UNCHANGED <<bar, due, routeVars, clockVars, topic, committed, kept,
                   done, dpos, rq, rtok, rcur, changes>>

(* The batches are flushed; on anything short of success the consumer      *)
(* rewinds to the event.                                                   *)
FlushBatches ==
    /\ dpc = "flush"
    /\ \E n \in 0 .. Len(bq) : \E rest \in {<<>>, SubSeq(bq, n + 1, Len(bq))} :
          /\ Deliver(SubSeq(bq, 1, n))
          /\ bq' = rest
          /\ dpc' = IF n = Len(bq) THEN "commit" ELSE "idle"
          /\ IF n = Len(bq) THEN UNCHANGED faults ELSE Fault
    /\ UNCHANGED <<bar, due, routeVars, clockVars, topic, committed, kept,
                   done, dpos, rq, rtok, rcur, changes>>

Commit ==
    /\ dpc = "commit"
    /\ dpc' = "idle"
    /\ dpos' = dpos + 1
    /\ committed' = dpos + 1
    /\ kept' = TRUE
    /\ done' = done \cup {dpos + 1}
    /\ UNCHANGED <<bar, due, routeVars, clockVars, topic, bq, rq, rtok, rcur,
                   inbox, changes, faults>>

(* Mutant: a stream seen for the first time counts as up to date.          *)
Previous_UpToDate == IF rtok = NoToken THEN due ELSE rtok

(* StrategyBarRecoveryPublisher.publish_due: the bars after the last token *)
(* it knows, up to the last bar older than the grace; only that one when   *)
(* it knows none.  A stream nobody runs on is forgotten.                   *)
Previous == IF rtok = NoToken THEN due - 1 ELSE rtok

(* Tokens, the oldest first.                                               *)
InOrder(ts) == CHOOSE q \in [1 .. Cardinality(ts) -> ts] :
                 \A i, j \in DOMAIN q : i < j => q[i] < q[j]

(* Mutant: the range of missed bars is one too long.                       *)
Missed_Ahead == InOrder(Sessions \cap (Previous + 1 .. due + 1))

Missed == InOrder(Sessions \cap (Previous + 1 .. due))

RecoverPlan ==
    /\ dpc = "idle"
    /\ IF Routed = {}
       THEN rtok' = NoToken /\ UNCHANGED <<dpc, rq, rcur>>
       ELSE /\ due > Previous
            /\ rq' = rq \o Missed
            /\ rcur' = IF Missed = <<>> THEN 0 ELSE due
            /\ rtok' = IF Missed = <<>> THEN due ELSE Previous
            /\ dpc' = IF Missed = <<>> THEN "idle" ELSE "rflush"
    /\ UNCHANGED <<bar, due, routeVars, clockVars, topic, committed, kept,
                   done, dpos, bq, inbox, changes, faults>>

RecoverFlush ==
    /\ dpc = "rflush"
    /\ dpc' = "idle"
    /\ \E n \in 0 .. Len(rq) : \E rest \in {<<>>, SubSeq(rq, n + 1, Len(rq))} :
          /\ topic' = topic \o SubSeq(rq, 1, n)
          /\ rq' = rest
          /\ rtok' = IF n = Len(rq) THEN rcur ELSE rtok
          /\ IF n = Len(rq) THEN UNCHANGED faults ELSE Fault
    /\ rcur' = 0
    /\ UNCHANGED <<bar, due, routeVars, clockVars, committed, kept, done, dpos,
                   bq, inbox, changes>>

(* What a flush left behind is delivered, or given up, later.              *)
LateBatch ==
    /\ bq # <<>> /\ dpc # "flush"
    /\ bq' = Tail(bq)
    /\ Deliver(<<Head(bq)>>) \/ UNCHANGED inbox
    /\ UNCHANGED <<bar, due, routeVars, clockVars, topic, committed, kept, done,
                   dpc, dpos, rq, rtok, rcur, changes, faults>>

LateBar ==
    /\ rq # <<>> /\ dpc # "rflush"
    /\ rq' = Tail(rq)
    /\ topic' = Append(topic, Head(rq)) \/ UNCHANGED topic
    /\ UNCHANGED <<bar, due, routeVars, clockVars, committed, kept, done, dpc, dpos,
                   bq, rtok, rcur, inbox, changes, faults>>

(* The process dies with its queues and the recovery's tokens.  A group    *)
(* that never committed starts at the end of the topic.                    *)
DispatcherCrash ==
    /\ Fault
    /\ dpc # "down"
    /\ dpc' = "down"
    /\ dpos' = 0 /\ bq' = <<>> /\ rq' = <<>> /\ rtok' = NoToken /\ rcur' = 0
    /\ UNCHANGED <<bar, due, routeVars, clockVars, topic, committed, kept,
                   done, inbox, changes>>

DispatcherStart ==
    /\ dpc = "down"
    /\ dpc' = "idle"
    /\ dpos' = IF kept THEN committed ELSE Len(topic)
    /\ UNCHANGED <<bar, due, routeVars, clockVars, topic, committed, kept, done, bq,
                   rq, rtok, rcur, inbox, changes, faults>>

-----------------------------------------------------------------------------
ClockStep == ClockScan \/ ClockTake \/ ClockSend
DispatchStep == Poll \/ Read \/ FlushBatches \/ Commit
RecoverStep == RecoverPlan \/ RecoverFlush

Next ==
    \/ BarCloses \/ GracePasses
    \/ \E s \in Strategies : SetStatus(s) \/ StartStrategy(s) \/ StopStrategy(s)
    \/ CloseSubscription
    \/ ClockStep \/ LeaderCrash
    \/ DispatchStep \/ RecoverStep \/ LateBatch \/ LateBar
    \/ DispatcherCrash \/ DispatcherStart

Spec == Init /\ [][Next]_vars

(* Time passes, and the dispatcher's one thread runs, or is started again. *)
(* Nothing is assumed of the trading workers and their clock.              *)
Fairness ==
    /\ WF_vars(BarCloses \/ GracePasses)
    /\ WF_vars(DispatchStep \/ RecoverStep \/ DispatcherStart)

FairSpec == Spec /\ Fairness

-----------------------------------------------------------------------------
(* The strategies a bar has reached.                                       *)
Reached(t) == UNION {inbox[b] : b \in {c \in BatchIds : c[1] = t}}

(* While a strategy is registered the clock watches its stream: the count  *)
(* of the clock survives a registration that overtakes the close of the    *)
(* subscription before it (trading_executor.py:198, bar_clock.py:143).     *)
StreamsWatched == refs = closing + (IF reg = {} THEN 0 ELSE 1)

(* A source offset is committed only when its bar has reached every        *)
(* strategy that has been routed since before the bar closed, however      *)
(* often the event was dispatched (dispatcher.py:60, kafka.py:243).  This  *)
(* holds while a strategy keeps its batch: in a shard of several batches a *)
(* stop between two dispatches moves strategies under ids already taken.   *)
CommittedReached ==
    \A i \in done : \A s \in Routed :
        since[s] < topic[i] => s \in Reached(topic[i])

(* The last bar reaches every strategy that was routed when it closed and  *)
(* stays so, whatever the clock, its mirror and the dispatcher lost.       *)
LastBarReaches ==
    (bar = MaxBars) ~> \A s \in Routed :
                          since[s] < MaxBars => s \in Reached(MaxBars)

=============================================================================
