---------------------------- MODULE UpdateIntake ----------------------------
(* How the Telegram bot takes its updates in (src/telegram-bot/main.py),    *)
(* over either transport. With "webhook", concurrent POSTs from Telegram    *)
(* write an update to a durable inbox in Redis, one list per shard, and one *)
(* worker thread per shard takes it from there. With "polling", getUpdates  *)
(* is read in a loop and an update is claimed by id before it is handled.   *)
(* Every Redis command that writes is a step: a crash, an error of Redis or *)
(* another POST can come between two of them.                               *)
EXTENDS Naturals, FiniteSets, SequencesExt

CONSTANTS
    N,          \* updates, numbered in the order Telegram made them
    Shards,     \* webhook workers
    MaxPosts,   \* bound: POSTs of all updates together
    MaxFaults,  \* bound: crashes, errors of Redis, lost answers, expired keys
    MaxFails    \* bound: times the handler raises

ASSUME IntakeAssumption ==
    /\ N \in Nat \ {0}
    /\ MaxPosts \in Nat \ {0}
    /\ MaxFaults \in Nat
    /\ MaxFails \in Nat

Updates == 1 .. N
Routed == [Updates -> Shards]   \* by Telegram user, modulo the workers
Posts == Updates \X (1 .. MaxPosts)

VARIABLES
    transport,   \* BOT_MODE, chosen once
    shard,       \* shard[u]: _webhook_update_shard, fixed per Telegram user
    st,          \* st[u]: the processed-update key
    payload,     \* updates whose webhook-payload key exists
    inbox,       \* inbox[s]: the list webhook-inbox, left end first
    processing,  \* processing[s]: the list webhook-processing
    post,        \* post[<<u, k>>]: where the k-th POST of u stands
    answered,    \* updates Telegram got a 200 for
    worker,      \* worker[s]: the inbox worker thread
    poll,        \* the polling loop
    confirmed,   \* Telegram forgets updates below this offset
    local,       \* local[u]: _PROCESSED_UPDATE_CACHE, read in polling only
    arrival,     \* arrival[u]: the rank in which the bot first took u, 0 before
    again,       \* updates that were put in an inbox by more than one POST
    left,        \* updates whose iteration an error of Redis ended
    astray,      \* those of left and again that a restart met
    lost,        \* updates dropped by a fault between two commands
    handled,     \* handled[u]: how often _handle_update returned for u
    fails, faults

redis == <<st, payload, inbox, processing>>
ghosts == <<arrival, again, left, astray, lost, handled>>
hook == <<post, answered, worker>>
polling == <<poll, confirmed, local>>
setting == <<transport, shard>>
vars == <<setting, redis, hook, polling, ghosts, fails, faults>>

Idle == [pc |-> "idle", u |-> 0, todo |-> <<>>]
Booting == [Idle EXCEPT !.pc = "boot"]
Fetching(next) == [pc |-> "fetch", batch |-> <<>>, offset |-> next]

Init ==
    /\ transport \in {"webhook", "polling"}
    /\ shard \in Routed
    /\ st = [u \in Updates |-> "none"] /\ payload = {}
    /\ inbox = [s \in Shards |-> <<>>] /\ processing = inbox
    /\ post = [p \in Posts |-> "unsent"] /\ answered = {}
    /\ worker = [s \in Shards |-> Booting]
    /\ poll = Fetching(0) /\ confirmed = 1
    /\ local = [u \in Updates |-> "none"]
    /\ arrival = [u \in Updates |-> 0]
    /\ again = {} /\ left = {} /\ astray = {} /\ lost = {}
    /\ handled = [u \in Updates |-> 0]
    /\ fails = 0 /\ faults = 0

Fault == faults < MaxFaults /\ faults' = faults + 1
Lrem(list, u) == SelectSeq(list, LAMBDA v : v # u)
Drop(us) == lost' = lost \union {u \in us : handled[u] = 0}
Arrived == {u \in Updates : arrival[u] > 0}
Arrive(us) ==
    arrival' = [u \in Updates |-> IF u \in us \ Arrived THEN 1 + Cardinality(Arrived)
                                  ELSE arrival[u]]
----------------------------------------------------------------------------
(* do_POST and enqueue_webhook_update, one thread per POST.                *)

Open(p) == post[p] \in {"get", "payload", "push", "state"}
At(p, label) == post[p] = label
Goto(p, label) == post' = [post EXCEPT ![p] = label]

(* Telegram sends an update until it has a 200; a retry while an earlier    *)
(* POST is still open follows a timeout on its side.                        *)
Send(u, k) ==
    /\ transport = "webhook" /\ u \notin answered
    /\ At(<<u, k>>, "unsent")
    /\ Cardinality({p \in Posts : ~At(p, "unsent")}) < MaxPosts
    /\ \A j \in 1 .. k - 1 : ~At(<<u, j>>, "unsent")
    /\ Goto(<<u, k>>, "get")
    /\ IF \E j \in 1 .. k - 1 : Open(<<u, j>>) THEN Fault ELSE UNCHANGED faults
    /\ UNCHANGED <<setting, redis, answered, worker, polling, ghosts, fails>>

(* The response is 200 for "enqueued" and for "duplicate"; it may get lost. *)
Answer(p) ==
    /\ Goto(p, "closed")
    /\ \/ answered' = answered \union {p[1]} /\ UNCHANGED faults
       \/ Fault /\ UNCHANGED answered

EnqueueGet(p) ==
    /\ At(p, "get")
    /\ IF st[p[1]] # "none"
       THEN Answer(p)
       ELSE Goto(p, "payload") /\ UNCHANGED <<answered, faults>>
    /\ UNCHANGED <<setting, redis, worker, polling, ghosts, fails>>

EnqueuePayload(p) ==
    /\ At(p, "payload")
    /\ payload' = payload \union {p[1]}
    /\ Goto(p, "push")
    /\ UNCHANGED <<setting, st, inbox, processing, answered, worker, polling,
                   ghosts, fails, faults>>

EnqueuePush(p) ==
    /\ At(p, "push")
    /\ inbox' = [inbox EXCEPT ![shard[p[1]]] = <<p[1]>> \o @]
    /\ Arrive({p[1]}) /\ again' = again \union ({p[1]} \intersect Arrived)
    /\ Goto(p, "state")
    /\ UNCHANGED <<setting, st, payload, processing, answered, worker, polling,
                   left, astray, lost, handled, fails, faults>>

EnqueueState(p) ==
    /\ At(p, "state")
    /\ st' = [st EXCEPT ![p[1]] = "queued"]
    /\ Answer(p)
    /\ UNCHANGED <<setting, payload, inbox, processing, worker, polling, ghosts,
                   fails>>

(* Any exception is answered with 500: Telegram sends the update again.     *)
EnqueueError(p) ==
    /\ Open(p)
    /\ Goto(p, "closed")
    /\ Fault
    /\ UNCHANGED <<setting, redis, answered, worker, polling, ghosts, fails>>
----------------------------------------------------------------------------
(* _run_webhook_inbox_worker: recovery at its start, then one update at a   *)
(* time. "push" and "queue" are the tail of both recovery and requeue.      *)

Pc(s) == worker[s].pc
Work(s, pc) == worker' = [worker EXCEPT ![s].pc = pc]
(* The end of an iteration: on to the next id of the recovery, or idle.     *)
NextUpdate(s) ==
    worker' = [worker EXCEPT ![s] =
                   IF @.todo = <<>> THEN Idle
                   ELSE [pc |-> "recover", u |-> 0, todo |-> Tail(@.todo)]]
Unlist(s, u) == processing' = [processing EXCEPT ![s] = Lrem(@, u)]

\* Mutant of Boot: a worker starts without the recovery.
MutBoot(s) ==
    /\ transport = "webhook" /\ Pc(s) = "boot"
    /\ worker' = [worker EXCEPT ![s] = Idle]
    /\ UNCHANGED <<setting, redis, post, answered, polling, ghosts, fails, faults>>

Boot(s) ==
    /\ transport = "webhook" /\ Pc(s) = "boot"
    /\ worker' = [worker EXCEPT ![s] = [pc |-> "recover", u |-> 0, todo |-> processing[s]]]
    /\ UNCHANGED <<setting, redis, post, answered, polling, ghosts, fails, faults>>

Recover(s) ==
    /\ Pc(s) = "recover"
    /\ IF worker[s].todo = <<>>
       THEN worker' = [worker EXCEPT ![s] = Idle] /\ UNCHANGED processing
       ELSE LET u == Head(worker[s].todo) IN
            /\ Unlist(s, u)
            /\ worker' = [worker EXCEPT ![s].u = u,
                              ![s].pc = IF u \in payload THEN "push" ELSE "forget"]
    /\ UNCHANGED <<setting, st, payload, inbox, post, answered, polling, ghosts,
                   fails, faults>>

\* Mutant of Push: a failed update goes to the end that is served last.
MutPush(s) ==
    /\ Pc(s) = "push"
    /\ inbox' = [inbox EXCEPT ![s] = <<worker[s].u>> \o @]
    /\ Work(s, "queue")
    /\ UNCHANGED <<setting, st, payload, processing, post, answered, polling,
                   ghosts, fails, faults>>

Push(s) ==
    /\ Pc(s) = "push"
    /\ inbox' = [inbox EXCEPT ![s] = Append(@, worker[s].u)]
    /\ Work(s, "queue")
    /\ UNCHANGED <<setting, st, payload, processing, post, answered, polling,
                   ghosts, fails, faults>>

Queue(s) ==
    /\ Pc(s) = "queue"
    /\ st' = [st EXCEPT ![worker[s].u] = "queued"]
    /\ NextUpdate(s)
    /\ UNCHANGED <<setting, payload, inbox, processing, post, answered, polling,
                   ghosts, fails, faults>>

(* An id without its payload cannot be handled: its state is deleted.       *)
Forget(s) ==
    /\ Pc(s) = "forget"
    /\ st' = [st EXCEPT ![worker[s].u] = "none"]
    /\ Drop({worker[s].u})
    /\ NextUpdate(s)
    /\ UNCHANGED <<setting, payload, inbox, processing, post, answered, polling,
                   arrival, again, left, astray, handled, fails, faults>>

Claim(s) ==
    /\ Pc(s) = "idle" /\ inbox[s] # <<>>
    /\ inbox' = [inbox EXCEPT ![s] = Front(@)]
    /\ processing' = [processing EXCEPT ![s] = <<Last(inbox[s])>> \o @]
    /\ worker' = [worker EXCEPT ![s] = [Idle EXCEPT !.pc = "claimed", !.u = Last(inbox[s])]]
    /\ UNCHANGED <<setting, st, payload, post, answered, polling, ghosts, fails, faults>>

TakePayload(s) ==
    /\ Pc(s) = "claimed"
    /\ LET u == worker[s].u IN
       IF u \in payload
       THEN st' = [st EXCEPT ![u] = "processing"] /\ Work(s, "handle") /\ UNCHANGED processing
       ELSE Unlist(s, u) /\ Work(s, "forget") /\ UNCHANGED st
    /\ UNCHANGED <<setting, payload, inbox, post, answered, polling, ghosts, fails, faults>>

(* _process_update without a claim: the handler returns or raises.          *)
Handle(s) ==
    /\ Pc(s) = "handle"
    /\ \/ /\ handled' = [handled EXCEPT ![worker[s].u] = @ + 1]
          /\ Work(s, "complete") /\ UNCHANGED fails
       \/ /\ fails < MaxFails /\ fails' = fails + 1
          /\ Work(s, "requeue") /\ UNCHANGED handled
    /\ UNCHANGED <<setting, redis, post, answered, polling, arrival, again, left, astray,
                   lost, faults>>

(* complete_update_id, then ack_webhook_update: LREM, DEL payload, SET done. *)
Complete(s) ==
    /\ Pc(s) = "complete"
    /\ st' = [st EXCEPT ![worker[s].u] = "done"]
    /\ Work(s, "ack")
    /\ UNCHANGED <<setting, payload, inbox, processing, post, answered, polling,
                   ghosts, fails, faults>>

Ack(s) ==
    /\ Pc(s) = "ack"
    /\ Unlist(s, worker[s].u)
    /\ Work(s, "unload")
    /\ UNCHANGED <<setting, st, payload, inbox, post, answered, polling, ghosts,
                   fails, faults>>

Unload(s) ==
    /\ Pc(s) = "unload"
    /\ payload' = payload \ {worker[s].u}
    /\ Work(s, "mark")
    /\ UNCHANGED <<setting, st, inbox, processing, post, answered, polling, ghosts,
                   fails, faults>>

Mark(s) ==
    /\ Pc(s) = "mark"
    /\ st' = [st EXCEPT ![worker[s].u] = "done"]
    /\ worker' = [worker EXCEPT ![s] = Idle]
    /\ UNCHANGED <<setting, payload, inbox, processing, post, answered, polling,
                   ghosts, fails, faults>>

(* requeue_webhook_update starts with LREM; Push and Queue follow.          *)
Requeue(s) ==
    /\ Pc(s) = "requeue"
    /\ Unlist(s, worker[s].u)
    /\ Work(s, "push")
    /\ UNCHANGED <<setting, st, payload, inbox, post, answered, polling, ghosts,
                   fails, faults>>

(* Redis raises: complete_update_id swallows it; in the recovery it ends the *)
(* thread, which nobody starts again; elsewhere the loop goes on and the id  *)
(* stays wherever it is.                                                     *)
WorkerError(s) ==
    /\ Pc(s) \notin {"idle", "handle", "dead"} /\ transport = "webhook"
    /\ Fault
    /\ CASE Pc(s) = "complete" -> Work(s, "ack")
         [] Pc(s) \in {"boot", "recover"} \/ worker[s].todo # <<>> ->
                worker' = [worker EXCEPT ![s] = [Idle EXCEPT !.pc = "dead"]]
         [] OTHER -> worker' = [worker EXCEPT ![s] = Idle]
    /\ Drop(IF Pc(s) \in {"push", "forget"} THEN {worker[s].u} ELSE {})
    /\ left' = left \union ({worker[s].u} \ {0})
    /\ UNCHANGED <<setting, redis, post, answered, polling, arrival, again, astray,
                   handled, fails>>

WorkerStep(s) ==
    \/ Boot(s) \/ Recover(s) \/ Push(s) \/ Queue(s) \/ Forget(s) \/ Claim(s)
    \/ TakePayload(s) \/ Handle(s) \/ Complete(s) \/ Ack(s) \/ Unload(s)
    \/ Mark(s) \/ Requeue(s)
----------------------------------------------------------------------------
(* run_polling and _process_update with its claim.                          *)

Current == Head(poll.batch)
PollGoto(pc) == poll' = [poll EXCEPT !.pc = pc]

(* A failed update ends the batch and leaves the offset as it was, also for *)
(* the updates of the batch that were handled before it.                    *)
Break == poll' = Fetching(poll.offset)

Advance ==
    poll' = IF Len(poll.batch) = 1 THEN Fetching(Current + 1)
            ELSE [poll EXCEPT !.pc = "claim", !.batch = Tail(@)]

(* getUpdates(offset) confirms what is below the offset and returns the rest *)
(* that has arrived, m of them; a failed call is retried, nothing changes.   *)
GetUpdates(m) ==
    /\ transport = "polling" /\ poll.pc = "fetch"
    /\ confirmed' = IF poll.offset > confirmed THEN poll.offset ELSE confirmed
    /\ m \in 1 .. N + 1 - confirmed'
    /\ LET batch == [i \in 1 .. m |-> confirmed' + i - 1] IN
       /\ poll' = [poll EXCEPT !.pc = "claim", !.batch = batch]
       /\ Arrive(ToSet(batch))
    /\ UNCHANGED <<setting, redis, hook, local, again, left, astray, lost, handled, fails,
                   faults>>

(* What _process_update does with the answer of a claim.                     *)
OnClaim(state) ==
    CASE state = "none" -> PollGoto("handle")
      [] state = "done" -> Advance
      [] OTHER -> Break

PollClaim ==
    /\ poll.pc = "claim"
    /\ LET u == Current IN
       /\ st' = [st EXCEPT ![u] = IF @ = "none" THEN "inflight" ELSE @]
       /\ local' = [local EXCEPT ![u] = IF st[u] = "done" THEN "done" ELSE "inflight"]
       /\ OnClaim(st[u])
    /\ UNCHANGED <<setting, payload, inbox, processing, hook, confirmed, ghosts, fails, faults>>

(* Redis raises: the cache of this process decides.                          *)
PollClaimLocal ==
    /\ poll.pc = "claim"
    /\ Fault
    /\ LET u == Current IN
       /\ local' = [local EXCEPT ![u] = IF @ = "none" THEN "inflight" ELSE @]
       /\ OnClaim(local[u])
    /\ UNCHANGED <<setting, redis, hook, confirmed, ghosts, fails>>

PollHandle ==
    /\ poll.pc = "handle"
    /\ \/ /\ handled' = [handled EXCEPT ![Current] = @ + 1]
          /\ PollGoto("complete") /\ UNCHANGED fails
       \/ /\ fails < MaxFails /\ fails' = fails + 1
          /\ PollGoto("forget") /\ UNCHANGED handled
    /\ UNCHANGED <<setting, redis, hook, confirmed, local, arrival, again, left, astray,
                   lost, faults>>

(* The write to Redis may fail, which is logged and otherwise ignored.       *)
WriteState(u, state) ==
    \/ st' = [st EXCEPT ![u] = state] /\ UNCHANGED faults
    \/ Fault /\ UNCHANGED st

\* Mutant of PollComplete: a handled update is not marked as done.
MutPollComplete ==
    /\ poll.pc = "complete"
    /\ local' = [local EXCEPT ![Current] = "none"]
    /\ WriteState(Current, "none")
    /\ Advance
    /\ UNCHANGED <<setting, payload, inbox, processing, hook, confirmed, ghosts, fails>>

PollComplete ==
    /\ poll.pc = "complete"
    /\ local' = [local EXCEPT ![Current] = "done"]
    /\ WriteState(Current, "done")
    /\ Advance
    /\ UNCHANGED <<setting, payload, inbox, processing, hook, confirmed, ghosts, fails>>

\* Mutant of PollForget: the claim of a failed update is kept.
MutPollForget ==
    /\ poll.pc = "forget"
    /\ local' = [local EXCEPT ![Current] = "done"]
    /\ WriteState(Current, "done")
    /\ Break
    /\ UNCHANGED <<setting, payload, inbox, processing, hook, confirmed, ghosts, fails>>

PollForget ==
    /\ poll.pc = "forget"
    /\ local' = [local EXCEPT ![Current] = "none"]
    /\ WriteState(Current, "none")
    /\ Break
    /\ UNCHANGED <<setting, payload, inbox, processing, hook, confirmed, ghosts, fails>>

PollStep ==
    \/ \E m \in Updates : GetUpdates(m)
    \/ PollClaim \/ PollHandle \/ PollComplete \/ PollForget
----------------------------------------------------------------------------
(* The process dies and starts again: threads, open POSTs and caches go.     *)
Crash ==
    /\ Fault
    /\ post' = [p \in Posts |-> IF Open(p) THEN "closed" ELSE post[p]]
    /\ worker' = [s \in Shards |-> Booting]
    /\ poll' = Fetching(0)
    /\ local' = [u \in Updates |-> "none"]
    /\ left' = {} /\ astray' = astray \union (left \intersect again)
    /\ Drop({worker[s].u : s \in {t \in Shards : Pc(t) \in {"push", "forget"}}})
    /\ UNCHANGED <<setting, redis, answered, confirmed, arrival, again, handled, fails>>

(* PROCESSED_UPDATE_TTL_SEC: a payload expires, or a state is forgotten.     *)
Expire(u) ==
    /\ Fault
    /\ \/ u \in payload /\ payload' = payload \ {u} /\ UNCHANGED <<st, local>>
       \/ /\ st[u] # "none"
          /\ st' = [st EXCEPT ![u] = "none"]
          /\ local' = [local EXCEPT ![u] = "none"]
          /\ UNCHANGED payload
    /\ UNCHANGED <<setting, inbox, processing, hook, poll, confirmed, ghosts, fails>>

(* The claim of an update nobody works on runs out.                          *)
ClaimLapses(u) ==
    /\ st[u] = "inflight" /\ poll.pc \in {"fetch", "claim"}
    /\ st' = [st EXCEPT ![u] = "none"]
    /\ local' = [local EXCEPT ![u] = "none"]
    /\ UNCHANGED <<setting, payload, inbox, processing, hook, poll, confirmed, ghosts,
                   fails, faults>>

PostStep(p) == EnqueueGet(p) \/ EnqueuePayload(p) \/ EnqueuePush(p) \/ EnqueueState(p)

Next ==
    \/ \E u \in Updates, k \in 1 .. MaxPosts : Send(u, k)
    \/ \E p \in Posts : PostStep(p) \/ EnqueueError(p)
    \/ \E s \in Shards : WorkerStep(s) \/ WorkerError(s)
    \/ PollStep \/ PollClaimLocal
    \/ \E u \in Updates : Expire(u) \/ ClaimLapses(u)
    \/ Crash

(* A thread that can go on does; a claim nobody renews runs out.             *)
Fairness ==
    /\ \A s \in Shards : WF_vars(WorkerStep(s))
    /\ WF_vars(PollStep)
    /\ \A u \in Updates : SF_vars(ClaimLapses(u))

Spec == Init /\ [][Next]_vars /\ Fairness
----------------------------------------------------------------------------
(* The offset never passes an update that has not been handled: Telegram     *)
(* would not send it again.                                                  *)
ConfirmedWasHandled ==
    transport = "polling" => \A u \in Updates : u < confirmed => handled[u] > 0

(* Before in the order in which the transport promises to serve.             *)
Before(u, v) ==
    IF transport = "polling" THEN u < v
    ELSE shard[u] = shard[v] /\ 0 < arrival[u] /\ arrival[u] < arrival[v]

(* An update is not handled while an earlier one of the same user (shard),   *)
(* or with polling any earlier one, still waits unhandled: neither a         *)
(* failure, a requeue nor the recovery of a restart changes the order. (A    *)
(* duplicate may wait while the first copy is stuck in the processing list,  *)
(* and LREM 0 may take both copies from there: an update with two copies     *)
(* that an error left behind has lost its place when the process restarts.)  *)
HandledInOrder ==
    [][\A u, v \in Updates :
           (Before(u, v) /\ handled[v] = 0 /\ handled'[v] = 1) =>
               \/ handled[u] > 0 \/ u \in lost
               \/ /\ transport = "webhook"
                  /\ u \notin ToSet(inbox[shard[u]]) \/ u \in left \union astray]_vars

(* What the bot has taken it handles. It waits for a restart if an error of  *)
(* Redis left it in the processing list or ended its worker.                 *)
NeedsRestart(u) == transport = "webhook" /\ (u \in left \/ Pc(shard[u]) = "dead")
ArrivedIsHandled ==
    \A u \in Updates :
        u \in Arrived ~> (handled[u] > 0 \/ u \in lost \/ NeedsRestart(u))

(* Both transports are at-least-once intakes: without a fault an update is   *)
(* handled once and not lost; each extra handling and each loss has a fault. *)
Abstract ==
    INSTANCE AtLeastOnce WITH
        Items <- Updates,
        owed <- {u \in Arrived : handled[u] = 0 /\ u \notin lost},
        times <- handled, trouble <- faults
ImplementsAtLeastOnce == Abstract!Spec
=============================================================================
