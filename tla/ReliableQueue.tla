--------------------------- MODULE ReliableQueue ---------------------------
(***************************************************************************)
(* The Redis queues of ai-service: a list from which a worker moves each   *)
(* message to a processing list, and from there, when it has been worked   *)
(* on, out of Redis, back, or to the dead-letter list.  The consumers of   *)
(* ai-process, ac-batch, user-embed and user-rematch all follow            *)
(* adapter/redis/queue.py and usecase/consumer_loop.py.                    *)
(*                                                                         *)
(* Each command or MULTI block of Redis is a step, and so is what a worker *)
(* does between two of them.  A list is a bag of payloads: LREM takes one  *)
(* of several equal payloads, and which message is popped next is left     *)
(* open.  A payload is a message with the number of retries and the claim  *)
(* that was stamped on it; claims are numbered in the order of their time. *)
(***************************************************************************)
EXTENDS Integers, Bags, BagsExt

CONSTANTS
    Workers,    \* replicas of a consumer
    Messages,
    KeyOf,      \* KeyOf[m]: the job or user that ack and nack are called with
    KeyIsWork,  \* whether the key is all a message says (not so in ac-batch)
    MaxNacks,   \* retries before the DLQ
    MaxClaims,  \* bound on the claims of a behaviour
    MaxFaults,  \* bound on the faults of a behaviour
    Faults      \* what happens: "redis", "crash", "stop"

ASSUME ConstantsAssumption ==
    /\ KeyIsWork \in BOOLEAN
    /\ MaxNacks \in Nat
    /\ MaxClaims \in Nat
    /\ MaxFaults \in Nat
    /\ Faults \subseteq {"redis", "crash", "stop"}

VARIABLES
    queue, processing, dlq,  \* the lists in Redis
    published,  \* messages that have been enqueued
    handled,    \* messages whose work has been done since
    clock,      \* the last claim that was stamped
    aged,       \* claims up to this one are older than the reclaim threshold
    faults,     \* the faults so far
    proc        \* proc[w]: the state of worker w

lists == <<queue, processing, dlq>>
vars == <<lists, published, handled, clock, aged, faults, proc>>

Payload == [msg : Messages, tries : 0 .. MaxNacks + 1, claim : 0 .. MaxClaims]

Proc == [pc : {"down", "reclaim", "idle", "popped", "got", "run", "ok",
               "failed", "exit", "gone"},
         hand : SUBSET Payload,    \* the payload last popped
         inflight : SUBSET Payload, \* _inflight_by_job_id, ordered by claim
         covers : SUBSET Messages, \* what the running execution works on
         stopping : BOOLEAN,       \* stop_event
         forced : BOOLEAN]         \* the forced exit has begun

Down == [pc |-> "down", hand |-> {}, inflight |-> {}, covers |-> {},
         stopping |-> FALSE, forced |-> FALSE, items |-> EmptyBag,
         leaving |-> EmptyBag]

PayloadBag(B) == IsABag(B) /\ DOMAIN B \subseteq Payload

TypeOK ==
    /\ PayloadBag(queue) /\ PayloadBag(processing) /\ PayloadBag(dlq)
    /\ \A r \in DOMAIN queue : r.tries <= MaxNacks
    /\ published \subseteq Messages
    /\ handled \subseteq Messages
    /\ clock \in 0 .. MaxClaims
    /\ aged \in 0 .. clock
    /\ faults \in 0 .. MaxFaults
    /\ \A w \in Workers :
          /\ [pc |-> proc[w].pc, hand |-> proc[w].hand,
              inflight |-> proc[w].inflight, covers |-> proc[w].covers,
              stopping |-> proc[w].stopping, forced |-> proc[w].forced] \in Proc
          /\ PayloadBag(proc[w].items)    \* what reclaim_stuck has yet to move
          /\ PayloadBag(proc[w].leaving)  \* what nack_all_inflight has yet to

Init ==
    /\ queue = EmptyBag /\ processing = EmptyBag /\ dlq = EmptyBag
    /\ published = {}
    /\ handled = {}
    /\ clock = 0
    /\ aged = 0
    /\ faults = 0
    /\ proc = [w \in Workers |-> Down]

At(w, label) == proc[w].pc = label
Up(w) == proc[w].pc # "down"
Becomes(w, p) == proc' = [proc EXCEPT ![w] = p]

Occurs(kind) ==
    /\ kind \in Faults
    /\ faults < MaxFaults
    /\ faults' = faults + 1

Goto(w, label) == Becomes(w, [proc[w] EXCEPT !.pc = label])

-----------------------------------------------------------------------------
(* The producer.                                                           *)

Publish(m) ==
    /\ m \notin published
    /\ published' = published \cup {m}
    /\ queue' = BagAdd(queue, [msg |-> m, tries |-> 0, claim |-> 0])
    /\ UNCHANGED <<processing, dlq, handled, clock, aged, faults, proc>>

-----------------------------------------------------------------------------
(* Start of a worker: reclaim_stuck.                                       *)

\* Mutant of Stuck: the threshold is forgotten.
MutStuck(r) == r.claim <= clock

\* No claim, or one older than the threshold.
Stuck(r) == r.claim <= aged

Start(w) ==
    /\ At(w, "down")
    /\ Becomes(w, [Down EXCEPT !.pc = "reclaim",
           !.items = [r \in {x \in DOMAIN processing : Stuck(x)} |->
                         processing[r]]])
    /\ UNCHANGED <<lists, published, handled, clock, aged, faults>>

\* LREM may find nothing: RPUSH follows all the same.
Reclaim(w, r) ==
    /\ At(w, "reclaim")
    /\ r \in DOMAIN proc[w].items
    /\ processing' = BagRemove(processing, r)
    /\ queue' = BagAdd(queue, r)
    /\ Becomes(w, [proc[w] EXCEPT !.items = BagRemove(@, r)])
    /\ UNCHANGED <<dlq, published, handled, clock, aged, faults>>

\* reclaim_with_retry begins again when Redis fails.
ReclaimError(w) ==
    /\ Occurs("redis")
    /\ At(w, "reclaim")
    /\ Becomes(w, Down)
    /\ UNCHANGED <<lists, published, handled, clock, aged>>

Reclaimed(w) ==
    /\ At(w, "reclaim")
    /\ proc[w].items = EmptyBag
    /\ Goto(w, "idle")
    /\ UNCHANGED <<lists, published, handled, clock, aged, faults>>

-----------------------------------------------------------------------------
(* pop_blocking.                                                           *)

Pop(w, r) ==
    /\ At(w, "idle")
    /\ ~proc[w].stopping
    /\ r \in DOMAIN queue
    /\ queue' = BagRemove(queue, r)
    /\ processing' = BagAdd(processing, r)
    /\ Becomes(w, [proc[w] EXCEPT !.pc = "popped", !.hand = {r}])
    /\ UNCHANGED <<dlq, published, handled, clock, aged, faults>>

\* The payload is replaced by one with the time of the claim.
Stamp(w) ==
    /\ At(w, "popped")
    /\ clock < MaxClaims
    /\ clock' = clock + 1
    /\ \E r \in proc[w].hand :
          LET s == [r EXCEPT !.claim = clock + 1]
          IN  /\ processing' = BagAdd(BagRemove(processing, r), s)
              /\ \/ /\ Becomes(w, [proc[w] EXCEPT !.pc = "got", !.hand = {s},
                           !.inflight = @ \cup {s}])
                    /\ UNCHANGED faults
                 \/ /\ Occurs("redis")  \* done, but the answer is lost
                    /\ Becomes(w, [proc[w] EXCEPT !.pc = "idle", !.hand = {}])
    /\ UNCHANGED <<queue, dlq, published, handled, aged>>

\* The block is not executed; the loop waits and pops another message.
StampError(w) ==
    /\ Occurs("redis")
    /\ At(w, "popped")
    /\ Becomes(w, [proc[w] EXCEPT !.pc = "idle", !.hand = {}])
    /\ UNCHANGED <<lists, published, handled, clock, aged>>

-----------------------------------------------------------------------------
(* The consumer loop.                                                      *)

Key(w) == KeyOf[(CHOOSE r \in proc[w].hand : TRUE).msg]

\* What an execution for r does the work of: a job or user is read from the
\* database with all that was asked for up to now, a batch is in its message.
Work(r) ==
    IF KeyIsWork THEN {m \in published : KeyOf[m] = KeyOf[r.msg]} ELSE {r.msg}

Begin(w) ==
    /\ At(w, "got")
    /\ ~proc[w].stopping
    /\ Becomes(w, [proc[w] EXCEPT !.pc = "run",
           !.covers = UNION {Work(r) : r \in proc[w].hand}])
    /\ UNCHANGED <<lists, published, handled, clock, aged, faults>>

\* Mutant of Fail: the message is acknowledged in a finally clause.
MutFail(w) ==
    /\ At(w, "run")
    /\ Goto(w, "ok")
    /\ UNCHANGED <<lists, published, handled, clock, aged, faults>>

\* execute raises an exception.
Fail(w) ==
    /\ At(w, "run")
    /\ Goto(w, "failed")
    /\ UNCHANGED <<lists, published, handled, clock, aged, faults>>

\* execute returns.
Succeed(w) ==
    /\ At(w, "run")
    /\ handled' = handled \cup proc[w].covers
    /\ Goto(w, "ok")
    /\ UNCHANGED <<lists, published, clock, aged, faults>>

\* _peek_inflight: the oldest payload in flight under the key, if any.
Peeked(w) ==
    LET own == {r \in proc[w].inflight : KeyOf[r.msg] = Key(w)}
    IN  {r \in own : \A x \in own : r.claim <= x.claim}

\* _drop_inflight; payloads differ in their claims.
Dropped(w, r) == proc[w].inflight \ {r}

\* The loop goes on with the next message, or ends after stop_event.
Settled(w, inflight) ==
    Becomes(w, [proc[w] EXCEPT !.pc = IF @ = "got" THEN "exit" ELSE "idle",
                               !.inflight = inflight,
                               !.hand = {},
                               !.covers = {}])

Ack(w) ==
    /\ At(w, "ok")
    /\ \/ /\ Peeked(w) = {}
          /\ Settled(w, proc[w].inflight)
          /\ UNCHANGED <<processing, faults>>
       \/ \E r \in Peeked(w) :
             /\ processing' = BagRemove(processing, r)
             /\ \/ Settled(w, Dropped(w, r)) /\ UNCHANGED faults
                \/ Occurs("redis") /\ Settled(w, proc[w].inflight)
    /\ UNCHANGED <<queue, dlq, published, handled, clock, aged>>

\* Mutant of GiveBack: one retry too many.
MutGiveBack(r) ==
    LET out == [r EXCEPT !.tries = @ + 1]
    IN  /\ processing' = BagRemove(processing, r)
        /\ IF r.tries > MaxNacks
           THEN dlq' = BagAdd(dlq, out) /\ UNCHANGED queue
           ELSE queue' = BagAdd(queue, out) /\ UNCHANGED dlq

\* The MULTI block of nack and of nack_all_inflight.
GiveBack(r) ==
    LET out == [r EXCEPT !.tries = @ + 1]
    IN  /\ processing' = BagRemove(processing, r)
        /\ IF out.tries > MaxNacks
           THEN dlq' = BagAdd(dlq, out) /\ UNCHANGED queue
           ELSE queue' = BagAdd(queue, out) /\ UNCHANGED dlq

\* _maybe_shutdown_requeue: what was popped is not executed any more.
TurnedAway(w) == At(w, "got") /\ proc[w].stopping

\* After a failure, or instead of an execution when the worker is to stop.
Nack(w) ==
    /\ At(w, "failed") \/ TurnedAway(w)
    /\ \/ /\ Peeked(w) = {}
          /\ Settled(w, proc[w].inflight)
          /\ UNCHANGED <<lists, faults>>
       \/ \E r \in Peeked(w) :
             /\ GiveBack(r)
             /\ \/ Settled(w, Dropped(w, r)) /\ UNCHANGED faults
                \/ Occurs("redis") /\ Settled(w, proc[w].inflight)
    /\ UNCHANGED <<published, handled, clock, aged>>

\* LREM or the block is not executed: the payload remains in flight.
SettleError(w) ==
    /\ Occurs("redis")
    /\ At(w, "ok") \/ At(w, "failed") \/ TurnedAway(w)
    /\ Settled(w, proc[w].inflight)
    /\ UNCHANGED <<lists, published, handled, clock, aged>>

-----------------------------------------------------------------------------
(* The end of a worker.                                                    *)

\* on_signal.
Stop(w) ==
    /\ Occurs("stop")
    /\ Up(w)
    /\ ~proc[w].stopping
    /\ Becomes(w, [proc[w] EXCEPT !.stopping = TRUE])
    /\ UNCHANGED <<lists, published, handled, clock, aged>>

LoopEnds(w) ==
    /\ At(w, "idle")
    /\ proc[w].stopping
    /\ Goto(w, "exit")
    /\ UNCHANGED <<lists, published, handled, clock, aged, faults>>

\* nack_all_inflight: by the main thread when it leaves the loop, and by the
\* thread that forces the exit, whatever the main thread is doing.
NackAll(w) ==
    /\ \/ /\ At(w, "exit")
          /\ Becomes(w, [proc[w] EXCEPT !.pc = "gone",
                 !.leaving = @ (+) SetToBag(proc[w].inflight)])
       \/ /\ Up(w) /\ proc[w].stopping /\ ~proc[w].forced
          /\ Becomes(w, [proc[w] EXCEPT !.forced = TRUE,
                 !.leaving = @ (+) SetToBag(proc[w].inflight)])
    /\ UNCHANGED <<lists, published, handled, clock, aged, faults>>

NackOne(w, r) ==
    /\ r \in DOMAIN proc[w].leaving
    /\ GiveBack(r)
    /\ Becomes(w, [proc[w] EXCEPT !.leaving = BagRemove(@, r),
                                  !.inflight = Dropped(w, r)])
    /\ UNCHANGED <<published, handled, clock, aged, faults>>

\* Redis failing, nack_all_inflight returns early.
Exit(w) ==
    /\ At(w, "gone") \/ proc[w].forced
    /\ \/ proc[w].leaving = EmptyBag /\ UNCHANGED faults
       \/ proc[w].leaving # EmptyBag /\ Occurs("redis")
    /\ Becomes(w, Down)
    /\ UNCHANGED <<lists, published, handled, clock, aged>>

Crash(w) ==
    /\ Occurs("crash")
    /\ Up(w)
    /\ Becomes(w, Down)
    /\ UNCHANGED <<lists, published, handled, clock, aged>>

\* A claim grows older than the reclaim threshold.
Age ==
    /\ aged < clock
    /\ aged' = aged + 1
    /\ UNCHANGED <<lists, published, handled, clock, faults, proc>>

-----------------------------------------------------------------------------
Step(w) ==
    \/ Reclaimed(w) \/ Stamp(w) \/ Begin(w) \/ Fail(w) \/ Succeed(w)
    \/ Ack(w) \/ Nack(w) \/ LoopEnds(w) \/ NackAll(w) \/ Exit(w)
    \/ \E r \in DOMAIN proc[w].items : Reclaim(w, r)
    \/ \E r \in DOMAIN queue : Pop(w, r)
    \/ \E r \in DOMAIN proc[w].leaving : NackOne(w, r)

Fault(w) ==
    ReclaimError(w) \/ StampError(w) \/ SettleError(w) \/ Stop(w) \/ Crash(w)

Next ==
    \/ \E m \in Messages : Publish(m)
    \/ \E w \in Workers : Start(w) \/ Step(w) \/ Fault(w)
    \/ Age

Spec == Init /\ [][Next]_vars

\* A worker that is down is started again and one that is up goes on.
Fairness ==
    /\ \A w \in Workers : WF_vars(Start(w)) /\ WF_vars(Step(w))
    /\ WF_vars(Age)

FairSpec == Spec /\ Fairness

-----------------------------------------------------------------------------
Holds(list, m) == \E r \in DOMAIN list : r.msg = m

\* A message stays in one of the lists until its work has been done.
NothingLost ==
    \A m \in published \ handled :
        Holds(queue, m) \/ Holds(processing, m) \/ Holds(dlq, m)

\* As long as its claim is fresh, what a worker is working on stays in the
\* processing list: no other worker's start takes it away.
FreshClaimStays ==
    \A w \in Workers : \A r \in proc[w].hand :
        At(w, "run") /\ r.claim > aged /\ ~proc[w].forced
            => BagIn(r, processing)

=============================================================================
