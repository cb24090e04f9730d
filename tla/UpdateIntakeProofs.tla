------------------------- MODULE UpdateIntakeProofs -------------------------
(* What holds of the intake by polling, however many updates there are and *)
(* however often the process dies, Redis fails, keys expire and handlers   *)
(* raise: the offset confirms only what was handled, updates are handled   *)
(* in Telegram's order, and the intake is at least once.                   *)
EXTENDS UpdateIntake, FiniteSetTheorems, SequenceTheorems, TLAPS

Polling == transport = "polling"
States == {"none", "inflight", "done"}
PollLabels == {"fetch", "claim", "handle", "complete", "forget"}

Typing ==
    /\ st \in [Updates -> States]
    /\ local \in [Updates -> States]
    /\ poll \in [pc : PollLabels, batch : Seq(Updates), offset : Nat]
    /\ confirmed \in 1 .. N + 1
    /\ handled \in [Updates -> Nat]
    /\ arrival \in [Updates -> Nat]
    /\ faults \in Nat

(* Nobody posts and no inbox worker was ever started.                      *)
Quiet ==
    /\ post = [p \in Posts |-> "unsent"]
    /\ worker = [s \in Shards |-> Booting]
    /\ lost = {}

(* A batch is a run of consecutive updates that have arrived.              *)
Consecutive(batch) ==
    /\ batch # <<>>
    /\ \A i \in DOMAIN batch : batch[i] = Head(batch) + i - 1 /\ batch[i] \in Arrived

HandledBelow(n) == \A u \in Updates : u < n => handled[u] > 0

(* Everything the loop has passed was handled: below the confirmed offset, *)
(* below the next one, before the batch, and where a key says so.          *)
Passed ==
    /\ HandledBelow(confirmed)
    /\ HandledBelow(poll.offset)
    /\ poll.pc # "fetch" => Consecutive(poll.batch) /\ HandledBelow(Current)
    /\ poll.pc = "complete" => handled[Current] > 0
    /\ \A u \in Updates : st[u] = "done" \/ local[u] = "done" => handled[u] > 0

(* Each handling of an update but one was paid for with a fault, and all   *)
(* of them once its key is open to another.                                *)
Paid ==
    /\ \A u \in Updates :
           \/ handled[u] <= faults
           \/ handled[u] = faults + 1 /\ st[u] = "done"
           \/ handled[u] = faults + 1 /\ poll.pc = "complete" /\ Current = u
    /\ poll.pc \in {"handle", "forget"} => handled[Current] <= faults

PollInv == Typing /\ Quiet /\ Passed /\ Paid

---------------------------------------------------------------------------
(* Which transport runs, and what polling leaves to happen.                *)

LEMMA TransportStays == [Next]_vars => transport' = transport
  <1> SUFFICES ASSUME [Next]_vars PROVE transport' = transport
    OBVIOUS
  <1>1. CASE \E u \in Updates, k \in 1 .. MaxPosts : Send(u, k)
    BY <1>1 DEF Send, setting
  <1>2. CASE \E p \in Posts : PostStep(p) \/ EnqueueError(p)
    BY <1>2 DEF PostStep, EnqueueError, EnqueueGet, EnqueuePayload, EnqueuePush,
                EnqueueState, setting
  <1>3. CASE \E s \in Shards : WorkerStep(s) \/ WorkerError(s)
    BY <1>3 DEF WorkerStep, WorkerError, Boot, Recover, Push, Queue, Forget, Claim,
                TakePayload, Handle, Complete, Ack, Unload, Mark, Requeue, setting
  <1>4. CASE PollStep \/ PollClaimLocal
    BY <1>4 DEF PollStep, PollClaimLocal, GetUpdates, PollClaim, PollHandle,
                PollComplete, PollForget, setting
  <1>5. CASE (\E u \in Updates : Expire(u) \/ ClaimLapses(u)) \/ Crash
    BY <1>5 DEF Expire, ClaimLapses, Crash, setting
  <1>6. CASE UNCHANGED vars
    BY <1>6 DEF vars, setting
  <1> QED BY <1>1, <1>2, <1>3, <1>4, <1>5, <1>6 DEF Next

LEMMA PollingSteps ==
    ASSUME Polling, Quiet, [Next]_vars
    PROVE  \/ \E m \in Updates : GetUpdates(m)
           \/ PollClaim \/ PollClaimLocal \/ PollHandle \/ PollComplete \/ PollForget
           \/ \E u \in Updates : Expire(u) \/ ClaimLapses(u)
           \/ Crash \/ UNCHANGED vars
  <1>1. ASSUME NEW u \in Updates, NEW k \in 1 .. MaxPosts PROVE ~Send(u, k)
    BY DEF Send, Polling
  <1>2. ASSUME NEW p \in Posts PROVE ~(PostStep(p) \/ EnqueueError(p))
    <2>1. post[p] = "unsent"
      BY DEF Quiet
    <2> QED BY <2>1 DEF PostStep, EnqueueError, EnqueueGet, EnqueuePayload, EnqueuePush,
                        EnqueueState, At, Open
  <1>3. ASSUME NEW s \in Shards PROVE ~(WorkerStep(s) \/ WorkerError(s))
    <2>1. Pc(s) = "boot"
      BY DEF Quiet, Pc, Booting, Idle
    <2> QED BY <2>1 DEF WorkerStep, WorkerError, Boot, Recover, Push, Queue, Forget, Claim,
                        TakePayload, Handle, Complete, Ack, Unload, Mark, Requeue, Polling
  <1> QED BY <1>1, <1>2, <1>3 DEF Next, PollStep

---------------------------------------------------------------------------
(* The parts of a batch.                                                   *)

LEMMA CurrentType ==
    ASSUME Typing, Passed, poll.pc # "fetch"
    PROVE  /\ Current \in Updates /\ Current \in Arrived
           /\ poll.batch \in Seq(Updates) /\ Len(poll.batch) \in Nat \ {0}
           /\ Current = poll.batch[1]
  <1> USE DEF Typing, Passed, Consecutive, Current
  <1>1. poll.batch \in Seq(Updates) /\ poll.batch # <<>>
    OBVIOUS
  <1>2. Len(poll.batch) \in Nat \ {0} /\ DOMAIN poll.batch = 1 .. Len(poll.batch)
    BY <1>1
  <1>3. Current = poll.batch[1] /\ 1 \in DOMAIN poll.batch
    BY <1>1, <1>2
  <1>4. Current \in Arrived
    BY <1>3
  <1>5. Current \in Updates
    BY <1>4 DEF Arrived
  <1> QED BY <1>1, <1>2, <1>3, <1>4, <1>5

LEMMA CurrentTypeNext ==
    Typing' /\ Passed' /\ poll'.pc # "fetch" => Current' \in Updates
  <1> SUFFICES ASSUME Typing', Passed', poll'.pc # "fetch" PROVE Current' \in Updates
    OBVIOUS
  <1>1. poll'.batch \in Seq(Updates) /\ poll'.batch # <<>>
    BY DEF Typing, Passed, Consecutive
  <1> QED BY <1>1 DEF Current

LEMMA RestOfRun ==
    ASSUME NEW b \in Seq(Updates), Consecutive(b), Len(b) # 1
    PROVE  /\ Tail(b) \in Seq(Updates) /\ Consecutive(Tail(b))
           /\ Head(Tail(b)) = Head(b) + 1
  <1>1. Len(b) \in Nat \ {0} /\ DOMAIN b = 1 .. Len(b) /\ b # <<>>
    BY DEF Consecutive
  <1>2. 1 \in 1 .. Len(b) - 1 /\ 2 \in 1 .. Len(b)
    BY <1>1
  <1>3. /\ Tail(b) \in Seq(Updates) /\ DOMAIN Tail(b) = 1 .. Len(b) - 1
        /\ Len(Tail(b)) = Len(b) - 1
        /\ \A i \in 1 .. Len(b) - 1 : Tail(b)[i] = b[i + 1]
    BY <1>1
  <1>4. Head(b) \in Updates /\ Head(b) \in Nat
    BY <1>1, IntakeAssumption DEF Updates
  <1>5. b[2] = Head(b) + 1
    BY <1>1, <1>2, <1>4 DEF Consecutive
  <1>6. Tail(b) # <<>> /\ Head(Tail(b)) = Tail(b)[1]
    <2>1. Len(Tail(b)) # 0 /\ Len(<<>>) = 0
      BY <1>1, <1>2, <1>3
    <2>2. Tail(b) # <<>>
      BY <2>1
    <2> QED BY <2>2, <1>3
  <1>7. Head(Tail(b)) = Head(b) + 1
    BY <1>2, <1>3, <1>5, <1>6
  <1>8. ASSUME NEW i \in 1 .. Len(b) - 1
        PROVE  Tail(b)[i] = Head(Tail(b)) + i - 1 /\ Tail(b)[i] \in Arrived
    <2>1. Tail(b)[i] = b[i + 1] /\ i + 1 \in DOMAIN b
      BY <1>1, <1>3
    <2>2. b[i + 1] = Head(b) + (i + 1) - 1 /\ b[i + 1] \in Arrived
      BY <2>1 DEF Consecutive
    <2> QED BY <2>1, <2>2, <1>4, <1>7
  <1> QED BY <1>3, <1>6, <1>7, <1>8 DEF Consecutive

(* On to the next update of the batch, or to the offset behind the batch.  *)
LEMMA AdvanceKeeps ==
    ASSUME Typing, Passed, poll.pc # "fetch", Advance, handled[Current] > 0,
           \A u \in Updates : handled[u] > 0 => handled'[u] > 0,
           arrival' = arrival
    PROVE  /\ poll' \in [pc : PollLabels, batch : Seq(Updates), offset : Nat]
           /\ HandledBelow(poll.offset)'
           /\ poll'.pc # "fetch" => Consecutive(poll.batch)' /\ HandledBelow(Current)'
           /\ poll'.pc \in {"fetch", "claim"}
  <1>1. /\ Current \in Updates /\ Current \in Arrived
        /\ poll.batch \in Seq(Updates) /\ Len(poll.batch) \in Nat \ {0}
        /\ Current = poll.batch[1]
    BY CurrentType
  <1>2. HandledBelow(Current) /\ Consecutive(poll.batch) /\ HandledBelow(poll.offset)
    BY DEF Passed
  <1>3. \A u \in Updates : u < Current + 1 => handled'[u] > 0
    <2> SUFFICES ASSUME NEW u \in Updates, u < Current + 1 PROVE handled[u] > 0
      OBVIOUS
    <2>1. u \in Nat /\ Current \in Nat
      BY <1>1, IntakeAssumption DEF Updates
    <2>2. u < Current \/ u = Current
      BY <2>1
    <2> QED BY <2>2, <1>2 DEF HandledBelow
  <1>4. CASE Len(poll.batch) = 1
    <2>1. poll' = Fetching(Current + 1) /\ Current + 1 \in Nat
      BY <1>4, <1>1, IntakeAssumption DEF Advance, Updates
    <2>2. poll'.pc = "fetch" /\ poll'.offset = Current + 1
      BY <2>1 DEF Fetching
    <2> HIDE DEF Current
    <2>3. poll' \in [pc : PollLabels, batch : Seq(Updates), offset : Nat]
      BY <2>1 DEF Fetching, PollLabels
    <2> QED BY <2>2, <2>3, <1>3 DEF HandledBelow
  <1>5. CASE Len(poll.batch) # 1
    <2>1. poll' = [poll EXCEPT !.pc = "claim", !.batch = Tail(@)]
      BY <1>5 DEF Advance
    <2>2. /\ Tail(poll.batch) \in Seq(Updates) /\ Consecutive(Tail(poll.batch))
          /\ Head(Tail(poll.batch)) = Current + 1
      BY <1>1, <1>2, <1>5, RestOfRun DEF Current
    <2>3. poll' \in [pc : PollLabels, batch : Seq(Updates), offset : Nat]
      BY <2>1, <2>2 DEF Typing, PollLabels
    <2>4. poll'.batch = Tail(poll.batch) /\ poll'.offset = poll.offset /\ poll'.pc = "claim"
      BY <2>1 DEF Typing
    <2>5. Consecutive(poll.batch)'
      BY <2>2, <2>4 DEF Consecutive, Arrived
    <2>6. HandledBelow(Current)'
      <3>1. Current' = Current + 1
        BY <2>2, <2>4 DEF Current
      <3> QED BY <3>1, <1>3 DEF HandledBelow
    <2> QED BY <2>3, <2>4, <2>5, <2>6, <1>2 DEF HandledBelow
  <1> QED BY <1>4, <1>5

---------------------------------------------------------------------------
(* The invariant of polling.                                               *)

LEMMA PollInit == Init /\ Polling => PollInv
  <1> SUFFICES ASSUME Init, Polling PROVE PollInv
    OBVIOUS
  <1> USE DEF Init
  <1>1. Typing
    <2>1. poll \in [pc : PollLabels, batch : Seq(Updates), offset : Nat]
      BY DEF Fetching, PollLabels
    <2> QED BY <2>1, IntakeAssumption DEF Typing, States
  <1>2. Quiet
    BY DEF Quiet
  <1>3. poll.pc = "fetch" /\ poll.offset = 0
    BY DEF Fetching
  <1>4. Passed
    BY <1>3, IntakeAssumption DEF Passed, HandledBelow, Updates
  <1>5. Paid
    BY <1>3 DEF Paid
  <1> QED BY <1>1, <1>2, <1>4, <1>5 DEF PollInv

LEMMA RunOfUpdates ==
    ASSUME NEW c \in Nat \ {0}, NEW m \in Nat \ {0}, c + m - 1 <= N,
           NEW b, b = [i \in 1 .. m |-> c + i - 1]
    PROVE  b \in Seq(Updates) /\ b # <<>> /\ Head(b) = c /\ DOMAIN b = 1 .. m
  <1>1. \A i \in 1 .. m : c + i - 1 \in 1 .. N
    BY IntakeAssumption
  <1>2. b \in [1 .. m -> Updates]
    BY <1>1 DEF Updates
  <1>3. b \in Seq(Updates) /\ Len(b) = m
    <2>1. b \in UNION {[1 .. n -> Updates] : n \in Nat}
      BY <1>2
    <2>2. b \in Seq(Updates)
      BY <2>1, SeqDef
    <2>3. DOMAIN b = 1 .. Len(b) /\ DOMAIN b = 1 .. m /\ Len(b) \in Nat
      BY <1>2, <2>2
    <2> QED BY <2>2, <2>3
  <1>4. b # <<>> /\ 1 \in 1 .. m
    BY <1>3
  <1>5. Head(b) = b[1] /\ b[1] = c
    BY <1>3, <1>4
  <1> QED BY <1>3, <1>4, <1>5

LEMMA GetUpdatesKeeps ==
    ASSUME PollInv, NEW m \in Updates, GetUpdates(m)
    PROVE  PollInv'
  <1> USE DEF PollInv
  <1> DEFINE batch == [i \in 1 .. m |-> confirmed' + i - 1]
  <1>1. /\ confirmed' = IF poll.offset > confirmed THEN poll.offset ELSE confirmed
        /\ m \in 1 .. N + 1 - confirmed'
        /\ poll.pc = "fetch"
        /\ poll' = [poll EXCEPT !.pc = "claim", !.batch = batch]
        /\ Arrive(ToSet(batch))
    BY DEF GetUpdates
  <1>2. UNCHANGED <<st, local, post, worker, lost, handled, faults>>
    BY DEF GetUpdates, redis, hook
  <1>3. confirmed' \in Nat \ {0} /\ m \in Nat \ {0} /\ N \in Nat
    BY <1>1, IntakeAssumption DEF Typing, Updates
  <1>4. confirmed' \in 1 .. N + 1 /\ confirmed' + m - 1 <= N
    BY <1>1, <1>3
  <1>5. HandledBelow(confirmed)'
    <2>1. HandledBelow(confirmed) /\ HandledBelow(poll.offset)
      BY DEF Passed
    <2>2. CASE confirmed' = confirmed
      BY <2>1, <2>2, <1>2 DEF HandledBelow
    <2>3. CASE confirmed' = poll.offset
      BY <2>1, <2>3, <1>2 DEF HandledBelow
    <2> QED BY <2>2, <2>3, <1>1
  <1>6. /\ batch \in Seq(Updates) /\ batch # <<>> /\ Head(batch) = confirmed'
        /\ DOMAIN batch = 1 .. m
    BY <1>3, <1>4, RunOfUpdates
  <1>7. arrival' \in [Updates -> Nat] /\ \A i \in 1 .. m : batch[i] \in Arrived'
    <2>1. Cardinality(Arrived) \in Nat
      <3>1. IsFiniteSet(Updates)
        BY IntakeAssumption, FS_Interval DEF Updates
      <3>2. IsFiniteSet(Arrived)
        BY <3>1, FS_Subset DEF Arrived
      <3> QED BY <3>2, FS_CardinalityType
    <2>2. arrival' = [u \in Updates |-> IF u \in ToSet(batch) \ Arrived
                                        THEN 1 + Cardinality(Arrived) ELSE arrival[u]]
      BY <1>1 DEF Arrive
    <2>3. arrival' \in [Updates -> Nat]
      BY <2>1, <2>2 DEF Typing
    <2>4. \A u \in ToSet(batch) \cap Updates : arrival'[u] > 0
      BY <2>1, <2>2 DEF Typing, Arrived
    <2>5. \A i \in 1 .. m : batch[i] \in ToSet(batch) \cap Updates
      <3> SUFFICES ASSUME NEW i \in DOMAIN batch
                   PROVE  batch[i] \in ToSet(batch) \cap Updates
        BY <1>6
      <3>1. batch[i] \in Updates
        BY <1>6, ElementOfSeq, LenProperties
      <3> QED BY <3>1 DEF ToSet
    <2> QED BY <2>3, <2>4, <2>5 DEF Arrived
  <1>8. poll'.pc = "claim" /\ poll'.batch = batch /\ poll'.offset = poll.offset
    BY <1>1 DEF Typing
  <1>9. Typing'
    <2> HIDE DEF batch
    <2>1. poll' \in [pc : PollLabels, batch : Seq(Updates), offset : Nat]
      BY <1>1, <1>6 DEF Typing, PollLabels
    <2> QED BY <2>1, <1>2, <1>4, <1>7 DEF Typing
  <1>10. Passed'
    <2>1. Consecutive(poll.batch)'
      BY <1>6, <1>7, <1>8 DEF Consecutive
    <2>2. HandledBelow(Current)'
      BY <1>5, <1>6, <1>8 DEF HandledBelow, Current
    <2>3. HandledBelow(poll.offset)'
      BY <1>2, <1>8 DEF HandledBelow, Passed
    <2> QED BY <2>1, <2>2, <2>3, <1>2, <1>5, <1>8 DEF Passed
  <1>11. Paid'
    <2>1. poll.pc = "fetch" /\ poll'.pc = "claim"
      BY <1>1, <1>8
    <2> QED BY <2>1, <1>2 DEF Paid
  <1> QED BY <1>2, <1>9, <1>10, <1>11 DEF Quiet

(* What a claim's answer does to the loop.                                 *)
LEMMA OnClaimKeeps ==
    ASSUME Typing, Passed, poll.pc = "claim", NEW state \in States, OnClaim(state),
           state = "done" => handled[Current] > 0,
           handled' = handled, arrival' = arrival
    PROVE  /\ poll' \in [pc : PollLabels, batch : Seq(Updates), offset : Nat]
           /\ HandledBelow(poll.offset)'
           /\ poll'.pc # "fetch" => Consecutive(poll.batch)' /\ HandledBelow(Current)'
           /\ \/ state = "none" /\ poll'.pc = "handle" /\ poll'.batch = poll.batch
              \/ poll'.pc \in {"fetch", "claim"}
  <1>1. CASE state = "none"
    <2>1. poll' = [poll EXCEPT !.pc = "handle"]
      BY <1>1 DEF OnClaim, PollGoto
    <2>2. poll'.pc = "handle" /\ poll'.batch = poll.batch /\ poll'.offset = poll.offset
      BY <2>1 DEF Typing
    <2>3. poll' \in [pc : PollLabels, batch : Seq(Updates), offset : Nat]
      BY <2>1 DEF Typing, PollLabels
    <2>4. Consecutive(poll.batch)' /\ HandledBelow(Current)' /\ HandledBelow(poll.offset)'
      BY <2>2 DEF Passed, Consecutive, HandledBelow, Current, Arrived
    <2> QED BY <1>1, <2>2, <2>3, <2>4
  <1>2. CASE state = "done"
    <2>1. Advance
      BY <1>2 DEF OnClaim
    <2> QED BY <2>1, <1>2, AdvanceKeeps
  <1>3. CASE state = "inflight"
    <2>1. poll' = Fetching(poll.offset)
      BY <1>3 DEF OnClaim, Break
    <2>2. poll'.pc = "fetch" /\ poll'.offset = poll.offset
      BY <2>1 DEF Fetching
    <2>3. poll' \in [pc : PollLabels, batch : Seq(Updates), offset : Nat]
      BY <2>1 DEF Fetching, PollLabels, Typing
    <2> QED BY <2>2, <2>3 DEF HandledBelow, Passed
  <1> QED BY <1>1, <1>2, <1>3 DEF States

LEMMA PollClaimKeeps ==
    ASSUME PollInv, PollClaim
    PROVE  PollInv'
  <1> USE DEF PollInv
  <1> DEFINE u == Current
  <1>1. /\ poll.pc = "claim" /\ OnClaim(st[u])
        /\ st' = [st EXCEPT ![u] = IF @ = "none" THEN "inflight" ELSE @]
        /\ local' = [local EXCEPT ![u] = IF st[u] = "done" THEN "done" ELSE "inflight"]
    BY DEF PollClaim
  <1>2. UNCHANGED <<post, worker, lost, confirmed, handled, arrival, faults>>
    BY DEF PollClaim, hook, ghosts
  <1>3. u \in Updates
    BY <1>1, CurrentType
  <1>4. st[u] \in States /\ (st[u] = "done" => handled[u] > 0)
    BY <1>3 DEF Typing, Passed
  <1>5. /\ poll' \in [pc : PollLabels, batch : Seq(Updates), offset : Nat]
        /\ HandledBelow(poll.offset)'
        /\ poll'.pc # "fetch" => Consecutive(poll.batch)' /\ HandledBelow(Current)'
        /\ \/ st[u] = "none" /\ poll'.pc = "handle" /\ poll'.batch = poll.batch
           \/ poll'.pc \in {"fetch", "claim"}
    BY <1>1, <1>2, <1>4, OnClaimKeeps
  <1> HIDE DEF u
  <1>6. Typing'
    BY <1>1, <1>2, <1>3, <1>5 DEF Typing, States
  <1>7. \A v \in Updates : st'[v] = "done" <=> st[v] = "done"
    BY <1>1, <1>3 DEF Typing
  <1>8. \A v \in Updates : local'[v] = "done" => local[v] = "done" \/ st[v] = "done"
    BY <1>1, <1>3 DEF Typing
  <1>9. Passed'
    <2>1. \A v \in Updates : st'[v] = "done" \/ local'[v] = "done" => handled'[v] > 0
      BY <1>2, <1>7, <1>8 DEF Passed
    <2>2. HandledBelow(confirmed)'
      BY <1>2 DEF Passed, HandledBelow
    <2>3. poll'.pc # "complete"
      BY <1>5
    <2> QED BY <2>1, <2>2, <2>3, <1>5 DEF Passed
  <1>10. Paid'
    <2>1. \A v \in Updates : handled'[v] <= faults' \/ (handled'[v] = faults' + 1 /\ st'[v] = "done")
      <3> SUFFICES ASSUME NEW v \in Updates
                   PROVE  handled'[v] <= faults' \/ (handled'[v] = faults' + 1 /\ st'[v] = "done")
        OBVIOUS
      <3>1. handled[v] <= faults \/ (handled[v] = faults + 1 /\ st[v] = "done")
        BY <1>1 DEF Paid
      <3>2. st[v] = "done" => st'[v] = "done"
        BY <1>7
      <3>3. handled'[v] = handled[v] /\ faults' = faults
        BY <1>2
      <3> QED BY ONLY <3>1, <3>2, <3>3
    <2>2. ASSUME poll'.pc \in {"handle", "forget"} PROVE handled'[Current'] <= faults'
      <3>1. poll'.batch = poll.batch /\ st[u] = "none"
        BY <2>2, <1>5
      <3>2. Current' = u
        BY <3>1 DEF Current, u
      <3>3. handled[u] <= faults
        BY <3>1, <1>1, <1>3 DEF Paid
      <3> QED BY <3>2, <3>3, <1>2
    <2> QED BY <2>1, <2>2 DEF Paid
  <1> QED BY <1>2, <1>6, <1>9, <1>10 DEF Quiet

LEMMA PollClaimLocalKeeps ==
    ASSUME PollInv, PollClaimLocal
    PROVE  PollInv'
  <1> USE DEF PollInv
  <1> DEFINE u == Current
  <1>1. /\ poll.pc = "claim" /\ OnClaim(local[u]) /\ faults' = faults + 1
        /\ local' = [local EXCEPT ![u] = IF @ = "none" THEN "inflight" ELSE @]
    BY DEF PollClaimLocal, Fault
  <1>2. UNCHANGED <<st, post, worker, lost, confirmed, handled, arrival>>
    BY DEF PollClaimLocal, hook, ghosts, redis
  <1>3. u \in Updates
    BY <1>1, CurrentType
  <1>4. local[u] \in States /\ (local[u] = "done" => handled[u] > 0)
    BY <1>3 DEF Typing, Passed
  <1>5. /\ poll' \in [pc : PollLabels, batch : Seq(Updates), offset : Nat]
        /\ HandledBelow(poll.offset)'
        /\ poll'.pc # "fetch" => Consecutive(poll.batch)' /\ HandledBelow(Current)'
        /\ \/ poll'.pc = "handle" /\ poll'.batch = poll.batch
           \/ poll'.pc \in {"fetch", "claim"}
    BY <1>1, <1>2, <1>4, OnClaimKeeps
  <1> HIDE DEF u
  <1>6. Typing'
    BY <1>1, <1>2, <1>3, <1>5 DEF Typing, States
  <1>7. \A v \in Updates : local'[v] = "done" <=> local[v] = "done"
    BY <1>1, <1>3 DEF Typing
  <1>8. Passed'
    <2>1. \A v \in Updates : st'[v] = "done" \/ local'[v] = "done" => handled'[v] > 0
      BY <1>2, <1>7 DEF Passed
    <2>2. HandledBelow(confirmed)'
      BY <1>2 DEF Passed, HandledBelow
    <2>3. poll'.pc # "complete"
      BY <1>5
    <2> QED BY <2>1, <2>2, <2>3, <1>5 DEF Passed
  <1>9. Paid'
    <2>1. \A v \in Updates : handled'[v] <= faults'
      <3> SUFFICES ASSUME NEW v \in Updates PROVE handled'[v] <= faults'
        OBVIOUS
      <3>1. handled[v] <= faults \/ handled[v] = faults + 1
        BY DEF Paid
      <3>2. handled[v] \in Nat /\ faults \in Nat
        BY DEF Typing
      <3> QED BY <3>1, <3>2, <1>1, <1>2
    <2>2. poll'.pc # "fetch" => Current' \in Updates
      BY <1>6, <1>8, CurrentTypeNext
    <2> QED BY <2>1, <2>2, <1>5 DEF Paid
  <1> QED BY <1>2, <1>6, <1>8, <1>9 DEF Quiet

LEMMA PollHandleKeeps ==
    ASSUME PollInv, PollHandle
    PROVE  PollInv'
  <1> USE DEF PollInv
  <1>1. poll.pc = "handle" /\ Current \in Updates /\ handled[Current] <= faults
    BY CurrentType DEF PollHandle, Paid
  <1>2. UNCHANGED <<st, local, post, worker, lost, confirmed, arrival, faults>>
    BY DEF PollHandle, hook, redis
  <1>3. PICK next \in {"complete", "forget"} :
          /\ poll' = [poll EXCEPT !.pc = next]
          /\ handled' = IF next = "complete" THEN [handled EXCEPT ![Current] = @ + 1]
                        ELSE handled
    BY DEF PollHandle, PollGoto
  <1>4. poll'.pc = next /\ poll'.batch = poll.batch /\ poll'.offset = poll.offset
    BY <1>3 DEF Typing
  <1>5. Current' = Current
    BY <1>4 DEF Current
  <1>6. /\ handled' \in [Updates -> Nat]
        /\ \A v \in Updates : handled[v] > 0 => handled'[v] > 0
        /\ next = "complete" => handled'[Current] = handled[Current] + 1
        /\ next = "forget" => handled'[Current] = handled[Current]
        /\ \A v \in Updates : v # Current => handled'[v] = handled[v]
    BY <1>1, <1>3 DEF Typing
  <1>7. Typing'
    <2>1. poll' \in [pc : PollLabels, batch : Seq(Updates), offset : Nat]
      BY <1>3 DEF Typing, PollLabels
    <2> QED BY <2>1, <1>2, <1>6 DEF Typing
  <1>8. Passed'
    <2>1. HandledBelow(confirmed)' /\ HandledBelow(poll.offset)'
      BY <1>2, <1>4, <1>6 DEF Passed, HandledBelow
    <2>2. Consecutive(poll.batch)' /\ HandledBelow(Current)'
      BY <1>1, <1>2, <1>4, <1>5, <1>6 DEF Passed, Consecutive, HandledBelow, Arrived
    <2>3. poll'.pc = "complete" => handled'[Current'] > 0
      BY <1>1, <1>4, <1>5, <1>6 DEF Typing
    <2>4. \A v \in Updates : st'[v] = "done" \/ local'[v] = "done" => handled'[v] > 0
      BY <1>2, <1>6 DEF Passed
    <2> QED BY <2>1, <2>2, <2>3, <2>4 DEF Passed
  <1>9. Paid'
    <2>1. ASSUME NEW v \in Updates
          PROVE  \/ handled'[v] <= faults'
                 \/ handled'[v] = faults' + 1 /\ st'[v] = "done"
                 \/ handled'[v] = faults' + 1 /\ poll'.pc = "complete" /\ Current' = v
      <3>1. CASE v = Current
        BY <3>1, <1>1, <1>2, <1>4, <1>5, <1>6 DEF Typing
      <3>2. CASE v # Current
        <4>1. handled[v] <= faults \/ (handled[v] = faults + 1 /\ st[v] = "done")
          BY <3>2, <1>1 DEF Paid
        <4>2. handled'[v] = handled[v] /\ st' = st /\ faults' = faults
          BY <3>2, <1>2, <1>6
        <4> QED BY <4>1, <4>2
      <3> QED BY <3>1, <3>2
    <2>2. poll'.pc \in {"handle", "forget"} => handled'[Current'] <= faults'
      BY <1>1, <1>2, <1>4, <1>5, <1>6
    <2> QED BY <2>1, <2>2 DEF Paid
  <1> QED BY <1>2, <1>7, <1>8, <1>9 DEF Quiet

(* A key that is written or not, the latter with a fault.                  *)
LEMMA WriteStateKeeps ==
    ASSUME Typing, NEW u \in Updates, NEW state \in States, WriteState(u, state)
    PROVE  /\ st' \in [Updates -> States] /\ faults' \in Nat /\ faults <= faults'
           /\ \A v \in Updates : v # u => st'[v] = st[v]
           /\ \/ st'[u] = state
              \/ st' = st /\ faults' = faults + 1
  <1>1. CASE st' = [st EXCEPT ![u] = state] /\ UNCHANGED faults
    BY <1>1 DEF Typing
  <1>2. CASE Fault /\ UNCHANGED st
    BY <1>2 DEF Typing, Fault
  <1> QED BY <1>1, <1>2 DEF WriteState

LEMMA PollCompleteKeeps ==
    ASSUME PollInv, PollComplete
    PROVE  PollInv'
  <1> USE DEF PollInv
  <1> DEFINE u == Current
  <1>1. /\ poll.pc = "complete" /\ u \in Updates /\ handled[u] > 0
        /\ local' = [local EXCEPT ![u] = "done"]
        /\ WriteState(u, "done") /\ Advance
    BY CurrentType DEF PollComplete, Passed
  <1>2. UNCHANGED <<post, worker, lost, confirmed, handled, arrival>>
    BY DEF PollComplete, hook, ghosts
  <1>3. /\ st' \in [Updates -> States] /\ faults' \in Nat /\ faults <= faults'
        /\ \A v \in Updates : v # u => st'[v] = st[v]
        /\ st'[u] = "done" \/ (st' = st /\ faults' = faults + 1)
    <2>1. "done" \in States
      BY DEF States
    <2> QED BY <2>1, <1>1, WriteStateKeeps
  <1>4. /\ poll' \in [pc : PollLabels, batch : Seq(Updates), offset : Nat]
        /\ HandledBelow(poll.offset)'
        /\ poll'.pc # "fetch" => Consecutive(poll.batch)' /\ HandledBelow(Current)'
        /\ poll'.pc \in {"fetch", "claim"}
    BY <1>1, <1>2, AdvanceKeeps
  <1> HIDE DEF u
  <1>5. Typing'
    BY <1>1, <1>2, <1>3, <1>4 DEF Typing, States
  <1>6. Passed'
    <2>1. HandledBelow(confirmed)'
      BY <1>2 DEF Passed, HandledBelow
    <2>2. \A v \in Updates : st'[v] = "done" \/ local'[v] = "done" => handled'[v] > 0
      <3> SUFFICES ASSUME NEW v \in Updates, st'[v] = "done" \/ local'[v] = "done"
                   PROVE  handled[v] > 0
        BY <1>2
      <3>1. CASE v = u
        BY <3>1, <1>1
      <3>2. CASE v # u
        BY <3>2, <1>1, <1>3 DEF Passed, Typing
      <3> QED BY <3>1, <3>2
    <2> QED BY <2>1, <2>2, <1>4 DEF Passed
  <1>7. Paid'
    <2>1. ASSUME NEW v \in Updates
          PROVE  handled'[v] <= faults' \/ (handled'[v] = faults' + 1 /\ st'[v] = "done")
      <3>1. handled[v] <= faults + 1 /\ handled[v] \in Nat /\ faults \in Nat
        <4>1. handled[v] \in Nat /\ faults \in Nat
          BY DEF Typing
        <4> QED BY <4>1 DEF Paid
      <3>2. CASE v = u
        BY <3>1, <3>2, <1>2, <1>3
      <3>3. CASE v # u
        <4>1. handled[v] <= faults \/ (handled[v] = faults + 1 /\ st[v] = "done")
          BY <3>3 DEF Paid, u
        <4> QED BY <3>1, <3>3, <4>1, <1>2, <1>3
      <3> QED BY <3>2, <3>3
    <2> QED BY <2>1, <1>4 DEF Paid
  <1> QED BY <1>2, <1>5, <1>6, <1>7 DEF Quiet

LEMMA PollForgetKeeps ==
    ASSUME PollInv, PollForget
    PROVE  PollInv'
  <1> USE DEF PollInv
  <1> DEFINE u == Current
  <1>1. /\ poll.pc = "forget" /\ u \in Updates /\ handled[u] <= faults
        /\ local' = [local EXCEPT ![u] = "none"]
        /\ WriteState(u, "none") /\ poll' = Fetching(poll.offset)
    BY CurrentType DEF PollForget, Paid, Break
  <1>2. UNCHANGED <<post, worker, lost, confirmed, handled, arrival>>
    BY DEF PollForget, hook, ghosts
  <1>3. /\ st' \in [Updates -> States] /\ faults' \in Nat /\ faults <= faults'
        /\ \A v \in Updates : v # u => st'[v] = st[v]
        /\ st'[u] = "none" \/ (st' = st /\ faults' = faults + 1)
    <2>1. "none" \in States
      BY DEF States
    <2> QED BY <2>1, <1>1, WriteStateKeeps
  <1>4. /\ poll' \in [pc : PollLabels, batch : Seq(Updates), offset : Nat]
        /\ poll'.pc = "fetch" /\ poll'.offset = poll.offset
    BY <1>1 DEF Fetching, PollLabels, Typing
  <1> HIDE DEF u
  <1>5. Typing'
    BY <1>1, <1>2, <1>3, <1>4 DEF Typing, States
  <1>6. Passed'
    <2>1. HandledBelow(confirmed)' /\ HandledBelow(poll.offset)'
      BY <1>2, <1>4 DEF Passed, HandledBelow
    <2>2. \A v \in Updates : st'[v] = "done" \/ local'[v] = "done" => handled'[v] > 0
      <3> SUFFICES ASSUME NEW v \in Updates, st'[v] = "done" \/ local'[v] = "done"
                   PROVE  st[v] = "done" \/ local[v] = "done"
        BY <1>2 DEF Passed
      <3>1. CASE v = u
        BY <3>1, <1>1, <1>3 DEF Typing
      <3>2. CASE v # u
        BY <3>2, <1>1, <1>3 DEF Typing
      <3> QED BY <3>1, <3>2
    <2> QED BY <2>1, <2>2, <1>4 DEF Passed
  <1>7. Paid'
    <2>1. ASSUME NEW v \in Updates
          PROVE  handled'[v] <= faults' \/ (handled'[v] = faults' + 1 /\ st'[v] = "done")
      <3>1. handled[v] \in Nat /\ faults \in Nat
        BY DEF Typing
      <3>2. CASE v = u
        BY <3>1, <3>2, <1>1, <1>2, <1>3
      <3>3. CASE v # u
        <4>1. handled[v] <= faults \/ (handled[v] = faults + 1 /\ st[v] = "done")
          BY <1>1 DEF Paid
        <4> QED BY <3>1, <3>3, <4>1, <1>2, <1>3
      <3> QED BY <3>2, <3>3
    <2> QED BY <2>1, <1>4 DEF Paid
  <1> QED BY <1>2, <1>5, <1>6, <1>7 DEF Quiet

(* A key runs out, with or without a fault: neither is one that says done  *)
(* of an update that was handled more often than there are faults.         *)
LEMMA KeyRunsOutKeeps ==
    ASSUME PollInv, NEW u \in Updates, Expire(u) \/ ClaimLapses(u)
    PROVE  PollInv'
  <1> USE DEF PollInv
  <1>1. /\ \/ UNCHANGED <<st, local>>
           \/ /\ st' = [st EXCEPT ![u] = "none"]
              /\ local' = [local EXCEPT ![u] = "none"]
        /\ UNCHANGED <<post, worker, lost, confirmed, handled, arrival, poll>>
        /\ \/ faults' = faults + 1
           \/ faults' = faults /\ st[u] = "inflight"
    BY DEF Expire, ClaimLapses, hook, ghosts, Fault
  <1>2. Typing'
    <2>1. st' \in [Updates -> States] /\ local' \in [Updates -> States]
      BY <1>1 DEF Typing, States
    <2>2. faults' \in Nat
      BY <1>1 DEF Typing
    <2> QED BY <2>1, <2>2, <1>1 DEF Typing
  <1>3. Passed'
    <2>1. \A v \in Updates : st'[v] = "done" \/ local'[v] = "done" => handled'[v] > 0
      BY <1>1 DEF Typing, Passed
    <2>2. HandledBelow(confirmed)' /\ HandledBelow(poll.offset)'
      BY <1>1 DEF Passed, HandledBelow
    <2>3. Current' = Current /\ (Consecutive(poll.batch) => Consecutive(poll.batch)')
      BY <1>1 DEF Current, Consecutive, Arrived
    <2>4. HandledBelow(Current) => HandledBelow(Current)'
      BY <1>1, <2>3 DEF HandledBelow
    <2>5. poll'.pc = "complete" => handled'[Current'] > 0
      BY <1>1, <2>3 DEF Passed
    <2> QED BY <2>1, <2>2, <2>3, <2>4, <2>5, <1>1 DEF Passed
  <1>4. Paid'
    <2>0. Current' = Current /\ poll' = poll /\ handled' = handled
      BY <1>1 DEF Current
    <2>1. ASSUME NEW v \in Updates
          PROVE  \/ handled'[v] <= faults'
                 \/ handled'[v] = faults' + 1 /\ st'[v] = "done"
                 \/ handled'[v] = faults' + 1 /\ poll'.pc = "complete" /\ Current' = v
      <3>1. handled[v] \in Nat /\ faults \in Nat
        BY DEF Typing
      <3>2. handled[v] <= faults + 1
        BY <3>1 DEF Paid
      <3>3. CASE faults' = faults + 1
        BY <3>1, <3>2, <3>3, <2>0
      <3>4. CASE faults' = faults /\ st[u] = "inflight"
        <4>1. st[v] = "done" => st'[v] = "done"
          BY <3>4, <1>1 DEF Typing
        <4> QED BY <3>4, <4>1, <2>0 DEF Paid
      <3> QED BY <3>3, <3>4, <1>1
    <2>2. poll'.pc \in {"handle", "forget"} => handled'[Current'] <= faults'
      <3>1. SUFFICES ASSUME poll.pc \in {"handle", "forget"} PROVE handled[Current] <= faults'
        BY <2>0
      <3>2. Current \in Updates /\ handled[Current] <= faults
        BY <3>1, CurrentType DEF Paid
      <3>3. handled[Current] \in Nat /\ faults \in Nat
        BY <3>2 DEF Typing
      <3> QED BY <3>2, <3>3, <1>1
    <2> QED BY <2>1, <2>2 DEF Paid
  <1> QED BY <1>1, <1>2, <1>3, <1>4 DEF Quiet

LEMMA CrashKeeps ==
    ASSUME PollInv, Crash
    PROVE  PollInv'
  <1> USE DEF PollInv
  <1>1. /\ faults' = faults + 1 /\ poll' = Fetching(0)
        /\ local' = [u \in Updates |-> "none"]
        /\ UNCHANGED <<st, confirmed, handled, arrival>>
    BY DEF Crash, Fault, redis
  <1>2. Quiet'
    <2>1. post' = [p \in Posts |-> "unsent"]
      <3>1. \A p \in Posts : ~Open(p) /\ post[p] = "unsent"
        BY DEF Quiet, Open
      <3>2. post' = [p \in Posts |-> IF Open(p) THEN "closed" ELSE post[p]]
        BY DEF Crash
      <3> QED BY <3>1, <3>2
    <2>2. worker' = [s \in Shards |-> Booting]
      BY DEF Crash
    <2>3. \A s \in Shards : Pc(s) = "boot"
      BY DEF Quiet, Pc, Booting, Idle
    <2>4. {worker[s].u : s \in {t \in Shards : Pc(t) \in {"push", "forget"}}} = {}
      BY <2>3
    <2>5. lost' = {}
      BY <2>4 DEF Crash, Drop, Quiet
    <2> QED BY <2>1, <2>2, <2>5 DEF Quiet
  <1>3. /\ poll' \in [pc : PollLabels, batch : Seq(Updates), offset : Nat]
        /\ poll'.pc = "fetch" /\ poll'.offset = 0
    BY <1>1 DEF Fetching, PollLabels
  <1>4. Typing'
    BY <1>1, <1>3 DEF Typing, States
  <1>5. Passed'
    <2>1. HandledBelow(confirmed)'
      BY <1>1 DEF Passed, HandledBelow
    <2>2. HandledBelow(poll.offset)'
      BY <1>3, IntakeAssumption DEF HandledBelow, Updates
    <2> QED BY <2>1, <2>2, <1>1, <1>3 DEF Passed
  <1>6. Paid'
    <2>1. ASSUME NEW v \in Updates PROVE handled'[v] <= faults'
      <3>1. handled[v] \in Nat /\ faults \in Nat
        BY DEF Typing
      <3>2. handled[v] <= faults + 1
        BY <3>1 DEF Paid
      <3> QED BY <3>1, <3>2, <1>1
    <2> QED BY <2>1, <1>3 DEF Paid
  <1> QED BY <1>2, <1>4, <1>5, <1>6

LEMMA PollStepKeeps == Polling /\ PollInv /\ [Next]_vars => PollInv'
  <1> SUFFICES ASSUME Polling, PollInv, [Next]_vars PROVE PollInv'
    OBVIOUS
  <1>1. CASE UNCHANGED vars
    <2>1. UNCHANGED <<st, local, poll, confirmed, handled, arrival, faults, post, worker, lost>>
      BY <1>1 DEF vars, redis, hook, polling, ghosts
    <2>2. Typing' /\ Quiet'
      BY <2>1 DEF PollInv, Typing, Quiet
    <2>3. Passed'
      BY <2>1 DEF PollInv, Passed, HandledBelow, Consecutive, Current, Arrived
    <2>4. Paid'
      BY <2>1 DEF PollInv, Paid, Current
    <2> QED BY <2>2, <2>3, <2>4 DEF PollInv
  <1>2. Quiet
    BY DEF PollInv
  <1> QED BY <1>1, <1>2, PollingSteps, GetUpdatesKeeps, PollClaimKeeps, PollClaimLocalKeeps,
             PollHandleKeeps, PollCompleteKeeps, PollForgetKeeps, KeyRunsOutKeeps, CrashKeeps

(* The transport is chosen once, so that the invariant of polling holds    *)
(* whenever polling runs.                                                  *)
PollingInv == Polling => PollInv

LEMMA PollingInvHolds == Spec => []PollingInv
  <1>1. Init => PollingInv
    BY PollInit DEF PollingInv
  <1>2. PollingInv /\ [Next]_vars => PollingInv'
    BY PollStepKeeps, TransportStays DEF PollingInv, Polling
  <1> QED BY <1>1, <1>2, PTL DEF Spec

(* Telegram is never told to forget an update that was not handled,        *)
(* whatever crashed, failed or expired.                                    *)
THEOREM ConfirmedOnlyHandled == Spec => []ConfirmedWasHandled
  <1>1. PollingInv => ConfirmedWasHandled
    BY DEF PollingInv, Polling, PollInv, Passed, HandledBelow, ConfirmedWasHandled
  <1> QED BY <1>1, PollingInvHolds, PTL

---------------------------------------------------------------------------
(* The order.                                                              *)

(* Only the handler's return counts a handling, for the update the loop is *)
(* at, and what is before it in the batch or was confirmed is handled.     *)
LEMMA HandlesInOrder ==
    ASSUME Polling, PollInv, [Next]_vars, NEW u \in Updates, NEW v \in Updates,
           u < v, handled[v] = 0, handled'[v] = 1
    PROVE  handled[u] > 0
  <1>1. CASE PollHandle
    <2>1. Current \in Updates /\ HandledBelow(Current)
      BY <1>1, CurrentType DEF PollInv, Passed, PollHandle
    <2>2. v = Current
      BY <1>1, <2>1 DEF PollHandle, PollInv, Typing
    <2> QED BY <2>1, <2>2 DEF HandledBelow
  <1>2. CASE handled' = handled
    BY <1>2
  <1>3. Quiet
    BY DEF PollInv
  <1>4. \/ \E m \in Updates : GetUpdates(m)
        \/ PollClaim \/ PollClaimLocal \/ PollComplete \/ PollForget
        \/ \E w \in Updates : Expire(w) \/ ClaimLapses(w)
        \/ Crash \/ UNCHANGED vars
        => handled' = handled
    BY DEF GetUpdates, PollClaim, PollClaimLocal, PollComplete, PollForget, Expire,
           ClaimLapses, Crash, vars, ghosts
  <1> QED BY <1>1, <1>2, <1>3, <1>4, PollingSteps

(* With polling, updates are handled in the order of their numbers: none   *)
(* is handled for the first time while an earlier one is unhandled.        *)
THEOREM PollingInOrder == Spec /\ Polling => HandledInOrder
  <1> DEFINE Ordered ==
        \A u, v \in Updates :
            (Before(u, v) /\ handled[v] = 0 /\ handled'[v] = 1) =>
                \/ handled[u] > 0 \/ u \in lost
                \/ /\ transport = "webhook"
                   /\ u \notin ToSet(inbox[shard[u]]) \/ u \in left \union astray
  <1>1. Polling /\ PollingInv /\ [Next]_vars => [Ordered]_vars
    BY HandlesInOrder DEF PollingInv, Polling, Before
  <1>2. Polling /\ [Next]_vars => Polling'
    BY TransportStays DEF Polling
  <1>3. [][Ordered]_vars => HandledInOrder
    BY DEF HandledInOrder
  <1> HIDE DEF Ordered
  <1> QED BY <1>1, <1>2, <1>3, PollingInvHolds, PTL DEF Spec

---------------------------------------------------------------------------
(* The refinement.                                                         *)

Owed == {u \in Arrived : handled[u] = 0 /\ u \notin lost}

LEMMA AbstractInit == Init => Abstract!Init
  <1> SUFFICES ASSUME Init PROVE Abstract!Init
    OBVIOUS
  <1>1. Arrived = {}
    BY DEF Init, Arrived
  <1> QED BY <1>1 DEF Init, Abstract!Init

(* A batch is taken: what is owed more than before was never served.       *)
LEMMA GetUpdatesTakes ==
    ASSUME PollInv, NEW m \in Updates, GetUpdates(m)
    PROVE  Abstract!Next
  <1>1. UNCHANGED <<handled, lost, faults>>
    BY DEF GetUpdates
  <1>2. lost = {}
    BY DEF PollInv, Quiet
  <1>3. Arrived \subseteq Arrived'
    <2>1. Arrive(ToSet([i \in 1 .. m |-> confirmed' + i - 1]))
      BY DEF GetUpdates
    <2>2. \A u \in Arrived : arrival'[u] = arrival[u]
      BY <2>1 DEF Arrive, Arrived
    <2> QED BY <2>2 DEF Arrived
  <1>4. Owed' = Owed \union Owed' /\ \A u \in Owed' : handled[u] = 0 /\ u \notin lost
    BY <1>1, <1>3 DEF Owed
  <1>5. Owed' \in SUBSET Updates
    BY DEF Owed, Arrived
  <1>6. Abstract!Take(Owed')
    BY <1>1, <1>4 DEF Abstract!Take, Owed
  <1>7. \E S \in SUBSET Updates : Abstract!Take(S)
    BY <1>5, <1>6 DEF Abstract!Take
  <1> QED BY <1>7 DEF Abstract!Next

(* An update is served, or served again at the price of a fault.           *)
LEMMA PollHandleServes ==
    ASSUME PollInv, PollHandle
    PROVE  Abstract!Next \/ UNCHANGED Abstract!vars
  <1> DEFINE u == Current
  <1>1. u \in Updates /\ u \in Arrived /\ handled[u] <= faults
    BY CurrentType DEF PollInv, PollHandle, Paid
  <1>2. UNCHANGED <<arrival, lost, faults>> /\ lost = {}
    BY DEF PollHandle, PollInv, Quiet
  <1>3. Arrived' = Arrived
    BY <1>2 DEF Arrived
  <1>4. handled' = [handled EXCEPT ![u] = @ + 1] \/ handled' = handled
    BY DEF PollHandle
  <1>5. handled \in [Updates -> Nat]
    BY DEF PollInv, Typing
  <1> HIDE DEF u
  <1>6. CASE handled' = handled
    BY <1>6, <1>2, <1>3 DEF Abstract!vars
  <1>7. CASE handled' = [handled EXCEPT ![u] = @ + 1] /\ handled[u] = 0
    <2>1. handled' = [handled EXCEPT ![u] = 1]
      BY <1>7
    <2>2. u \in Owed /\ Owed' = Owed \ {u}
      BY <1>1, <1>2, <1>3, <1>5, <1>7 DEF Owed
    <2>3. Abstract!Serve(u)
      BY <2>1, <2>2, <1>2 DEF Abstract!Serve, Owed
    <2>4. \E i \in Updates : Abstract!Serve(i)
      BY <2>3, <1>1 DEF Abstract!Serve
    <2> QED BY <2>4 DEF Abstract!Next
  <1>8. CASE handled' = [handled EXCEPT ![u] = @ + 1] /\ handled[u] # 0
    <2>1. handled[u] > 0
      BY <1>1, <1>5, <1>8
    <2>2. Owed' = Owed
      BY <1>1, <1>2, <1>3, <1>5, <1>8 DEF Owed
    <2>3. Abstract!ServeAgain(u)
      BY <2>1, <2>2, <1>1, <1>2, <1>8 DEF Abstract!ServeAgain, Owed
    <2> QED BY <2>3, <1>1 DEF Abstract!Next
  <1> QED BY <1>4, <1>6, <1>7, <1>8

(* Every other step is a fault that loses nothing, or changes nothing that *)
(* the abstract intake sees.                                               *)
LEMMA OtherStepsTrouble ==
    ASSUME UNCHANGED <<arrival, handled, lost>>,
           faults' = faults + 1 \/ faults' = faults
    PROVE  Abstract!Next \/ UNCHANGED Abstract!vars
  <1>1. Owed' = Owed
    BY DEF Owed, Arrived
  <1>2. CASE faults' = faults
    BY <1>1, <1>2 DEF Abstract!vars, Owed
  <1>3. CASE faults' = faults + 1
    <2>1. Abstract!Lose({})
      BY <1>1 DEF Abstract!Lose, Owed
    <2>2. Abstract!Trouble
      BY <1>3, <2>1 DEF Abstract!Trouble
    <2> QED BY <2>2 DEF Abstract!Next
  <1> QED BY <1>2, <1>3

LEMMA AbstractStep ==
    ASSUME Polling, PollInv, [Next]_vars
    PROVE  [Abstract!Next]_(Abstract!vars)
  <1>1. CASE \E m \in Updates : GetUpdates(m)
    BY <1>1, GetUpdatesTakes
  <1>2. CASE PollHandle
    BY <1>2, PollHandleServes
  <1>3. CASE \/ PollClaim \/ PollClaimLocal \/ PollComplete \/ PollForget
             \/ \E u \in Updates : Expire(u) \/ ClaimLapses(u)
             \/ UNCHANGED vars
    <2>1. UNCHANGED <<arrival, handled, lost>>
      BY <1>3 DEF PollClaim, PollClaimLocal, PollComplete, PollForget, Expire, ClaimLapses,
                  vars, ghosts
    <2>2. faults' = faults + 1 \/ faults' = faults
      BY <1>3 DEF PollClaim, PollClaimLocal, PollComplete, PollForget, Expire, ClaimLapses,
                  vars, WriteState, Fault
    <2> QED BY <2>1, <2>2, OtherStepsTrouble
  <1>4. CASE Crash
    <2>1. lost' = {} /\ lost = {}
      BY <1>4, CrashKeeps DEF PollInv, Quiet
    <2>2. UNCHANGED <<arrival, handled>> /\ faults' = faults + 1
      BY <1>4 DEF Crash, Fault
    <2> QED BY <2>1, <2>2, OtherStepsTrouble
  <1>5. Quiet
    BY DEF PollInv
  <1> QED BY <1>1, <1>2, <1>3, <1>4, <1>5, PollingSteps

(* Polling implements the abstract at-least-once intake: every update that *)
(* has arrived is owed until it is handled, none is lost, and each extra   *)
(* handling has a crash, a failed command or an expired key of its own.    *)
THEOREM PollingIsAtLeastOnce == Spec /\ Polling => ImplementsAtLeastOnce
  <1>1. Init => Abstract!Init
    BY AbstractInit
  <1>2. Polling /\ PollingInv /\ [Next]_vars => [Abstract!Next]_(Abstract!vars)
    BY AbstractStep DEF PollingInv
  <1>3. Polling /\ [Next]_vars => Polling'
    BY TransportStays DEF Polling
  <1> QED BY <1>1, <1>2, <1>3, PollingInvHolds, PTL
          DEF Spec, ImplementsAtLeastOnce, Abstract!Spec
=============================================================================
