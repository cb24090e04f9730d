------------------------- MODULE ReliableQueueProofs -------------------------
(***************************************************************************)
(* What holds of the Redis queues of ai-service whatever the number of     *)
(* replicas, messages, retries, claims and faults: their types, that a     *)
(* fresh claim keeps its payload, and that no message is lost.             *)
(***************************************************************************)
EXTENDS ReliableQueue, TLAPS

(***************************************************************************)
(* Bags of payloads: what is in them after an operation.  How often it is  *)
(* in them is not needed below.                                            *)
(***************************************************************************)
BagsOver(S) == UNION {[T -> {n \in Nat : n > 0}] : T \in SUBSET S}

LEMMA BagsOverIs ==
    ASSUME NEW S, NEW B
    PROVE  B \in BagsOver(S) <=> IsABag(B) /\ DOMAIN B \subseteq S
  <1>1. ASSUME B \in BagsOver(S) PROVE IsABag(B) /\ DOMAIN B \subseteq S
    BY <1>1 DEF BagsOver, IsABag
  <1>2. ASSUME IsABag(B), DOMAIN B \subseteq S PROVE B \in BagsOver(S)
    BY <1>2 DEF BagsOver, IsABag
  <1> QED BY <1>1, <1>2

LEMMA EmptyBagIs ==
    /\ DOMAIN EmptyBag = {}
    /\ \A S : EmptyBag \in BagsOver(S)
  <1>1. DOMAIN EmptyBag = {} /\ IsABag(EmptyBag)
    BY DEF EmptyBag, SetToBag, IsABag
  <1> QED BY <1>1, BagsOverIs

\* Only the empty bag has nothing in it.
LEMMA NothingInEmpty ==
    ASSUME NEW S, NEW B \in BagsOver(S), DOMAIN B = {}
    PROVE  B = EmptyBag
  BY DEF BagsOver, EmptyBag, SetToBag

LEMMA BagAddIs ==
    ASSUME NEW S, NEW B \in BagsOver(S), NEW x \in S
    PROVE  BagAdd(B, x) \in BagsOver(S) /\ DOMAIN BagAdd(B, x) = DOMAIN B \cup {x}
  <1>1. IsABag(B) /\ DOMAIN B \subseteq S
    BY BagsOverIs
  <1>2. IsABag(BagAdd(B, x)) /\ DOMAIN BagAdd(B, x) = DOMAIN B \cup {x}
    BY <1>1 DEF BagAdd, IsABag
  <1> QED BY <1>1, <1>2, BagsOverIs

LEMMA BagRemoveIs ==
    ASSUME NEW S, NEW B \in BagsOver(S), NEW x
    PROVE  /\ BagRemove(B, x) \in BagsOver(S)
           /\ DOMAIN BagRemove(B, x) \subseteq DOMAIN B
           /\ DOMAIN B \subseteq DOMAIN BagRemove(B, x) \cup {x}
  <1>1. IsABag(B) /\ DOMAIN B \subseteq S
    BY BagsOverIs
  <1>2. /\ IsABag(BagRemove(B, x))
        /\ DOMAIN BagRemove(B, x) \subseteq DOMAIN B
        /\ DOMAIN B \subseteq DOMAIN BagRemove(B, x) \cup {x}
    BY <1>1 DEF BagRemove, IsABag
  <1> QED BY <1>1, <1>2, BagsOverIs

LEMMA BagUnionIs ==
    ASSUME NEW S, NEW B \in BagsOver(S), NEW T \in SUBSET S, NEW U, U = B (+) SetToBag(T)
    PROVE  U \in BagsOver(S) /\ DOMAIN U = DOMAIN B \cup T
  <1>1. IsABag(B) /\ DOMAIN B \subseteq S
    BY BagsOverIs
  <1>2. IsABag(U) /\ DOMAIN U = DOMAIN B \cup T
    BY <1>1 DEF SetToBag, IsABag, (+)
  <1> QED BY <1>1, <1>2, BagsOverIs

LEMMA BagFilterIs ==
    ASSUME NEW S, NEW B \in BagsOver(S), NEW T \in SUBSET DOMAIN B
    PROVE  [r \in T |-> B[r]] \in BagsOver(S) /\ DOMAIN [r \in T |-> B[r]] = T
  <1>1. IsABag(B) /\ DOMAIN B \subseteq S
    BY BagsOverIs
  <1>2. IsABag([r \in T |-> B[r]])
    BY <1>1 DEF IsABag
  <1> QED BY <1>1, <1>2, BagsOverIs

LEMMA BagsOverGrow ==
    ASSUME NEW S, NEW T, S \subseteq T
    PROVE  BagsOver(S) \subseteq BagsOver(T)
  BY BagsOverIs

---------------------------------------------------------------------------
(***************************************************************************)
(* The inductive typing.  Seen are the payloads there can be outside the   *)
(* DLQ: of a message that was published, within the retries, with a claim  *)
(* that has been stamped.                                                  *)
(***************************************************************************)
Seen == {r \in Payload : r.msg \in published /\ r.tries <= MaxNacks /\ r.claim <= clock}

Holding == {"popped", "got", "run", "ok", "failed"}

WorkerOver(S) ==
    [pc : Holding \cup {"down", "reclaim", "idle", "exit", "gone"},
     hand : SUBSET S, inflight : SUBSET S, covers : SUBSET Messages,
     stopping : BOOLEAN, forced : BOOLEAN, items : BagsOver(S), leaving : BagsOver(S)]

\* A worker has a payload in hand from pop to settlement, and is giving
\* payloads back only when it leaves or is forced to.
Sound(p) ==
    /\ p.hand # {} => p.pc \in Holding
    /\ p.pc \in Holding => \E r \in p.hand : p.hand = {r}
    /\ p.leaving # EmptyBag => p.pc = "gone" \/ p.forced

Worker(S) == {p \in WorkerOver(S) : Sound(p)}

TypeInv ==
    /\ queue \in BagsOver(Seen) /\ processing \in BagsOver(Seen)
    /\ dlq \in BagsOver(Payload)
    /\ published \in SUBSET Messages /\ handled \in SUBSET Messages
    /\ clock \in 0 .. MaxClaims /\ aged \in 0 .. clock /\ faults \in 0 .. MaxFaults
    /\ proc \in [Workers -> Worker(Seen)]

LEMMA DownType == \A S : Down \in Worker(S)
  BY EmptyBagIs DEF Down, Worker, WorkerOver, Sound, Holding

LEMMA WorkerGrow ==
    ASSUME NEW S, NEW T, S \subseteq T
    PROVE  Worker(S) \subseteq Worker(T)
  BY BagsOverGrow DEF Worker, WorkerOver

LEMMA BecomesIs ==
    ASSUME NEW S, proc \in [Workers -> Worker(S)], NEW w \in Workers, NEW p \in Worker(S),
           Becomes(w, p)
    PROVE  /\ proc' \in [Workers -> Worker(S)]
           /\ proc'[w] = p
           /\ \A v \in Workers \ {w} : proc'[v] = proc[v]
  BY DEF Becomes

\* A fault is counted within its bound.
LEMMA OccursType ==
    ASSUME TypeInv, NEW kind, Occurs(kind)
    PROVE  faults' \in 0 .. MaxFaults
  BY ConstantsAssumption DEF TypeInv, Occurs

\* The block that gives r back takes at most one r out of the processing
\* list and puts its message in the queue or the DLQ.
LEMMA GiveBackIs ==
    ASSUME TypeInv, NEW r \in Seen, GiveBack(r)
    PROVE  /\ queue' \in BagsOver(Seen) /\ processing' \in BagsOver(Seen)
           /\ dlq' \in BagsOver(Payload)
           /\ DOMAIN processing' \subseteq DOMAIN processing
           /\ DOMAIN processing \subseteq DOMAIN processing' \cup {r}
           /\ DOMAIN queue \subseteq DOMAIN queue' /\ DOMAIN dlq \subseteq DOMAIN dlq'
           /\ \A x \in DOMAIN queue' : x \in DOMAIN queue \/ x.claim = r.claim
           /\ Holds(queue', r.msg) \/ Holds(dlq', r.msg)
  <1> DEFINE out == [r EXCEPT !.tries = @ + 1]
  <1>1. /\ r \in Payload /\ r.tries <= MaxNacks
        /\ r.msg \in published /\ r.claim <= clock
    BY DEF Seen
  <1>2. /\ out \in Payload /\ out.msg = r.msg /\ out.claim = r.claim
        /\ out.tries = r.tries + 1
    BY <1>1, ConstantsAssumption DEF Payload
  <1>3. /\ queue' = IF out.tries > MaxNacks THEN queue ELSE BagAdd(queue, out)
        /\ dlq' = IF out.tries > MaxNacks THEN BagAdd(dlq, out) ELSE dlq
    BY DEF GiveBack
  <1> HIDE DEF out
  <1>4. processing' = BagRemove(processing, r)
    BY DEF GiveBack
  <1>5. /\ processing' \in BagsOver(Seen)
        /\ DOMAIN processing' \subseteq DOMAIN processing
        /\ DOMAIN processing \subseteq DOMAIN processing' \cup {r}
    BY <1>4, BagRemoveIs DEF TypeInv
  <1>6. CASE out.tries > MaxNacks
    <2>1. dlq' = BagAdd(dlq, out) /\ queue' = queue
      BY <1>3, <1>6
    <2>2. dlq \in BagsOver(Payload) /\ out \in Payload
      BY <1>2 DEF TypeInv
    <2>3. dlq' \in BagsOver(Payload) /\ DOMAIN dlq' = DOMAIN dlq \cup {out}
      BY <2>1, <2>2, BagAddIs
    <2> QED BY <1>2, <1>5, <2>1, <2>3 DEF TypeInv, Holds
  <1>7. CASE ~(out.tries > MaxNacks)
    <2>1. queue' = BagAdd(queue, out) /\ dlq' = dlq
      BY <1>3, <1>7
    <2>2. out.tries \in Int /\ MaxNacks \in Int
      BY <1>2, ConstantsAssumption DEF Payload
    <2>3. out \in Seen
      BY <1>1, <1>2, <1>7, <2>2, out.tries <= MaxNacks DEF Seen
    <2>4. queue' \in BagsOver(Seen) /\ DOMAIN queue' = DOMAIN queue \cup {out}
      BY <2>1, <2>3, BagAddIs DEF TypeInv
    <2> QED BY <1>2, <1>5, <2>1, <2>4 DEF TypeInv, Holds
  <1> QED BY <1>6, <1>7

\* What is given back was in flight.
LEMMA PeekedIs == \A w \in Workers : Peeked(w) \subseteq proc[w].inflight
  BY DEF Peeked

LEMMA SettledIs ==
    ASSUME NEW S, proc \in [Workers -> Worker(S)], NEW w \in Workers,
           proc[w].pc \in Holding, NEW I \in SUBSET proc[w].inflight, Settled(w, I)
    PROVE  /\ proc' \in [Workers -> Worker(S)]
           /\ \A v \in Workers \ {w} : proc'[v] = proc[v]
           /\ proc'[w].pc \in {"exit", "idle"}
           /\ proc'[w].hand = {} /\ proc'[w].inflight = I
           /\ proc'[w].items = proc[w].items /\ proc'[w].leaving = proc[w].leaving
  <1> DEFINE p == [proc[w] EXCEPT !.pc = IF @ = "got" THEN "exit" ELSE "idle",
                                  !.inflight = I, !.hand = {}, !.covers = {}]
  <1>1. proc[w] \in WorkerOver(S) /\ Sound(proc[w])
    BY DEF Worker
  <1>2. p \in WorkerOver(S)
    BY <1>1 DEF WorkerOver
  <1>3. /\ p.pc \in {"exit", "idle"} /\ p.hand = {} /\ p.inflight = I
        /\ p.items = proc[w].items /\ p.leaving = proc[w].leaving
        /\ p.forced = proc[w].forced
    BY <1>1 DEF WorkerOver
  <1>4. Sound(p)
    BY <1>1, <1>3 DEF Sound, Holding
  <1>5. p \in Worker(S)
    BY <1>2, <1>4 DEF Worker
  <1>6. Becomes(w, p)
    BY DEF Settled
  <1> HIDE DEF p
  <1> QED BY <1>3, <1>5, <1>6, BecomesIs

LEMMA TypeInvInit == Init => TypeInv
  BY EmptyBagIs, DownType, ConstantsAssumption DEF Init, TypeInv

LEMMA TypeInvImplies == TypeInv => TypeOK
  <1> SUFFICES ASSUME TypeInv PROVE TypeOK
    OBVIOUS
  <1>1. Seen \subseteq Payload
    BY DEF Seen
  <1>2. PayloadBag(queue) /\ PayloadBag(processing) /\ PayloadBag(dlq)
    BY <1>1, BagsOverIs DEF TypeInv, PayloadBag
  <1>3. \A r \in DOMAIN queue : r.tries <= MaxNacks
    BY BagsOverIs DEF TypeInv, Seen
  <1>4. ASSUME NEW w \in Workers
        PROVE  /\ [pc |-> proc[w].pc, hand |-> proc[w].hand,
                   inflight |-> proc[w].inflight, covers |-> proc[w].covers,
                   stopping |-> proc[w].stopping, forced |-> proc[w].forced] \in Proc
               /\ PayloadBag(proc[w].items) /\ PayloadBag(proc[w].leaving)
    <2>1. proc[w] \in WorkerOver(Seen)
      BY DEF TypeInv, Worker
    <2>2. /\ proc[w].pc \in Holding \cup {"down", "reclaim", "idle", "exit", "gone"}
          /\ proc[w].hand \in SUBSET Payload /\ proc[w].inflight \in SUBSET Payload
          /\ proc[w].covers \in SUBSET Messages
          /\ proc[w].stopping \in BOOLEAN /\ proc[w].forced \in BOOLEAN
      BY <1>1, <2>1 DEF WorkerOver
    <2>3. PayloadBag(proc[w].items) /\ PayloadBag(proc[w].leaving)
      BY <1>1, <2>1, BagsOverIs DEF WorkerOver, PayloadBag
    <2> QED BY <2>2, <2>3 DEF Proc, Holding
  <1> QED BY <1>2, <1>3, <1>4 DEF TypeInv, TypeOK

---------------------------------------------------------------------------
(***************************************************************************)
(* Each step keeps the types.                                              *)
(***************************************************************************)
LEMMA PublishType ==
    ASSUME TypeInv, NEW m \in Messages, Publish(m)
    PROVE  TypeInv'
  <1> DEFINE new == [msg |-> m, tries |-> 0, claim |-> 0]
  <1>1. Seen \subseteq Seen' /\ new \in Seen'
    BY ConstantsAssumption DEF Publish, Seen, Payload, TypeInv
  <1>2. /\ queue \in BagsOver(Seen') /\ processing \in BagsOver(Seen')
        /\ proc \in [Workers -> Worker(Seen')]
    BY <1>1, BagsOverGrow, WorkerGrow DEF TypeInv
  <1>3. queue' \in BagsOver(Seen')
    BY <1>1, <1>2, BagAddIs DEF Publish
  <1> QED BY <1>2, <1>3 DEF Publish, TypeInv

\* The payloads there can be do not change while nothing is published or
\* stamped.
LEMMA SameSeen == UNCHANGED <<published, clock>> => Seen' = Seen
  BY DEF Seen

LEMMA StartType ==
    ASSUME TypeInv, NEW w \in Workers, Start(w)
    PROVE  /\ TypeInv'
           /\ \A v \in Workers \ {w} : proc'[v] = proc[v]
           /\ proc'[w].pc = "reclaim"
           /\ proc'[w].hand = {} /\ proc'[w].inflight = {}
           /\ DOMAIN proc'[w].leaving = {}
           /\ \A x \in DOMAIN proc'[w].items : x \in DOMAIN processing /\ x.claim <= aged
  <1> DEFINE stuck == {x \in DOMAIN processing : Stuck(x)}
             items == [r \in stuck |-> processing[r]]
             p == [Down EXCEPT !.pc = "reclaim", !.items = items]
  <1>1. items \in BagsOver(Seen) /\ DOMAIN items = stuck
    BY BagFilterIs DEF TypeInv
  <1>2. p \in WorkerOver(Seen)
    BY <1>1, DownType, EmptyBagIs DEF Worker, WorkerOver, Down
  <1>3. /\ p.pc = "reclaim" /\ p.hand = {} /\ p.inflight = {} /\ p.items = items
        /\ p.leaving = EmptyBag
    BY DEF Down
  <1>4. p \in Worker(Seen)
    BY <1>2, <1>3 DEF Worker, Sound, Holding
  <1>5. Becomes(w, p)
    BY DEF Start
  <1>6. \A x \in stuck : x \in DOMAIN processing /\ x.claim <= aged
    BY DEF Stuck
  <1> HIDE DEF p, items, stuck
  <1>7. /\ proc' \in [Workers -> Worker(Seen)] /\ proc'[w] = p
        /\ \A v \in Workers \ {w} : proc'[v] = proc[v]
    BY <1>4, <1>5, BecomesIs DEF TypeInv
  <1>8. UNCHANGED <<lists, published, handled, clock, aged, faults>>
    BY DEF Start
  <1>9. TypeInv'
    BY <1>7, <1>8, SameSeen DEF TypeInv, lists
  <1> QED BY <1>1, <1>3, <1>6, <1>7, <1>9, EmptyBagIs

LEMMA ReclaimType ==
    ASSUME TypeInv, NEW w \in Workers, NEW r \in DOMAIN proc[w].items, Reclaim(w, r)
    PROVE  /\ TypeInv'
           /\ \A v \in Workers \ {w} : proc'[v] = proc[v]
           /\ proc'[w].pc = "reclaim"
           /\ proc'[w].hand = proc[w].hand /\ proc'[w].inflight = proc[w].inflight
           /\ proc'[w].leaving = proc[w].leaving
           /\ DOMAIN proc'[w].items \subseteq DOMAIN proc[w].items
           /\ DOMAIN queue' = DOMAIN queue \cup {r}
           /\ DOMAIN processing' \subseteq DOMAIN processing
           /\ DOMAIN processing \subseteq DOMAIN processing' \cup {r}
  <1> DEFINE p == [proc[w] EXCEPT !.items = BagRemove(@, r)]
  <1>1. proc[w] \in WorkerOver(Seen) /\ Sound(proc[w]) /\ proc[w].pc = "reclaim"
    BY DEF TypeInv, Worker, Reclaim, At
  <1>2. proc[w].items \in BagsOver(Seen)
    BY <1>1 DEF WorkerOver
  <1>3. r \in Seen
    BY <1>2, BagsOverIs
  <1>4. /\ BagRemove(proc[w].items, r) \in BagsOver(Seen)
        /\ DOMAIN BagRemove(proc[w].items, r) \subseteq DOMAIN proc[w].items
    BY <1>2, BagRemoveIs
  <1>5. p \in WorkerOver(Seen)
    BY <1>1, <1>4 DEF WorkerOver
  <1>6. /\ p.pc = "reclaim" /\ p.hand = proc[w].hand /\ p.inflight = proc[w].inflight
        /\ p.leaving = proc[w].leaving /\ p.items = BagRemove(proc[w].items, r)
        /\ p.forced = proc[w].forced
    BY <1>1 DEF WorkerOver
  <1>7. p \in Worker(Seen)
    BY <1>1, <1>5, <1>6 DEF Worker, Sound
  <1>8. Becomes(w, p)
    BY DEF Reclaim
  <1> HIDE DEF p
  <1>9. /\ proc' \in [Workers -> Worker(Seen)] /\ proc'[w] = p
        /\ \A v \in Workers \ {w} : proc'[v] = proc[v]
    BY <1>7, <1>8, BecomesIs DEF TypeInv
  <1>10. /\ queue' = BagAdd(queue, r) /\ processing' = BagRemove(processing, r)
         /\ UNCHANGED <<dlq, published, handled, clock, aged, faults>>
    BY DEF Reclaim
  <1>11. queue' \in BagsOver(Seen) /\ DOMAIN queue' = DOMAIN queue \cup {r}
    <2>1. queue \in BagsOver(Seen)
      BY DEF TypeInv
    <2> QED BY <1>3, <1>10, <2>1, BagAddIs
  <1>12. /\ processing' \in BagsOver(Seen)
         /\ DOMAIN processing' \subseteq DOMAIN processing
         /\ DOMAIN processing \subseteq DOMAIN processing' \cup {r}
    BY <1>10, BagRemoveIs DEF TypeInv
  <1>13. TypeInv'
    BY <1>9, <1>10, <1>11, <1>12, SameSeen DEF TypeInv
  <1> QED BY <1>4, <1>6, <1>9, <1>11, <1>12, <1>13

LEMMA PopType ==
    ASSUME TypeInv, NEW w \in Workers, NEW r \in DOMAIN queue, Pop(w, r)
    PROVE  /\ TypeInv'
           /\ \A v \in Workers \ {w} : proc'[v] = proc[v]
           /\ proc'[w].pc = "popped" /\ proc'[w].hand = {r}
           /\ proc'[w].inflight = proc[w].inflight
           /\ proc'[w].items = proc[w].items /\ proc'[w].leaving = proc[w].leaving
           /\ DOMAIN queue' \subseteq DOMAIN queue
           /\ DOMAIN queue \subseteq DOMAIN queue' \cup {r}
           /\ DOMAIN processing' = DOMAIN processing \cup {r}
  <1> DEFINE p == [proc[w] EXCEPT !.pc = "popped", !.hand = {r}]
  <1>1. proc[w] \in WorkerOver(Seen) /\ Sound(proc[w]) /\ proc[w].pc = "idle"
    BY DEF TypeInv, Worker, Pop, At
  <1>2. r \in Seen
    BY BagsOverIs DEF TypeInv
  <1>3. p \in WorkerOver(Seen)
    BY <1>1, <1>2 DEF WorkerOver, Holding
  <1>4. /\ p.pc = "popped" /\ p.hand = {r} /\ p.inflight = proc[w].inflight
        /\ p.leaving = proc[w].leaving /\ p.items = proc[w].items
        /\ p.forced = proc[w].forced
    BY <1>1 DEF WorkerOver
  <1>5. p \in Worker(Seen)
    BY <1>1, <1>3, <1>4 DEF Worker, Sound, Holding
  <1>6. Becomes(w, p)
    BY DEF Pop
  <1> HIDE DEF p
  <1>7. /\ proc' \in [Workers -> Worker(Seen)] /\ proc'[w] = p
        /\ \A v \in Workers \ {w} : proc'[v] = proc[v]
    BY <1>5, <1>6, BecomesIs DEF TypeInv
  <1>8. /\ queue' = BagRemove(queue, r) /\ processing' = BagAdd(processing, r)
        /\ UNCHANGED <<dlq, published, handled, clock, aged, faults>>
    BY DEF Pop
  <1>9. processing' \in BagsOver(Seen) /\ DOMAIN processing' = DOMAIN processing \cup {r}
    <2>1. processing \in BagsOver(Seen)
      BY DEF TypeInv
    <2> QED BY <1>2, <1>8, <2>1, BagAddIs
  <1>10. /\ queue' \in BagsOver(Seen)
         /\ DOMAIN queue' \subseteq DOMAIN queue
         /\ DOMAIN queue \subseteq DOMAIN queue' \cup {r}
    BY <1>8, BagRemoveIs DEF TypeInv
  <1>11. TypeInv'
    BY <1>7, <1>8, <1>9, <1>10, SameSeen DEF TypeInv
  <1> QED BY <1>4, <1>7, <1>9, <1>10, <1>11

\* Every payload a worker knows of.
Carried(w) ==
    proc[w].hand \cup proc[w].inflight \cup DOMAIN proc[w].items \cup DOMAIN proc[w].leaving

\* Working on a payload whose claim has been stamped.
Busy(w) == proc[w].pc \in {"got", "run"}

\* What the steps have in common that touch neither the lists nor the
\* payloads there can be: the worker knows of nothing new.
Quiet(w) ==
    /\ UNCHANGED <<lists, published, clock, aged>>
    /\ \A v \in Workers \ {w} : proc'[v] = proc[v]
    /\ Carried(w)' \subseteq Carried(w)
    /\ proc'[w].hand \subseteq proc[w].hand
    /\ Busy(w)' => Busy(w) /\ (proc[w].forced => proc'[w].forced)

LEMMA QuietIs ==
    ASSUME TypeInv, NEW w \in Workers, NEW p \in Worker(Seen), Becomes(w, p),
           UNCHANGED <<lists, published, clock, aged>>,
           handled' \in SUBSET Messages, faults' \in 0 .. MaxFaults,
           p.hand \subseteq proc[w].hand, p.inflight \subseteq proc[w].inflight,
           DOMAIN p.items \subseteq DOMAIN proc[w].items,
           DOMAIN p.leaving \subseteq DOMAIN proc[w].leaving \cup proc[w].inflight,
           p.pc \in {"got", "run"} =>
               proc[w].pc \in {"got", "run"} /\ (proc[w].forced => p.forced)
    PROVE  TypeInv' /\ Quiet(w) /\ proc'[w] = p
  <1>1. /\ proc' \in [Workers -> Worker(Seen)] /\ proc'[w] = p
        /\ \A v \in Workers \ {w} : proc'[v] = proc[v]
    BY BecomesIs DEF TypeInv
  <1>2. TypeInv'
    BY <1>1, SameSeen DEF TypeInv, lists
  <1>3. Quiet(w)
    BY <1>1 DEF Quiet, Carried, Busy
  <1> QED BY <1>1, <1>2, <1>3

\* The state of a worker that is up.
LEMMA WorkerFields ==
    ASSUME TypeInv, NEW w \in Workers
    PROVE  /\ proc[w] \in WorkerOver(Seen) /\ Sound(proc[w]) /\ proc[w] \in Worker(Seen)
           /\ proc[w].hand \in SUBSET Seen /\ proc[w].inflight \in SUBSET Seen
           /\ proc[w].items \in BagsOver(Seen) /\ proc[w].leaving \in BagsOver(Seen)
           /\ DOMAIN proc[w].items \subseteq Seen /\ DOMAIN proc[w].leaving \subseteq Seen
           /\ proc[w].covers \in SUBSET Messages
           /\ proc[w].forced \in BOOLEAN /\ proc[w].stopping \in BOOLEAN
  BY BagsOverIs DEF TypeInv, Worker, WorkerOver

LEMMA DownStep ==
    ASSUME TypeInv, NEW w \in Workers, ReclaimError(w) \/ Exit(w) \/ Crash(w)
    PROVE  TypeInv' /\ Quiet(w) /\ proc'[w] = Down /\ UNCHANGED handled
  <1>1. /\ Becomes(w, Down) /\ UNCHANGED <<lists, published, handled, clock, aged>>
        /\ faults' = faults \/ \E kind \in {"redis", "crash"} : Occurs(kind)
    BY DEF ReclaimError, Exit, Crash
  <1>2. faults' \in 0 .. MaxFaults /\ handled' \in SUBSET Messages
    BY <1>1, OccursType DEF TypeInv
  <1>3. /\ Down \in Worker(Seen) /\ Down.hand = {} /\ Down.inflight = {}
        /\ DOMAIN Down.items = {} /\ DOMAIN Down.leaving = {} /\ Down.pc = "down"
    BY DownType, EmptyBagIs DEF Down
  <1> QED BY <1>1, <1>2, <1>3, QuietIs

LEMMA ReclaimedType ==
    ASSUME TypeInv, NEW w \in Workers, Reclaimed(w) \/ LoopEnds(w)
    PROVE  /\ TypeInv' /\ Quiet(w) /\ UNCHANGED handled
           /\ proc'[w].pc \in {"idle", "exit"}
           /\ proc'[w].hand = proc[w].hand /\ proc'[w].inflight = proc[w].inflight
  <1>1. PICK pc \in {"idle", "exit"} : Becomes(w, [proc[w] EXCEPT !.pc = pc])
    BY DEF Reclaimed, LoopEnds, Goto
  <1> DEFINE p == [proc[w] EXCEPT !.pc = pc]
  <1>2. /\ UNCHANGED <<lists, published, handled, clock, aged, faults>>
        /\ proc[w].pc \in {"reclaim", "idle"}
    BY DEF Reclaimed, LoopEnds, At
  <1>3. /\ p \in WorkerOver(Seen) /\ p.pc = pc /\ p.hand = proc[w].hand
        /\ p.inflight = proc[w].inflight /\ p.items = proc[w].items
        /\ p.leaving = proc[w].leaving /\ p.forced = proc[w].forced
    BY WorkerFields DEF WorkerOver
  <1>4. p \in Worker(Seen)
    BY <1>2, <1>3, WorkerFields DEF Worker, Sound, Holding
  <1>5. handled' \in SUBSET Messages /\ faults' \in 0 .. MaxFaults
    BY <1>2 DEF TypeInv
  <1> HIDE DEF p
  <1>6. TypeInv' /\ Quiet(w) /\ proc'[w] = p
    BY <1>1, <1>2, <1>3, <1>4, <1>5, QuietIs DEF p
  <1> QED BY <1>2, <1>3, <1>6

LEMMA StampErrorType ==
    ASSUME TypeInv, NEW w \in Workers, StampError(w)
    PROVE  /\ TypeInv' /\ Quiet(w) /\ UNCHANGED handled
           /\ proc'[w].pc = "idle"
           /\ proc'[w].hand = {} /\ proc'[w].inflight = proc[w].inflight
  <1> DEFINE p == [proc[w] EXCEPT !.pc = "idle", !.hand = {}]
  <1>1. /\ Becomes(w, p) /\ UNCHANGED <<lists, published, handled, clock, aged>>
        /\ Occurs("redis") /\ proc[w].pc = "popped"
    BY DEF StampError, At
  <1>2. /\ p \in WorkerOver(Seen) /\ p.pc = "idle" /\ p.hand = {}
        /\ p.inflight = proc[w].inflight /\ p.items = proc[w].items
        /\ p.leaving = proc[w].leaving /\ p.forced = proc[w].forced
    BY WorkerFields DEF WorkerOver
  <1>3. p \in Worker(Seen)
    BY <1>1, <1>2, WorkerFields DEF Worker, Sound, Holding
  <1>4. handled' \in SUBSET Messages /\ faults' \in 0 .. MaxFaults
    BY <1>1, OccursType DEF TypeInv
  <1> HIDE DEF p
  <1>5. TypeInv' /\ Quiet(w) /\ proc'[w] = p
    BY <1>1, <1>2, <1>3, <1>4, QuietIs
  <1> QED BY <1>1, <1>2, <1>5

LEMMA BeginType ==
    ASSUME TypeInv, NEW w \in Workers, Begin(w)
    PROVE  /\ TypeInv' /\ Quiet(w) /\ UNCHANGED handled
           /\ proc'[w].pc = "run"
           /\ proc'[w].hand = proc[w].hand /\ proc'[w].inflight = proc[w].inflight
           /\ proc'[w].covers = UNION {Work(r) : r \in proc[w].hand}
  <1> DEFINE covers == UNION {Work(r) : r \in proc[w].hand}
             p == [proc[w] EXCEPT !.pc = "run", !.covers = covers]
  <1>1. /\ Becomes(w, p) /\ UNCHANGED <<lists, published, handled, clock, aged, faults>>
        /\ proc[w].pc = "got"
    BY DEF Begin, At
  <1>2. covers \in SUBSET Messages
    <2>1. \A r \in Seen : r.msg \in Messages
      BY DEF Seen, Payload
    <2>2. \A r \in Seen : Work(r) \subseteq Messages
      BY <2>1 DEF Work, TypeInv
    <2> QED BY <2>2, WorkerFields
  <1> HIDE DEF covers
  <1>3. /\ p \in WorkerOver(Seen) /\ p.pc = "run" /\ p.hand = proc[w].hand
        /\ p.inflight = proc[w].inflight /\ p.items = proc[w].items
        /\ p.leaving = proc[w].leaving /\ p.forced = proc[w].forced
        /\ p.covers = covers
    BY <1>2, WorkerFields DEF WorkerOver, Holding
  <1>4. p \in Worker(Seen)
    BY <1>1, <1>3, WorkerFields DEF Worker, Sound, Holding
  <1>5. handled' \in SUBSET Messages /\ faults' \in 0 .. MaxFaults
    BY <1>1 DEF TypeInv
  <1> HIDE DEF p
  <1>6. TypeInv' /\ Quiet(w) /\ proc'[w] = p
    BY <1>1, <1>3, <1>4, <1>5, QuietIs
  <1> QED BY <1>1, <1>3, <1>6 DEF covers

LEMMA ExecuteType ==
    ASSUME TypeInv, NEW w \in Workers, Fail(w) \/ Succeed(w)
    PROVE  /\ TypeInv' /\ Quiet(w)
           /\ proc[w].pc = "run"
           /\ handled \subseteq handled'
           /\ \/ proc'[w].pc = "failed"
              \/ proc'[w].pc = "ok" /\ handled' = handled \cup proc[w].covers
           /\ proc'[w].hand = proc[w].hand /\ proc'[w].inflight = proc[w].inflight
  <1>1. PICK pc \in {"ok", "failed"} :
            /\ Becomes(w, [proc[w] EXCEPT !.pc = pc])
            /\ pc = "ok" => handled' = handled \cup proc[w].covers
            /\ pc = "failed" => handled' = handled
    BY DEF Fail, Succeed, Goto
  <1> DEFINE p == [proc[w] EXCEPT !.pc = pc]
  <1>2. UNCHANGED <<lists, published, clock, aged, faults>> /\ proc[w].pc = "run"
    BY DEF Fail, Succeed, At
  <1>3. /\ p \in WorkerOver(Seen) /\ p.pc = pc /\ p.hand = proc[w].hand
        /\ p.inflight = proc[w].inflight /\ p.items = proc[w].items
        /\ p.leaving = proc[w].leaving /\ p.forced = proc[w].forced
    BY WorkerFields DEF WorkerOver, Holding
  <1>4. p \in Worker(Seen)
    BY <1>2, <1>3, WorkerFields DEF Worker, Sound, Holding
  <1>5. handled' \in SUBSET Messages /\ faults' \in 0 .. MaxFaults
    BY <1>1, <1>2, WorkerFields DEF TypeInv
  <1> HIDE DEF p
  <1>6. TypeInv' /\ Quiet(w) /\ proc'[w] = p
    BY <1>1, <1>2, <1>3, <1>4, <1>5, QuietIs DEF p
  <1> QED BY <1>1, <1>2, <1>3, <1>6

\* What happens to the worker in every settlement.
Settles(w) ==
    /\ TypeInv' /\ UNCHANGED <<published, handled, clock, aged>>
    /\ \A v \in Workers \ {w} : proc'[v] = proc[v]
    /\ Carried(w)' \subseteq Carried(w)
    /\ proc[w].pc \in Holding
    /\ proc'[w].pc \in {"exit", "idle"} /\ proc'[w].hand = {}

LEMMA SettlesIs ==
    ASSUME TypeInv, NEW w \in Workers, proc[w].pc \in Holding,
           NEW I \in SUBSET proc[w].inflight, Settled(w, I),
           queue' \in BagsOver(Seen), processing' \in BagsOver(Seen),
           dlq' \in BagsOver(Payload), faults' \in 0 .. MaxFaults,
           UNCHANGED <<published, handled, clock, aged>>
    PROVE  Settles(w) /\ proc'[w].inflight = I
  <1>1. /\ proc' \in [Workers -> Worker(Seen)]
        /\ \A v \in Workers \ {w} : proc'[v] = proc[v]
        /\ proc'[w].pc \in {"exit", "idle"}
        /\ proc'[w].hand = {} /\ proc'[w].inflight = I
        /\ proc'[w].items = proc[w].items /\ proc'[w].leaving = proc[w].leaving
    BY SettledIs DEF TypeInv
  <1>2. TypeInv'
    BY <1>1, SameSeen DEF TypeInv
  <1>3. Carried(w)' \subseteq Carried(w)
    BY <1>1 DEF Carried
  <1> QED BY <1>1, <1>2, <1>3 DEF Settles

\* An acknowledgement takes at most the payload it looked up out of the
\* processing list.
LEMMA AckType ==
    ASSUME TypeInv, NEW w \in Workers, Ack(w)
    PROVE  /\ Settles(w) /\ proc[w].pc = "ok" /\ UNCHANGED <<queue, dlq>>
           /\ \/ /\ Peeked(w) = {} /\ UNCHANGED processing
                 /\ proc'[w].inflight = proc[w].inflight
              \/ \E r \in Peeked(w) :
                    /\ DOMAIN processing' \subseteq DOMAIN processing
                    /\ DOMAIN processing \subseteq DOMAIN processing' \cup {r}
                    /\ \/ proc'[w].inflight = proc[w].inflight \ {r}
                       \/ "redis" \in Faults /\ proc'[w].inflight = proc[w].inflight
  <1>1. /\ proc[w].pc = "ok" /\ proc[w].pc \in Holding
        /\ UNCHANGED <<queue, dlq, published, handled, clock, aged>>
    BY DEF Ack, At, Holding
  <1>2. /\ queue' \in BagsOver(Seen) /\ dlq' \in BagsOver(Payload)
        /\ processing \in BagsOver(Seen) /\ faults \in 0 .. MaxFaults
    BY <1>1 DEF TypeInv
  <1>3. CASE Peeked(w) = {} /\ Settled(w, proc[w].inflight) /\ UNCHANGED <<processing, faults>>
    <2>1. Settles(w) /\ proc'[w].inflight = proc[w].inflight
      BY <1>1, <1>2, <1>3, SettlesIs
    <2> QED BY <1>1, <1>3, <2>1
  <1>4. ASSUME NEW r \in Peeked(w), processing' = BagRemove(processing, r),
               \/ Settled(w, Dropped(w, r)) /\ UNCHANGED faults
               \/ Occurs("redis") /\ Settled(w, proc[w].inflight)
        PROVE  /\ Settles(w)
               /\ DOMAIN processing' \subseteq DOMAIN processing
               /\ DOMAIN processing \subseteq DOMAIN processing' \cup {r}
               /\ \/ proc'[w].inflight = proc[w].inflight \ {r}
                  \/ "redis" \in Faults /\ proc'[w].inflight = proc[w].inflight
    <2>1. /\ processing' \in BagsOver(Seen)
          /\ DOMAIN processing' \subseteq DOMAIN processing
          /\ DOMAIN processing \subseteq DOMAIN processing' \cup {r}
      BY <1>2, <1>4, BagRemoveIs
    <2>2. CASE Settled(w, Dropped(w, r)) /\ UNCHANGED faults
      <3>1. Settles(w) /\ proc'[w].inflight = proc[w].inflight \ {r}
        BY <1>1, <1>2, <2>1, <2>2, SettlesIs DEF Dropped
      <3> QED BY <2>1, <3>1
    <2>3. CASE Occurs("redis") /\ Settled(w, proc[w].inflight)
      <3>1. Settles(w) /\ proc'[w].inflight = proc[w].inflight
        BY <1>1, <1>2, <2>1, <2>3, SettlesIs, OccursType
      <3> QED BY <2>1, <2>3, <3>1 DEF Occurs
    <2> QED BY <1>4, <2>2, <2>3
  <1> QED BY <1>1, <1>3, <1>4 DEF Ack

LEMMA NackType ==
    ASSUME TypeInv, NEW w \in Workers, Nack(w)
    PROVE  /\ Settles(w)
           /\ \/ /\ Peeked(w) = {} /\ UNCHANGED lists
                 /\ proc'[w].inflight = proc[w].inflight
              \/ \E r \in Peeked(w) :
                    /\ GiveBack(r)
                    /\ \/ proc'[w].inflight = proc[w].inflight \ {r}
                       \/ "redis" \in Faults /\ proc'[w].inflight = proc[w].inflight
  <1>1. /\ proc[w].pc \in Holding
        /\ UNCHANGED <<published, handled, clock, aged>>
    BY DEF Nack, TurnedAway, At, Holding
  <1>2. /\ queue \in BagsOver(Seen) /\ dlq \in BagsOver(Payload)
        /\ processing \in BagsOver(Seen) /\ faults \in 0 .. MaxFaults
    BY DEF TypeInv
  <1>3. CASE Peeked(w) = {} /\ Settled(w, proc[w].inflight) /\ UNCHANGED <<lists, faults>>
    <2>1. Settles(w) /\ proc'[w].inflight = proc[w].inflight
      BY <1>1, <1>2, <1>3, SettlesIs DEF lists
    <2> QED BY <1>3, <2>1
  <1>4. ASSUME NEW r \in Peeked(w), GiveBack(r),
               \/ Settled(w, Dropped(w, r)) /\ UNCHANGED faults
               \/ Occurs("redis") /\ Settled(w, proc[w].inflight)
        PROVE  /\ Settles(w)
               /\ \/ proc'[w].inflight = proc[w].inflight \ {r}
                  \/ "redis" \in Faults /\ proc'[w].inflight = proc[w].inflight
    <2>1. r \in Seen
      BY PeekedIs, WorkerFields
    <2>2. queue' \in BagsOver(Seen) /\ processing' \in BagsOver(Seen) /\ dlq' \in BagsOver(Payload)
      BY <1>4, <2>1, GiveBackIs
    <2>3. CASE Settled(w, Dropped(w, r)) /\ UNCHANGED faults
      <3>1. Settles(w) /\ proc'[w].inflight = proc[w].inflight \ {r}
        BY <1>1, <1>2, <2>2, <2>3, SettlesIs DEF Dropped
      <3> QED BY <3>1
    <2>4. CASE Occurs("redis") /\ Settled(w, proc[w].inflight)
      <3>1. Settles(w) /\ proc'[w].inflight = proc[w].inflight
        BY <1>1, <1>2, <2>2, <2>4, SettlesIs, OccursType
      <3> QED BY <2>4, <3>1 DEF Occurs
    <2> QED BY <1>4, <2>3, <2>4
  <1> QED BY <1>1, <1>3, <1>4 DEF Nack

LEMMA SettleErrorType ==
    ASSUME TypeInv, NEW w \in Workers, SettleError(w)
    PROVE  /\ Settles(w) /\ UNCHANGED lists /\ "redis" \in Faults
           /\ proc'[w].inflight = proc[w].inflight
  <1>1. /\ proc[w].pc \in Holding /\ Occurs("redis") /\ Settled(w, proc[w].inflight)
        /\ UNCHANGED <<lists, published, handled, clock, aged>>
    BY DEF SettleError, TurnedAway, At, Holding
  <1>2. /\ queue' \in BagsOver(Seen) /\ dlq' \in BagsOver(Payload)
        /\ processing' \in BagsOver(Seen) /\ faults' \in 0 .. MaxFaults
    BY <1>1, OccursType DEF TypeInv, lists
  <1>3. Settles(w) /\ proc'[w].inflight = proc[w].inflight
    BY <1>1, <1>2, SettlesIs
  <1> QED BY <1>1, <1>3 DEF Occurs

LEMMA StopType ==
    ASSUME TypeInv, NEW w \in Workers, Stop(w)
    PROVE  /\ TypeInv' /\ Quiet(w) /\ UNCHANGED handled
           /\ proc'[w].pc = proc[w].pc /\ proc'[w].covers = proc[w].covers
           /\ proc'[w].hand = proc[w].hand /\ proc'[w].inflight = proc[w].inflight
  <1> DEFINE p == [proc[w] EXCEPT !.stopping = TRUE]
  <1>1. /\ Becomes(w, p) /\ UNCHANGED <<lists, published, handled, clock, aged>>
        /\ Occurs("stop")
    BY DEF Stop
  <1>2. /\ p \in WorkerOver(Seen) /\ p.pc = proc[w].pc /\ p.hand = proc[w].hand
        /\ p.inflight = proc[w].inflight /\ p.items = proc[w].items
        /\ p.leaving = proc[w].leaving /\ p.forced = proc[w].forced
        /\ p.covers = proc[w].covers
    BY WorkerFields DEF WorkerOver
  <1>3. p \in Worker(Seen)
    BY <1>2, WorkerFields DEF Worker, Sound
  <1>4. handled' \in SUBSET Messages /\ faults' \in 0 .. MaxFaults
    BY <1>1, OccursType DEF TypeInv
  <1> HIDE DEF p
  <1>5. TypeInv' /\ Quiet(w) /\ proc'[w] = p
    BY <1>1, <1>2, <1>3, <1>4, QuietIs
  <1> QED BY <1>1, <1>2, <1>5

LEMMA NackAllType ==
    ASSUME TypeInv, NEW w \in Workers, NackAll(w)
    PROVE  /\ TypeInv' /\ Quiet(w) /\ UNCHANGED handled
           /\ proc'[w].pc = "gone" \/ proc'[w].pc = proc[w].pc
           /\ proc'[w].covers = proc[w].covers
           /\ proc'[w].hand = proc[w].hand /\ proc'[w].inflight = proc[w].inflight
  <1> DEFINE leaving == proc[w].leaving (+) SetToBag(proc[w].inflight)
  <1>1. UNCHANGED <<lists, published, handled, clock, aged, faults>>
    BY DEF NackAll
  <1>2. /\ leaving \in BagsOver(Seen)
        /\ DOMAIN leaving = DOMAIN proc[w].leaving \cup proc[w].inflight
    <2> DEFINE B == proc[w].leaving
               T == proc[w].inflight
    <2>1. B \in BagsOver(Seen) /\ T \in SUBSET Seen
      BY WorkerFields
    <2>2. leaving = B (+) SetToBag(T)
      OBVIOUS
    <2> HIDE DEF leaving, B, T
    <2>3. leaving \in BagsOver(Seen) /\ DOMAIN leaving = DOMAIN B \cup T
      BY <2>1, <2>2, BagUnionIs
    <2> QED BY <2>3 DEF B, T
  <1>3. handled' \in SUBSET Messages /\ faults' \in 0 .. MaxFaults
    BY <1>1 DEF TypeInv
  <1>4. CASE /\ At(w, "exit")
             /\ Becomes(w, [proc[w] EXCEPT !.pc = "gone", !.leaving = leaving])
    <2> DEFINE p == [proc[w] EXCEPT !.pc = "gone", !.leaving = leaving]
    <2> HIDE DEF leaving
    <2>1. /\ p \in WorkerOver(Seen) /\ p.pc = "gone" /\ p.hand = proc[w].hand
          /\ p.inflight = proc[w].inflight /\ p.items = proc[w].items
          /\ p.leaving = leaving /\ p.covers = proc[w].covers
      BY <1>2, WorkerFields DEF WorkerOver
    <2>2. p \in Worker(Seen)
      BY <1>4, <2>1, WorkerFields DEF Worker, Sound, Holding, At
    <2>3. Becomes(w, p)
      BY <1>4
    <2> HIDE DEF p
    <2>4. TypeInv' /\ Quiet(w) /\ proc'[w] = p
      BY <1>1, <1>2, <1>3, <2>1, <2>2, <2>3, QuietIs
    <2> QED BY <1>1, <2>1, <2>4
  <1>5. CASE Becomes(w, [proc[w] EXCEPT !.forced = TRUE, !.leaving = leaving])
    <2> DEFINE p == [proc[w] EXCEPT !.forced = TRUE, !.leaving = leaving]
    <2> HIDE DEF leaving
    <2>1. /\ p \in WorkerOver(Seen) /\ p.pc = proc[w].pc /\ p.hand = proc[w].hand
          /\ p.inflight = proc[w].inflight /\ p.items = proc[w].items
          /\ p.leaving = leaving /\ p.forced /\ p.covers = proc[w].covers
      BY <1>2, WorkerFields DEF WorkerOver
    <2>2. p \in Worker(Seen)
      BY <2>1, WorkerFields DEF Worker, Sound
    <2>3. Becomes(w, p)
      BY <1>5
    <2> HIDE DEF p
    <2>4. TypeInv' /\ Quiet(w) /\ proc'[w] = p
      BY <1>1, <1>2, <1>3, <2>1, <2>2, <2>3, QuietIs
    <2> QED BY <1>1, <2>1, <2>4
  <1> QED BY <1>4, <1>5 DEF NackAll

LEMMA NackOneType ==
    ASSUME TypeInv, NEW w \in Workers, NEW r \in DOMAIN proc[w].leaving, NackOne(w, r)
    PROVE  /\ TypeInv' /\ GiveBack(r) /\ UNCHANGED <<published, handled, clock, aged>>
           /\ \A v \in Workers \ {w} : proc'[v] = proc[v]
           /\ Carried(w)' \subseteq Carried(w)
           /\ proc'[w].pc = proc[w].pc /\ proc'[w].forced = proc[w].forced
           /\ proc'[w].covers = proc[w].covers
           /\ proc'[w].hand = proc[w].hand /\ proc'[w].inflight = proc[w].inflight \ {r}
  <1> DEFINE p == [proc[w] EXCEPT !.leaving = BagRemove(@, r), !.inflight = Dropped(w, r)]
  <1>1. /\ Becomes(w, p) /\ GiveBack(r)
        /\ UNCHANGED <<published, handled, clock, aged, faults>>
    BY DEF NackOne
  <1>2. /\ BagRemove(proc[w].leaving, r) \in BagsOver(Seen)
        /\ DOMAIN BagRemove(proc[w].leaving, r) \subseteq DOMAIN proc[w].leaving
    BY WorkerFields, BagRemoveIs
  <1>3. r \in Seen
    BY WorkerFields
  <1>4. /\ p \in WorkerOver(Seen) /\ p.pc = proc[w].pc /\ p.hand = proc[w].hand
        /\ p.inflight = proc[w].inflight \ {r} /\ p.items = proc[w].items
        /\ p.leaving = BagRemove(proc[w].leaving, r) /\ p.forced = proc[w].forced
        /\ p.covers = proc[w].covers
    BY <1>2, WorkerFields DEF WorkerOver, Dropped
  <1>5. proc[w].leaving # EmptyBag
    BY EmptyBagIs
  <1>6. p \in Worker(Seen)
    BY <1>4, <1>5, WorkerFields DEF Worker, Sound
  <1> HIDE DEF p
  <1>7. /\ proc' \in [Workers -> Worker(Seen)] /\ proc'[w] = p
        /\ \A v \in Workers \ {w} : proc'[v] = proc[v]
    BY <1>1, <1>6, BecomesIs DEF TypeInv
  <1>8. queue' \in BagsOver(Seen) /\ processing' \in BagsOver(Seen) /\ dlq' \in BagsOver(Payload)
    BY <1>1, <1>3, GiveBackIs
  <1>9. TypeInv'
    BY <1>1, <1>7, <1>8, SameSeen DEF TypeInv
  <1>10. Carried(w)' \subseteq Carried(w)
    BY <1>2, <1>4, <1>7 DEF Carried
  <1> QED BY <1>1, <1>4, <1>7, <1>9, <1>10

LEMMA AgeType == TypeInv /\ Age => TypeInv' /\ aged' = aged + 1
  <1> SUFFICES ASSUME TypeInv, Age PROVE TypeInv' /\ aged' = aged + 1
    OBVIOUS
  <1>1. /\ aged' = aged + 1 /\ aged < clock
        /\ UNCHANGED <<lists, published, handled, clock, faults, proc>>
    BY DEF Age
  <1>2. aged' \in 0 .. clock
    BY <1>1, ConstantsAssumption DEF TypeInv
  <1> QED BY <1>1, <1>2, SameSeen DEF TypeInv, lists

\* The payload in hand is replaced, in the processing list too, by the same
\* message under a claim that nobody has had.
LEMMA StampType ==
    ASSUME TypeInv, NEW w \in Workers, Stamp(w)
    PROVE  /\ TypeInv' /\ clock' = clock + 1
           /\ UNCHANGED <<queue, dlq, published, handled, aged>>
           /\ \A v \in Workers \ {w} : proc'[v] = proc[v]
           /\ \E r \in proc[w].hand, s \in Seen' :
                 /\ s.msg = r.msg /\ s.claim = clock + 1
                 /\ proc[w].hand = {r}
                 /\ DOMAIN processing' \subseteq DOMAIN processing \cup {s}
                 /\ DOMAIN processing \subseteq DOMAIN processing' \cup {r}
                 /\ s \in DOMAIN processing'
                 /\ Carried(w)' \subseteq Carried(w) \cup {s}
                 /\ \/ /\ proc'[w].pc = "got" /\ proc'[w].hand = {s}
                       /\ proc'[w].inflight = proc[w].inflight \cup {s}
                    \/ /\ "redis" \in Faults
                       /\ proc'[w].pc = "idle" /\ proc'[w].hand = {}
                       /\ proc'[w].inflight = proc[w].inflight
  <1>1. /\ proc[w].pc = "popped" /\ clock < MaxClaims /\ clock' = clock + 1
        /\ UNCHANGED <<queue, dlq, published, handled, aged>>
    BY DEF Stamp, At
  <1>2. clock \in Nat /\ clock' \in 0 .. MaxClaims /\ aged' \in 0 .. clock'
    BY <1>1, ConstantsAssumption DEF TypeInv
  <1>3. PICK r \in proc[w].hand :
            LET s == [r EXCEPT !.claim = clock + 1]
            IN  /\ processing' = BagAdd(BagRemove(processing, r), s)
                /\ \/ /\ Becomes(w, [proc[w] EXCEPT !.pc = "got", !.hand = {s},
                             !.inflight = @ \cup {s}])
                      /\ UNCHANGED faults
                   \/ /\ Occurs("redis")
                      /\ Becomes(w, [proc[w] EXCEPT !.pc = "idle", !.hand = {}])
    BY DEF Stamp
  <1> DEFINE s == [r EXCEPT !.claim = clock + 1]
  <1>4. r \in Payload /\ r.msg \in published /\ r.tries <= MaxNacks
    BY WorkerFields DEF Seen
  <1>5. s \in Seen' /\ s.msg = r.msg /\ s.claim = clock + 1
    BY <1>1, <1>2, <1>4 DEF Seen, Payload
  <1>6. Seen \subseteq Seen'
    BY <1>1, <1>2 DEF Seen, Payload
  <1>7. /\ queue \in BagsOver(Seen') /\ processing \in BagsOver(Seen')
        /\ proc \in [Workers -> Worker(Seen')]
    BY <1>6, BagsOverGrow, WorkerGrow DEF TypeInv
  <1>8. proc[w].hand = {r}
    BY <1>1, WorkerFields DEF Sound, Holding
  <1>9. /\ processing' = BagAdd(BagRemove(processing, r), s)
        /\ \/ /\ Becomes(w, [proc[w] EXCEPT !.pc = "got", !.hand = {s},
                     !.inflight = @ \cup {s}])
              /\ UNCHANGED faults
           \/ /\ Occurs("redis")
              /\ Becomes(w, [proc[w] EXCEPT !.pc = "idle", !.hand = {}])
    BY <1>3
  <1> HIDE DEF s
  <1>10. /\ BagRemove(processing, r) \in BagsOver(Seen')
         /\ DOMAIN BagRemove(processing, r) \subseteq DOMAIN processing
         /\ DOMAIN processing \subseteq DOMAIN BagRemove(processing, r) \cup {r}
    BY <1>7, BagRemoveIs
  <1>11. /\ processing' \in BagsOver(Seen')
         /\ DOMAIN processing' = DOMAIN BagRemove(processing, r) \cup {s}
    BY <1>5, <1>9, <1>10, BagAddIs
  <1>12. /\ proc[w] \in WorkerOver(Seen') /\ Sound(proc[w])
    BY <1>7 DEF Worker
  <1>13. CASE /\ Becomes(w, [proc[w] EXCEPT !.pc = "got", !.hand = {s},
                      !.inflight = @ \cup {s}])
              /\ UNCHANGED faults
    <2> DEFINE p == [proc[w] EXCEPT !.pc = "got", !.hand = {s}, !.inflight = @ \cup {s}]
    <2>1. /\ p \in WorkerOver(Seen') /\ p.pc = "got" /\ p.hand = {s}
          /\ p.inflight = proc[w].inflight \cup {s} /\ p.items = proc[w].items
          /\ p.leaving = proc[w].leaving /\ p.forced = proc[w].forced
      BY <1>5, <1>12 DEF WorkerOver, Holding
    <2>2. p \in Worker(Seen')
      BY <1>1, <1>12, <2>1 DEF Worker, Sound, Holding
    <2>3. Becomes(w, p)
      BY <1>13
    <2> HIDE DEF p
    <2>4. /\ proc' \in [Workers -> Worker(Seen')] /\ proc'[w] = p
          /\ \A v \in Workers \ {w} : proc'[v] = proc[v]
      BY <1>7, <2>2, <2>3, BecomesIs
    <2>5. TypeInv'
      BY <1>1, <1>2, <1>7, <1>11, <1>13, <2>4 DEF TypeInv
    <2>6. Carried(w)' \subseteq Carried(w) \cup {s}
      BY <2>1, <2>4 DEF Carried
    <2> QED BY <1>1, <1>5, <1>8, <1>10, <1>11, <2>1, <2>4, <2>5, <2>6
  <1>14. CASE /\ Occurs("redis")
              /\ Becomes(w, [proc[w] EXCEPT !.pc = "idle", !.hand = {}])
    <2> DEFINE p == [proc[w] EXCEPT !.pc = "idle", !.hand = {}]
    <2>1. /\ p \in WorkerOver(Seen') /\ p.pc = "idle" /\ p.hand = {}
          /\ p.inflight = proc[w].inflight /\ p.items = proc[w].items
          /\ p.leaving = proc[w].leaving /\ p.forced = proc[w].forced
      BY <1>12 DEF WorkerOver
    <2>2. p \in Worker(Seen')
      BY <1>1, <1>12, <2>1 DEF Worker, Sound, Holding
    <2>3. Becomes(w, p)
      BY <1>14
    <2> HIDE DEF p
    <2>4. /\ proc' \in [Workers -> Worker(Seen')] /\ proc'[w] = p
          /\ \A v \in Workers \ {w} : proc'[v] = proc[v]
      BY <1>7, <2>2, <2>3, BecomesIs
    <2>5. faults' \in 0 .. MaxFaults /\ "redis" \in Faults
      BY <1>14, OccursType DEF Occurs
    <2>6. TypeInv'
      BY <1>1, <1>2, <1>7, <1>11, <2>4, <2>5 DEF TypeInv
    <2>7. Carried(w)' \subseteq Carried(w) \cup {s}
      BY <2>1, <2>4 DEF Carried
    <2> QED BY <1>1, <1>5, <1>8, <1>10, <1>11, <2>1, <2>4, <2>5, <2>6, <2>7
  <1> QED BY <1>9, <1>13, <1>14

\* Next, with the operations of a worker one by one.
LEMMA NextCases ==
    ASSUME Next
    PROVE  \/ \E m \in Messages : Publish(m)
           \/ Age
           \/ \E w \in Workers :
                 \/ Start(w) \/ Stamp(w) \/ Begin(w) \/ Ack(w) \/ Nack(w)
                 \/ Fail(w) \/ Succeed(w) \/ Reclaimed(w) \/ LoopEnds(w) \/ NackAll(w)
                 \/ Exit(w) \/ ReclaimError(w) \/ Crash(w)
                 \/ StampError(w) \/ SettleError(w) \/ Stop(w)
                 \/ \E r \in DOMAIN proc[w].items : Reclaim(w, r)
                 \/ \E r \in DOMAIN queue : Pop(w, r)
                 \/ \E r \in DOMAIN proc[w].leaving : NackOne(w, r)
  BY DEF Next, Step, Fault

LEMMA TypeInvStep == TypeInv /\ [Next]_vars => TypeInv'
  <1> SUFFICES ASSUME TypeInv, [Next]_vars PROVE TypeInv'
    OBVIOUS
  <1>1. CASE UNCHANGED vars
    BY <1>1, SameSeen DEF vars, lists, TypeInv
  <1>2. ASSUME NEW w \in Workers,
               \/ Start(w) \/ Stamp(w) \/ Begin(w) \/ Ack(w) \/ Nack(w)
               \/ Fail(w) \/ Succeed(w) \/ Reclaimed(w) \/ LoopEnds(w) \/ NackAll(w)
        PROVE  TypeInv'
    BY <1>2, StartType, StampType, BeginType, AckType, NackType, ExecuteType, ReclaimedType,
       NackAllType DEF Settles
  <1>3. ASSUME NEW w \in Workers,
               \/ Exit(w) \/ ReclaimError(w) \/ Crash(w)
               \/ StampError(w) \/ SettleError(w) \/ Stop(w)
        PROVE  TypeInv'
    BY <1>3, DownStep, StampErrorType, SettleErrorType, StopType DEF Settles
  <1>4. ASSUME NEW w \in Workers,
               \/ \E r \in DOMAIN proc[w].items : Reclaim(w, r)
               \/ \E r \in DOMAIN queue : Pop(w, r)
               \/ \E r \in DOMAIN proc[w].leaving : NackOne(w, r)
        PROVE  TypeInv'
    BY <1>4, ReclaimType, PopType, NackOneType
  <1>5. CASE Age
    BY <1>5, AgeType
  <1>6. ASSUME NEW m \in Messages, Publish(m) PROVE TypeInv'
    BY <1>6, PublishType
  <1> QED BY <1>1, <1>2, <1>3, <1>4, <1>5, <1>6, NextCases

(***************************************************************************)
(* The lists and the state of a worker have their types; what waits in the *)
(* queue, is in processing or is known to a worker is of a published       *)
(* message, within its retries and under a claim that was stamped.         *)
(***************************************************************************)
THEOREM TypeCorrect == Spec => []TypeOK
  BY TypeInvInit, TypeInvStep, TypeInvImplies, PTL DEF Spec

---------------------------------------------------------------------------
(***************************************************************************)
(* A fresh claim.  Its number is on no payload in the queue and on none    *)
(* another worker knows of, so that nobody takes the payload away.         *)
(***************************************************************************)
Sole(w, r) ==
    /\ r \in DOMAIN processing
    /\ \A x \in DOMAIN queue : x.claim # r.claim
    /\ \A v \in Workers \ {w} : \A x \in Carried(v) : x.claim # r.claim

FreshInv ==
    \A w \in Workers : \A r \in proc[w].hand :
        Busy(w) /\ r.claim > aged /\ ~proc[w].forced => Sole(w, r)

LEMMA FreshInvInit == Init => FreshInv
  BY DEF Init, FreshInv, Down

LEMMA FreshInvImplies == FreshInv => FreshClaimStays
  BY DEF FreshInv, FreshClaimStays, Sole, Busy, At, BagIn, BagToSet

\* A step that keeps the lists and tells no worker of anything new.
LEMMA FreshQuiet ==
    ASSUME FreshInv, NEW w \in Workers, Quiet(w)
    PROVE  FreshInv'
  <1> SUFFICES ASSUME NEW u \in Workers, NEW r \in proc'[u].hand,
                      Busy(u)', r.claim > aged, ~proc'[u].forced
               PROVE  Sole(u, r)'
    BY DEF FreshInv, Quiet
  <1>1. r \in proc[u].hand /\ Busy(u) /\ ~proc[u].forced
    BY DEF Quiet, Busy
  <1>2. Sole(u, r)
    BY <1>1 DEF FreshInv
  <1>3. \A v \in Workers : Carried(v)' \subseteq Carried(v)
    BY DEF Quiet, Carried
  <1> QED BY <1>2, <1>3 DEF Sole, Quiet, lists

\* A step of w that takes out of the processing list only what w knows of,
\* and puts into the queue only what has the claim of something w knows of.
LEMMA FreshMove ==
    ASSUME TypeInv, FreshInv, NEW w \in Workers,
           UNCHANGED <<clock, aged>>,
           \A v \in Workers \ {w} : proc'[v] = proc[v],
           \A x \in Carried(w)' : x \in Carried(w) \/ x \in DOMAIN queue
                                  \/ (x \in DOMAIN processing /\ x.claim <= aged),
           \A x \in DOMAIN processing \ DOMAIN processing' : x \in Carried(w),
           \A x \in DOMAIN queue' :
               x \in DOMAIN queue \/ \E y \in Carried(w) : x.claim = y.claim,
           ~Busy(w)' \/ proc'[w].forced
    PROVE  FreshInv'
  <1> SUFFICES ASSUME NEW u \in Workers, NEW r \in proc'[u].hand,
                      Busy(u)', r.claim > aged, ~proc'[u].forced
               PROVE  Sole(u, r)'
    BY DEF FreshInv
  <1>1. u # w /\ r \in proc[u].hand /\ Busy(u) /\ ~proc[u].forced
    BY DEF Busy
  <1>2. Sole(u, r)
    BY <1>1 DEF FreshInv
  <1>3. \A x \in Carried(w) : x.claim # r.claim
    BY <1>1, <1>2 DEF Sole
  <1>4. r \in DOMAIN processing'
    BY <1>2, <1>3 DEF Sole
  <1>5. \A x \in DOMAIN queue' : x.claim # r.claim
    BY <1>2, <1>3 DEF Sole
  <1>6. ASSUME NEW x \in Carried(w)' PROVE x.claim # r.claim
    <2>1. CASE x \in Carried(w)
      BY <1>3, <2>1
    <2>2. CASE x \in DOMAIN queue
      BY <1>2, <2>2 DEF Sole
    <2>3. CASE x \in DOMAIN processing /\ x.claim <= aged
      <3>1. x \in Payload /\ r \in Payload
        BY <2>3, <1>1, BagsOverIs, WorkerFields DEF TypeInv, Seen
      <3> QED BY <2>3, <3>1, ConstantsAssumption DEF Payload, TypeInv
    <2> QED BY <2>1, <2>2, <2>3
  <1>7. \A v \in Workers \ {u} : \A x \in Carried(v)' : x.claim # r.claim
    BY <1>2, <1>6 DEF Sole, Carried
  <1> QED BY <1>4, <1>5, <1>7 DEF Sole

LEMMA FreshPublish ==
    ASSUME TypeInv, FreshInv, NEW m \in Messages, Publish(m)
    PROVE  FreshInv'
  <1> DEFINE new == [msg |-> m, tries |-> 0, claim |-> 0]
  <1>1. /\ queue' = BagAdd(queue, new) /\ new.claim = 0
        /\ UNCHANGED <<processing, dlq, handled, clock, aged, faults, proc>>
    BY DEF Publish
  <1>2. aged \in Nat
    BY ConstantsAssumption DEF TypeInv
  <1>3. DOMAIN queue' \subseteq DOMAIN queue \cup {new}
    BY <1>1 DEF BagAdd
  <1> HIDE DEF new
  <1> SUFFICES ASSUME NEW u \in Workers, NEW r \in proc[u].hand,
                      Busy(u), r.claim > aged, ~proc[u].forced
               PROVE  Sole(u, r)'
    BY <1>1 DEF FreshInv, Busy
  <1>4. Sole(u, r)
    BY DEF FreshInv
  <1>5. new.claim # r.claim
    BY <1>1, <1>2
  <1> QED BY <1>1, <1>3, <1>4, <1>5 DEF Sole, Carried

LEMMA FreshAge ==
    ASSUME TypeInv, FreshInv, Age
    PROVE  FreshInv'
  <1>1. aged' = aged + 1 /\ UNCHANGED <<lists, proc>>
    BY DEF Age
  <1>2. aged \in Int
    BY ConstantsAssumption DEF TypeInv
  <1> SUFFICES ASSUME NEW u \in Workers, NEW r \in proc[u].hand,
                      Busy(u), r.claim > aged', ~proc[u].forced
               PROVE  Sole(u, r)'
    BY <1>1 DEF FreshInv, Busy
  <1>3. r.claim \in Int
    <2>1. r \in Seen
      BY WorkerFields
    <2> QED BY <2>1, ConstantsAssumption DEF Seen, Payload
  <1>4. Sole(u, r)
    BY <1>1, <1>2, <1>3 DEF FreshInv
  <1> QED BY <1>1, <1>4 DEF Sole, Carried, lists

LEMMA FreshStamp ==
    ASSUME TypeInv, FreshInv, NEW w \in Workers, Stamp(w)
    PROVE  FreshInv'
  <1>1. /\ clock' = clock + 1 /\ UNCHANGED <<queue, aged>>
        /\ \A v \in Workers \ {w} : proc'[v] = proc[v]
    BY StampType
  <1>2. PICK r \in proc[w].hand, s \in Seen' :
                 /\ s.claim = clock + 1
                 /\ DOMAIN processing \subseteq DOMAIN processing' \cup {r}
                 /\ s \in DOMAIN processing'
                 /\ Carried(w)' \subseteq Carried(w) \cup {s}
                 /\ proc'[w].hand = {s} \/ proc'[w].hand = {}
    BY StampType
  <1>3. clock \in Nat
    BY ConstantsAssumption DEF TypeInv
  <1>4. \A x \in Seen : x.claim # s.claim
    BY <1>2, <1>3, ConstantsAssumption DEF Seen, Payload
  <1>5. DOMAIN queue \subseteq Seen
    BY BagsOverIs DEF TypeInv
  <1>6. \A v \in Workers : Carried(v) \subseteq Seen
    BY WorkerFields DEF Carried
  <1> SUFFICES ASSUME NEW u \in Workers, NEW q \in proc'[u].hand,
                      Busy(u)', q.claim > aged, ~proc'[u].forced
               PROVE  Sole(u, q)'
    BY <1>1 DEF FreshInv
  <1>7. CASE u = w
    <2>1. q = s
      BY <1>2, <1>7
    <2>2. \A v \in Workers \ {w} : Carried(v)' = Carried(v)
      BY <1>1 DEF Carried
    <2> QED BY <1>1, <1>2, <1>4, <1>5, <1>6, <1>7, <2>1, <2>2 DEF Sole
  <1>8. CASE u # w
    <2>1. q \in proc[u].hand /\ Busy(u) /\ ~proc[u].forced
      BY <1>1, <1>8 DEF Busy
    <2>2. Sole(u, q) /\ q \in Seen
      BY <2>1, WorkerFields DEF FreshInv
    <2>3. r \in Carried(w)
      BY DEF Carried
    <2>4. q \in DOMAIN processing'
      BY <1>2, <1>8, <2>2, <2>3 DEF Sole
    <2>5. \A v \in Workers \ {u, w} : Carried(v)' = Carried(v)
      BY <1>1 DEF Carried
    <2>6. \A x \in Carried(w)' : x.claim # q.claim
      BY <1>2, <1>4, <1>8, <2>2 DEF Sole
    <2> QED BY <1>1, <2>2, <2>4, <2>5, <2>6 DEF Sole
  <1> QED BY <1>7, <1>8

LEMMA FreshInvStep == TypeInv /\ FreshInv /\ [Next]_vars => FreshInv'
  <1> SUFFICES ASSUME TypeInv, FreshInv, [Next]_vars PROVE FreshInv'
    OBVIOUS
  <1>1. CASE UNCHANGED vars
    BY <1>1 DEF vars, lists, FreshInv, Sole, Busy, Carried
  <1>2. ASSUME NEW w \in Workers,
               \/ Begin(w) \/ Fail(w) \/ Succeed(w) \/ Reclaimed(w) \/ LoopEnds(w)
               \/ NackAll(w) \/ Exit(w) \/ ReclaimError(w) \/ Crash(w) \/ StampError(w)
               \/ Stop(w)
        PROVE  FreshInv'
    <2>1. Quiet(w)
      BY <1>2, BeginType, ExecuteType, ReclaimedType, NackAllType, DownStep, StampErrorType,
         StopType
    <2> QED BY <2>1, FreshQuiet
  <1>3. ASSUME NEW w \in Workers, Ack(w) \/ Nack(w) \/ SettleError(w)
        PROVE  FreshInv'
    <2>1. Settles(w) /\ ~Busy(w)'
      BY <1>3, AckType, NackType, SettleErrorType DEF Settles, Busy
    <2>2. Peeked(w) \subseteq Carried(w)
      BY PeekedIs DEF Carried
    <2>3. \A x \in DOMAIN processing \ DOMAIN processing' : x \in Peeked(w)
      <3>1. CASE Ack(w)
        BY <3>1, AckType
      <3>2. CASE Nack(w)
        BY <3>2, NackType, GiveBackIs, PeekedIs, WorkerFields DEF lists
      <3>3. CASE SettleError(w)
        BY <3>3, SettleErrorType DEF lists
      <3> QED BY <1>3, <3>1, <3>2, <3>3
    <2>4. \A x \in DOMAIN queue' : x \in DOMAIN queue \/ \E y \in Peeked(w) : x.claim = y.claim
      <3>1. CASE Ack(w)
        BY <3>1, AckType
      <3>2. CASE Nack(w)
        BY <3>2, NackType, GiveBackIs, PeekedIs, WorkerFields DEF lists
      <3>3. CASE SettleError(w)
        BY <3>3, SettleErrorType DEF lists
      <3> QED BY <1>3, <3>1, <3>2, <3>3
    <2> QED BY <2>1, <2>2, <2>3, <2>4, FreshMove DEF Settles
  <1>4. ASSUME NEW w \in Workers, Start(w)
        PROVE  FreshInv'
    <2>1. /\ \A x \in Carried(w)' : x \in DOMAIN processing /\ x.claim <= aged
          /\ ~Busy(w)' /\ UNCHANGED <<lists, clock, aged>>
          /\ \A v \in Workers \ {w} : proc'[v] = proc[v]
      BY <1>4, StartType DEF Carried, Busy, Start
    <2> QED BY <2>1, FreshMove DEF lists
  <1>5. ASSUME NEW w \in Workers, NEW r \in DOMAIN proc[w].items, Reclaim(w, r)
        PROVE  FreshInv'
    <2>1. r \in Carried(w) /\ UNCHANGED <<clock, aged>>
      BY <1>5 DEF Carried, Reclaim
    <2>2. Carried(w)' \subseteq Carried(w) /\ ~Busy(w)'
      BY <1>5, ReclaimType DEF Carried, Busy
    <2>3. /\ \A v \in Workers \ {w} : proc'[v] = proc[v]
          /\ \A x \in DOMAIN processing \ DOMAIN processing' : x \in Carried(w)
          /\ \A x \in DOMAIN queue' : x \in DOMAIN queue \/ \E y \in Carried(w) : x.claim = y.claim
      <3>1. /\ \A v \in Workers \ {w} : proc'[v] = proc[v]
            /\ DOMAIN queue' = DOMAIN queue \cup {r}
            /\ DOMAIN processing \subseteq DOMAIN processing' \cup {r}
        BY <1>5, ReclaimType
      <3> QED BY <2>1, <3>1
    <2> QED BY <2>1, <2>2, <2>3, FreshMove
  <1>6. ASSUME NEW w \in Workers, NEW r \in DOMAIN queue, Pop(w, r)
        PROVE  FreshInv'
    <2>1. UNCHANGED <<clock, aged>>
      BY <1>6 DEF Pop
    <2>2. Carried(w)' \subseteq Carried(w) \cup {r} /\ ~Busy(w)'
      BY <1>6, PopType DEF Carried, Busy
    <2>3. /\ \A v \in Workers \ {w} : proc'[v] = proc[v]
          /\ DOMAIN processing \subseteq DOMAIN processing'
          /\ DOMAIN queue' \subseteq DOMAIN queue
      BY <1>6, PopType
    <2> QED BY <2>1, <2>2, <2>3, FreshMove
  <1>7. ASSUME NEW w \in Workers, NEW r \in DOMAIN proc[w].leaving, NackOne(w, r)
        PROVE  FreshInv'
    <2>1. /\ GiveBack(r) /\ UNCHANGED <<clock, aged>> /\ Carried(w)' \subseteq Carried(w)
          /\ \A v \in Workers \ {w} : proc'[v] = proc[v]
          /\ proc'[w].pc = proc[w].pc /\ proc'[w].forced = proc[w].forced
      BY <1>7, NackOneType
    <2>2. ~Busy(w)' \/ proc'[w].forced
      BY <2>1, WorkerFields, EmptyBagIs DEF Sound, Busy
    <2>3. r \in Carried(w) /\ r \in Seen
      BY WorkerFields DEF Carried
    <2>4. /\ \A x \in DOMAIN processing \ DOMAIN processing' : x \in Carried(w)
          /\ \A x \in DOMAIN queue' : x \in DOMAIN queue \/ \E y \in Carried(w) : x.claim = y.claim
      BY <2>1, <2>3, GiveBackIs
    <2> QED BY <2>1, <2>2, <2>4, FreshMove
  <1>8. ASSUME NEW w \in Workers, Stamp(w) PROVE FreshInv'
    BY <1>8, FreshStamp
  <1>9. CASE Age
    BY <1>9, FreshAge
  <1>10. ASSUME NEW m \in Messages, Publish(m) PROVE FreshInv'
    BY <1>10, FreshPublish
  <1> QED BY <1>1, <1>2, <1>3, <1>4, <1>5, <1>6, <1>7, <1>8, <1>9, <1>10, NextCases

(***************************************************************************)
(* reclaim_stuck of a replica that starts takes only claims older than the *)
(* threshold: what another is working on under a fresh claim stays in the  *)
(* processing list, through lost answers, retries and restarts, until its  *)
(* worker is forced to leave.                                              *)
(***************************************************************************)
THEOREM FreshClaimKept == Spec => []FreshClaimStays
  <1> DEFINE Inv == TypeInv /\ FreshInv
  <1>1. Init => Inv
    BY TypeInvInit, FreshInvInit
  <1>2. Inv /\ [Next]_vars => Inv'
    BY TypeInvStep, FreshInvStep
  <1>3. Inv => FreshClaimStays
    BY FreshInvImplies
  <1> QED BY <1>1, <1>2, <1>3, PTL DEF Spec

---------------------------------------------------------------------------
(***************************************************************************)
(* No message is lost.  An acknowledgement takes out the oldest payload in *)
(* flight under the key, which is not always the one just worked on: the   *)
(* execution must have done the work of every payload in flight under its  *)
(* key.  It has when the key is all a message says, and when no error of   *)
(* Redis leaves an older payload in flight.                                *)
(***************************************************************************)
KeysSettle == KeyIsWork \/ "redis" \notin Faults

Covers(w) ==
    /\ \A r \in proc[w].inflight :
          KeyOf[r.msg] = Key(w) =>
              /\ proc[w].pc = "run" => r.msg \in proc[w].covers
              /\ proc[w].pc = "ok" => r.msg \in handled
    /\ "redis" \notin Faults =>
          /\ proc[w].inflight \subseteq proc[w].hand
          /\ proc[w].pc = "popped" => proc[w].inflight = {}

CoverInv == \A w \in Workers : Covers(w)

LEMMA CoverInvInit == Init => CoverInv
  BY DEF Init, CoverInv, Covers, Down

\* The steps of w leave the others' executions covered.
LEMMA CoverOthers ==
    ASSUME CoverInv, NEW w \in Workers, handled \subseteq handled',
           \A v \in Workers \ {w} : proc'[v] = proc[v], Covers(w)'
    PROVE  CoverInv'
  BY DEF CoverInv, Covers, Key

\* What is looked up for the payload in hand, when nothing older is left.
LEMMA PeekedAlone ==
    ASSUME TypeInv, NEW w \in Workers, proc[w].pc \in Holding,
           proc[w].inflight \subseteq proc[w].hand
    PROVE  /\ Peeked(w) = {} => proc[w].inflight = {}
           /\ \A r \in Peeked(w) : proc[w].inflight \ {r} = {}
  <1>1. PICK h \in proc[w].hand : proc[w].hand = {h}
    BY WorkerFields DEF Sound
  <1>2. h \in Seen
    BY <1>1, WorkerFields
  <1>3. Key(w) = KeyOf[h.msg]
    BY <1>1 DEF Key
  <1>4. h.claim <= h.claim
    BY <1>2, ConstantsAssumption DEF Seen, Payload
  <1>5. h \in proc[w].inflight => h \in Peeked(w)
    BY <1>1, <1>3, <1>4 DEF Peeked
  <1> QED BY <1>1, <1>5, PeekedIs

LEMMA CoverSettles ==
    ASSUME TypeInv, CoverInv, NEW w \in Workers, Ack(w) \/ Nack(w) \/ SettleError(w)
    PROVE  CoverInv'
  <1>1. Settles(w)
    BY AckType, NackType, SettleErrorType
  <1>2. proc'[w].pc \notin {"run", "ok", "popped"}
    BY <1>1 DEF Settles
  <1>3. ASSUME "redis" \notin Faults PROVE proc'[w].inflight = {}
    <2>1. proc[w].inflight \subseteq proc[w].hand /\ proc[w].pc \in Holding
      BY <1>1, <1>3 DEF CoverInv, Covers, Settles
    <2>2. \/ Peeked(w) = {} /\ proc'[w].inflight = proc[w].inflight
          \/ \E r \in Peeked(w) : proc'[w].inflight = proc[w].inflight \ {r}
      BY <1>3, AckType, NackType, SettleErrorType
    <2> QED BY <2>1, <2>2, PeekedAlone
  <1>4. Covers(w)'
    BY <1>2, <1>3 DEF Covers
  <1> QED BY <1>1, <1>4, CoverOthers DEF Settles

LEMMA CoverBegin ==
    ASSUME KeysSettle, TypeInv, CoverInv, NEW w \in Workers, Begin(w)
    PROVE  CoverInv'
  <1>1. /\ Quiet(w) /\ UNCHANGED handled /\ proc'[w].pc = "run"
        /\ proc'[w].hand = proc[w].hand /\ proc'[w].inflight = proc[w].inflight
        /\ proc'[w].covers = UNION {Work(r) : r \in proc[w].hand}
    BY BeginType
  <1>2. proc[w].pc = "got"
    BY DEF Begin, At
  <1>3. PICK h \in proc[w].hand : proc[w].hand = {h}
    BY <1>2, WorkerFields DEF Sound, Holding
  <1>4. proc'[w].covers = Work(h) /\ Key(w)' = KeyOf[h.msg]
    BY <1>1, <1>3 DEF Key
  <1>5. ASSUME NEW r \in proc[w].inflight, KeyOf[r.msg] = KeyOf[h.msg]
        PROVE  r.msg \in Work(h)
    <2>1. r.msg \in published
      BY WorkerFields DEF Seen
    <2>2. CASE KeyIsWork
      BY <1>5, <2>1, <2>2 DEF Work
    <2>3. CASE ~KeyIsWork
      <3>1. r = h
        BY <1>3, <2>3 DEF KeysSettle, CoverInv, Covers
      <3> QED BY <2>3, <3>1 DEF Work
    <2> QED BY <2>2, <2>3
  <1>6. Covers(w)'
    BY <1>1, <1>4, <1>5 DEF CoverInv, Covers
  <1> QED BY <1>1, <1>6, CoverOthers DEF Quiet

\* A step that leaves the worker's hand and place, or ends it.
LEMMA CoverKept ==
    ASSUME CoverInv, NEW w \in Workers, handled \subseteq handled',
           \A v \in Workers \ {w} : proc'[v] = proc[v],
           proc'[w].hand = proc[w].hand, proc'[w].inflight \subseteq proc[w].inflight,
           \/ proc'[w].pc = proc[w].pc /\ proc'[w].covers = proc[w].covers
           \/ proc'[w].pc \notin {"run", "ok", "popped"}
    PROVE  CoverInv'
  <1>1. Key(w)' = Key(w)
    BY DEF Key
  <1>2. Covers(w)'
    BY <1>1 DEF CoverInv, Covers
  <1> QED BY <1>2, CoverOthers

LEMMA CoverStamp ==
    ASSUME TypeInv, CoverInv, NEW w \in Workers, Stamp(w)
    PROVE  CoverInv'
  <1>1. proc[w].pc = "popped" /\ UNCHANGED handled
    BY DEF Stamp, At
  <1>2. PICK s \in Seen' :
            \/ /\ proc'[w].pc = "got" /\ proc'[w].hand = {s}
               /\ proc'[w].inflight = proc[w].inflight \cup {s}
            \/ /\ "redis" \in Faults
               /\ proc'[w].pc = "idle" /\ proc'[w].hand = {}
               /\ proc'[w].inflight = proc[w].inflight
    BY StampType
  <1>3. Covers(w)'
    BY <1>1, <1>2 DEF CoverInv, Covers
  <1> QED BY <1>1, <1>3, StampType, CoverOthers

LEMMA CoverPop ==
    ASSUME TypeInv, CoverInv, NEW w \in Workers, NEW r \in DOMAIN queue, Pop(w, r)
    PROVE  CoverInv'
  <1>1. proc[w].pc = "idle" /\ UNCHANGED handled
    BY DEF Pop, At
  <1>2. proc[w].hand = {}
    BY <1>1, WorkerFields DEF Sound, Holding
  <1>3. proc'[w].pc = "popped" /\ proc'[w].inflight = proc[w].inflight
    BY PopType
  <1>4. Covers(w)'
    BY <1>2, <1>3 DEF CoverInv, Covers
  <1> QED BY <1>1, <1>4, PopType, CoverOthers

LEMMA CoverExecute ==
    ASSUME TypeInv, CoverInv, NEW w \in Workers, Fail(w) \/ Succeed(w)
    PROVE  CoverInv'
  <1>1. /\ Quiet(w) /\ handled \subseteq handled' /\ proc[w].pc = "run"
        /\ proc'[w].hand = proc[w].hand /\ proc'[w].inflight = proc[w].inflight
        /\ \/ proc'[w].pc = "failed"
           \/ proc'[w].pc = "ok" /\ handled' = handled \cup proc[w].covers
    BY ExecuteType
  <1>2. Key(w)' = Key(w)
    BY <1>1 DEF Key
  <1>3. Covers(w)'
    BY <1>1, <1>2 DEF CoverInv, Covers
  <1> QED BY <1>1, <1>3, CoverOthers DEF Quiet

LEMMA CoverInvStep ==
    ASSUME KeysSettle
    PROVE  TypeInv /\ CoverInv /\ [Next]_vars => CoverInv'
  <1> SUFFICES ASSUME TypeInv, CoverInv, [Next]_vars PROVE CoverInv'
    OBVIOUS
  <1>1. CASE UNCHANGED vars
    BY <1>1 DEF vars, CoverInv, Covers, Key
  <1>2. CASE \/ \E m \in Messages : Publish(m)
             \/ Age
    BY <1>2 DEF Publish, Age, CoverInv, Covers, Key
  <1>3. ASSUME NEW w \in Workers, Exit(w) \/ ReclaimError(w) \/ Crash(w)
        PROVE  CoverInv'
    <2>1. proc'[w] = Down /\ Quiet(w) /\ UNCHANGED handled
      BY <1>3, DownStep
    <2>2. Covers(w)'
      BY <2>1 DEF Covers, Down
    <2> QED BY <2>1, <2>2, CoverOthers DEF Quiet
  <1>4. ASSUME NEW w \in Workers, Start(w)
        PROVE  CoverInv'
    <2>1. Covers(w)' /\ UNCHANGED handled
      BY <1>4, StartType DEF Covers, Start
    <2> QED BY <1>4, <2>1, StartType, CoverOthers
  <1>5. ASSUME NEW w \in Workers, NEW r \in DOMAIN proc[w].items, Reclaim(w, r)
        PROVE  CoverInv'
    <2>1. UNCHANGED handled
      BY <1>5 DEF Reclaim
    <2> QED BY <1>5, <2>1, ReclaimType, CoverKept
  <1>6. ASSUME NEW w \in Workers, Reclaimed(w) \/ LoopEnds(w)
        PROVE  CoverInv'
    BY <1>6, ReclaimedType, CoverKept DEF Quiet
  <1>7. ASSUME NEW w \in Workers, Stop(w) \/ NackAll(w)
        PROVE  CoverInv'
    BY <1>7, StopType, NackAllType, CoverKept DEF Quiet
  <1>8. ASSUME NEW w \in Workers, NEW r \in DOMAIN proc[w].leaving, NackOne(w, r)
        PROVE  CoverInv'
    BY <1>8, NackOneType, CoverKept
  <1>9. ASSUME NEW w \in Workers, StampError(w)
        PROVE  CoverInv'
    <2>1. "redis" \in Faults
      BY <1>9 DEF StampError, Occurs
    <2>2. Covers(w)' /\ Quiet(w) /\ UNCHANGED handled
      BY <1>9, <2>1, StampErrorType DEF Covers
    <2> QED BY <2>2, CoverOthers DEF Quiet
  <1>10. ASSUME NEW w \in Workers, Begin(w) PROVE CoverInv'
    BY <1>10, CoverBegin
  <1>11. ASSUME NEW w \in Workers, Fail(w) \/ Succeed(w) PROVE CoverInv'
    BY <1>11, CoverExecute
  <1>12. ASSUME NEW w \in Workers, Ack(w) \/ Nack(w) \/ SettleError(w) PROVE CoverInv'
    BY <1>12, CoverSettles
  <1>13. ASSUME NEW w \in Workers, Stamp(w) PROVE CoverInv'
    BY <1>13, CoverStamp
  <1>14. ASSUME NEW w \in Workers, NEW r \in DOMAIN queue, Pop(w, r) PROVE CoverInv'
    BY <1>14, CoverPop
  <1> QED BY <1>1, <1>2, <1>3, <1>4, <1>5, <1>6, <1>7, <1>8, <1>9, <1>10, <1>11, <1>12, <1>13,
             <1>14, NextCases

\* What a step takes out of a list it puts into another, unless the work has
\* been done.
LEMMA NothingLostBy ==
    ASSUME NothingLost, UNCHANGED published, handled \subseteq handled',
           \A x \in DOMAIN queue \cup DOMAIN processing \cup DOMAIN dlq :
               \/ x.msg \in handled
               \/ Holds(queue', x.msg) \/ Holds(processing', x.msg) \/ Holds(dlq', x.msg)
    PROVE  NothingLost'
  BY DEF NothingLost, Holds

LEMMA NothingLostGiveBack ==
    ASSUME TypeInv, NothingLost, NEW r \in Seen, GiveBack(r), UNCHANGED <<published, handled>>
    PROVE  NothingLost'
  BY GiveBackIs, NothingLostBy DEF Holds

LEMMA NothingLostStep ==
    TypeInv /\ CoverInv /\ NothingLost /\ [Next]_vars => NothingLost'
  <1> SUFFICES ASSUME TypeInv, CoverInv, NothingLost, [Next]_vars PROVE NothingLost'
    OBVIOUS
  <1>1. CASE UNCHANGED vars
    BY <1>1 DEF vars, lists, NothingLost, Holds
  <1>2. ASSUME NEW m \in Messages, Publish(m)
        PROVE  NothingLost'
    <2> DEFINE new == [msg |-> m, tries |-> 0, claim |-> 0]
    <2>1. /\ queue' = BagAdd(queue, new) /\ new.msg = m /\ published' = published \cup {m}
          /\ UNCHANGED <<processing, dlq, handled>>
      BY <1>2 DEF Publish
    <2> HIDE DEF new
    <2>2. DOMAIN queue' = DOMAIN queue \cup {new}
      BY <2>1 DEF BagAdd
    <2> QED BY <2>1, <2>2 DEF NothingLost, Holds
  <1>3. ASSUME NEW w \in Workers,
               \/ Begin(w) \/ Fail(w) \/ Succeed(w) \/ Reclaimed(w) \/ LoopEnds(w)
               \/ NackAll(w) \/ Exit(w) \/ ReclaimError(w) \/ Crash(w) \/ StampError(w)
               \/ Stop(w)
        PROVE  NothingLost'
    <2>1. UNCHANGED <<lists, published>> /\ handled \subseteq handled'
      BY <1>3, BeginType, ExecuteType, ReclaimedType, NackAllType, DownStep, StampErrorType,
         StopType DEF Quiet
    <2> QED BY <2>1 DEF NothingLost, Holds, lists
  <1>4. CASE Age \/ \E w \in Workers : Start(w) \/ SettleError(w)
    BY <1>4 DEF Age, Start, SettleError, NothingLost, Holds, lists
  <1>5. ASSUME NEW w \in Workers, NEW r \in DOMAIN proc[w].items, Reclaim(w, r)
        PROVE  NothingLost'
    <2>1. UNCHANGED <<published, handled, dlq>>
      BY <1>5 DEF Reclaim
    <2>2. /\ DOMAIN queue' = DOMAIN queue \cup {r}
          /\ DOMAIN processing \subseteq DOMAIN processing' \cup {r}
      BY <1>5, ReclaimType
    <2> QED BY <2>1, <2>2 DEF NothingLost, Holds
  <1>6. ASSUME NEW w \in Workers, NEW r \in DOMAIN queue, Pop(w, r)
        PROVE  NothingLost'
    <2>1. UNCHANGED <<published, handled, dlq>>
      BY <1>6 DEF Pop
    <2>2. /\ DOMAIN queue \subseteq DOMAIN queue' \cup {r}
          /\ DOMAIN processing' = DOMAIN processing \cup {r}
      BY <1>6, PopType
    <2> QED BY <2>1, <2>2 DEF NothingLost, Holds
  <1>7. ASSUME NEW w \in Workers, Stamp(w)
        PROVE  NothingLost'
    <2>1. PICK r \in proc[w].hand, s \in Seen' :
              /\ s.msg = r.msg /\ s \in DOMAIN processing'
              /\ DOMAIN processing \subseteq DOMAIN processing' \cup {r}
      BY <1>7, StampType
    <2>2. UNCHANGED <<queue, published, handled, dlq>>
      BY <1>7, StampType
    <2> QED BY <2>1, <2>2 DEF NothingLost, Holds
  <1>8. ASSUME NEW w \in Workers, Ack(w)
        PROVE  NothingLost'
    <2>1. /\ proc[w].pc = "ok" /\ UNCHANGED <<queue, dlq, published, handled>>
          /\ \A x \in DOMAIN processing \ DOMAIN processing' : x \in Peeked(w)
      BY <1>8, AckType DEF Settles
    <2>2. \A r \in Peeked(w) : r.msg \in handled
      BY <2>1 DEF Peeked, CoverInv, Covers
    <2> QED BY <2>1, <2>2, NothingLostBy DEF Holds
  <1>9. ASSUME NEW w \in Workers, Nack(w)
        PROVE  NothingLost'
    <2>1. UNCHANGED <<published, handled>> /\ (UNCHANGED lists \/ \E r \in Peeked(w) : GiveBack(r))
      BY <1>9, NackType DEF Settles
    <2>2. Peeked(w) \subseteq Seen
      BY PeekedIs, WorkerFields
    <2>3. CASE UNCHANGED lists
      BY <2>1, <2>3 DEF NothingLost, Holds, lists
    <2> QED BY <2>1, <2>2, <2>3, NothingLostGiveBack
  <1>10. ASSUME NEW w \in Workers, NEW r \in DOMAIN proc[w].leaving, NackOne(w, r)
         PROVE  NothingLost'
    <2>1. GiveBack(r) /\ UNCHANGED <<published, handled>> /\ r \in Seen
      BY <1>10, NackOneType, WorkerFields
    <2> QED BY <2>1, NothingLostGiveBack
  <1> QED BY <1>1, <1>2, <1>3, <1>4, <1>5, <1>6, <1>7, <1>8, <1>9, <1>10, NextCases

(***************************************************************************)
(* A published message stays in one of the lists until its work has been   *)
(* done, whatever crashes, stops and errors of Redis happen, in the queues *)
(* whose key is all a message says (ai-process, user-embed, user-rematch), *)
(* and in ac-batch as long as Redis does not fail.                         *)
(***************************************************************************)
THEOREM NoMessageLost ==
    ASSUME KeyIsWork \/ "redis" \notin Faults
    PROVE  Spec => []NothingLost
  <1> DEFINE Inv == TypeInv /\ CoverInv /\ NothingLost
  <1>1. Init => Inv
    BY TypeInvInit, CoverInvInit DEF Init, NothingLost
  <1>2. Inv /\ [Next]_vars => Inv'
    <2>1. KeysSettle
      BY DEF KeysSettle
    <2> QED BY <2>1, TypeInvStep, CoverInvStep, NothingLostStep
  <1>3. Inv => NothingLost
    OBVIOUS
  <1> QED BY <1>1, <1>2, <1>3, PTL DEF Spec
=============================================================================
