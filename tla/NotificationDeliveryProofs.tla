--------------------- MODULE NotificationDeliveryProofs ---------------------
(***************************************************************************)
(* Theorems about what backend-notifier does: NotificationDelivery, for    *)
(* every value of its constants, and the breaker of the Telegram client    *)
(* it sends with, TelegramBreaker, at the end.                             *)
(***************************************************************************)
EXTENDS NotificationDelivery, TelegramBreaker, FiniteSetTheorems, TLAPS

\* Giving one process another local state keeps loc well typed.
LEMMA BecomesType ==
    ASSUME loc \in [Procs -> Local], NEW p \in Procs, NEW l \in Local,
           Becomes(p, l)
    PROVE  loc' \in [Procs -> Local]
BY DEF Becomes

\* It changes that state and no other.
LEMMA BecomesIs ==
    ASSUME loc \in [Procs -> Local], NEW p \in Procs, NEW l, Becomes(p, l)
    PROVE  /\ loc'[p] = l
           /\ \A q \in Procs \ {p} : loc'[q] = loc[q]
BY DEF Becomes

\* The idle state is a local state.
LEMMA IdleType == Idle \in Local
BY DEF Idle, Local, Labels

\* So Goto, Finish and Return keep it well typed too.
LEMMA GotoType ==
    ASSUME loc \in [Procs -> Local], NEW p \in Procs, NEW label \in Labels,
           Goto(p, label)
    PROVE  loc' \in [Procs -> Local]
<1>1. [loc[p] EXCEPT !.pc = label] \in Local
  BY DEF Local
<1> QED
  BY <1>1, BecomesType DEF Goto

LEMMA FinishType ==
    ASSUME loc \in [Procs -> Local], NEW p \in Procs, Finish(p)
    PROVE  loc' \in [Procs -> Local]
BY IdleType, BecomesType DEF Finish

LEMMA ReturnType ==
    ASSUME loc \in [Procs -> Local], NEW v \in {"ack", "nack", "requeue"},
           Return(v)
    PROVE  loc' \in [Procs -> Local]
<1>1. "batch" \in Procs
  BY DEF Procs
<1>2. [loc["batch"] EXCEPT !.pc = "settle", !.verdict = v] \in Local
  BY <1>1 DEF Local, Labels
<1> QED
  BY <1>1, <1>2, BecomesType DEF Return

\* A count of rows is a natural number.
LEMMA CountType == CountToday \in Nat
<1>1. IsFiniteSet(InStatus({"dispatched", "sent"}) \cap today)
  BY ConstantsAssumption, FS_Subset DEF InStatus
<1> QED
  BY <1>1, FS_CardinalityType DEF CountToday

\* The statements on the table keep its columns well typed.
LEMMA StatementTypes ==
    ASSUME TypeOK, NEW j \in Jobs, NEW S \in SUBSET Jobs,
           NEW from \in Statuses,
           \/ MarkDispatched(j) \/ MarkSent(j) \/ MarkFailed(j)
           \/ MarkMissed(j) \/ EnsurePending(j)
           \/ DeleteRows(S) \/ BackToPending(S, from)
           \/ UNCHANGED table
    PROVE  /\ row' \in [Jobs -> Statuses]
           /\ today' \subseteq Jobs
           /\ oldClaims' \subseteq Jobs
<1> USE DEF TypeOK, Statuses
<1>1. CASE MarkDispatched(j)  BY <1>1 DEF MarkDispatched, table
<1>2. CASE MarkSent(j)        BY <1>2 DEF MarkSent, table
<1>3. CASE MarkFailed(j)      BY <1>3 DEF MarkFailed, table
<1>4. CASE MarkMissed(j)      BY <1>4 DEF MarkMissed, table
<1>5. CASE EnsurePending(j)   BY <1>5 DEF EnsurePending, table
<1>6. CASE DeleteRows(S)      BY <1>6 DEF DeleteRows
<1>7. CASE BackToPending(S, from)  BY <1>7 DEF BackToPending
<1>8. CASE UNCHANGED table    BY <1>8 DEF table
<1> QED
  BY <1>1, <1>2, <1>3, <1>4, <1>5, <1>6, <1>7, <1>8

\* What the user's chat has received stays between 0 and 2.
LEMMA ReachesType ==
    ASSUME TypeOK, NEW p \in Procs, NEW n \in 0 .. 2, Reaches(p, n)
    PROVE  delivered' \in [Jobs -> 0 .. 2]
BY DEF TypeOK, Reaches

-----------------------------------------------------------------------------
(* What the steps of the main loop do to its local state.                  *)

B == loc["batch"]

LEMMA BatchLocal ==
    ASSUME TypeOK
    PROVE  /\ "batch" \in Procs
           /\ loc \in [Procs -> Local]
           /\ B \in Local
BY DEF TypeOK, Procs, B

LEMMA ReturnFields ==
    ASSUME TypeOK, NEW v, Return(v)
    PROVE  B'.pc = "settle" /\ B'.msg = B.msg /\ B'.picked = B.picked /\ B'.verdict = v
<1>1. B' = [B EXCEPT !.pc = "settle", !.verdict = v]
  BY BatchLocal, BecomesIs DEF Return, B
<1> QED
  BY <1>1, BatchLocal DEF Local

LEMMA GotoFields ==
    ASSUME TypeOK, NEW label, Goto("batch", label)
    PROVE  /\ B'.pc = label /\ B'.msg = B.msg
           /\ B'.picked = B.picked /\ B'.todo = B.todo
           /\ B'.room = B.room /\ B'.verdict = B.verdict
<1>1. B' = [B EXCEPT !.pc = label]
  BY BatchLocal, BecomesIs DEF Goto, B
<1> QED
  BY <1>1, BatchLocal DEF Local

LEMMA LoadFields ==
    ASSUME TypeOK, LoadBatch
    PROVE  /\ B'.msg = B.msg
           /\ \/ B'.pc = "settle" /\ paused
              \/ /\ B'.pc = "ensure" /\ B'.picked = B.picked /\ B'.drop = B.drop
                 /\ B'.room = DailyCap[plan]
                 /\ \E m \in B.msg :
                       B'.todo = {j \in JobsOf[m] : job[j] # "expired"}
<1>1. CASE paused
  BY <1>1, ReturnFields DEF LoadBatch
<1>2. CASE ~paused
  <2> PICK m \in B.msg :
        Becomes("batch", [B EXCEPT
           !.pc = "ensure",
           !.todo = {j \in JobsOf[m] : job[j] # "expired"},
           !.seen = {j \in Jobs : job[j] = "fresh"},
           !.room = DailyCap[plan]])
    BY <1>2 DEF LoadBatch, B
  <2>1. B' = [B EXCEPT
           !.pc = "ensure",
           !.todo = {j \in JobsOf[m] : job[j] # "expired"},
           !.seen = {j \in Jobs : job[j] = "fresh"},
           !.room = DailyCap[plan]]
    BY BatchLocal, BecomesIs DEF B
  <2> QED
    BY <2>1, BatchLocal DEF Local
<1> QED
  BY <1>1, <1>2

LEMMA EnsureFields ==
    ASSUME TypeOK, NEW j \in Jobs, Ensure(j)
    PROVE  /\ B'.pc = "ensure" /\ B'.msg = B.msg /\ B'.seen = B.seen
           /\ B'.room = B.room /\ B'.todo = B.todo \ {j}
           /\ B'.picked = B.picked \cup (({j} \cap InStatus(Sendable)) \cap B.seen)
           /\ B'.drop = ({j} \cap InStatus(Sendable)) \ B.seen
<1> DEFINE send == {j} \cap InStatus(Sendable)
<1>1. B' = [B EXCEPT !.todo = @ \ {j},
                     !.picked = @ \cup (send \cap B.seen),
                     !.drop = send \ B.seen]
  BY BatchLocal, BecomesIs DEF Ensure, B
<1>2. B.pc = "ensure"
  BY DEF Ensure, At, B
<1> HIDE DEF send
<1>3. /\ B'.pc = "ensure" /\ B'.msg = B.msg /\ B'.seen = B.seen
      /\ B'.room = B.room /\ B'.todo = B.todo \ {j}
      /\ B'.picked = B.picked \cup (send \cap B.seen)
      /\ B'.drop = send \ B.seen
  BY <1>1, <1>2, BatchLocal DEF Local
<1> QED
  BY <1>3 DEF send

LEMMA DropFields ==
    ASSUME TypeOK, DropStaleItem
    PROVE  /\ B'.pc = "ensure" /\ B'.msg = B.msg /\ B'.seen = B.seen
           /\ B'.picked = B.picked /\ B'.drop = {}
           /\ B'.room = B.room /\ B'.todo = B.todo
<1>1. B' = [B EXCEPT !.drop = {}]
  BY BatchLocal, BecomesIs DEF DropStaleItem, B
<1>2. B.pc = "ensure"
  BY DEF DropStaleItem, At, B
<1> QED
  BY <1>1, <1>2, BatchLocal DEF Local

LEMMA CountFields ==
    ASSUME TypeOK, CountBatch
    PROVE  /\ B'.pc = "missed" /\ B'.msg = B.msg
           /\ B'.picked \subseteq B.picked
           /\ B'.picked \in UpTo(B.room - CountToday, B.picked)
           /\ B'.todo = B.picked \ B'.picked
<1> PICK keep \in UpTo(B.room - CountToday, B.picked) :
      Becomes("batch", [B EXCEPT !.pc = "missed", !.picked = keep,
                                 !.todo = B.picked \ keep])
  BY DEF CountBatch, B
<1>1. B' = [B EXCEPT !.pc = "missed", !.picked = keep,
                     !.todo = B.picked \ keep]
  BY BatchLocal, BecomesIs DEF B
<1>2. keep \subseteq B.picked
  BY DEF UpTo
<1> QED
  BY <1>1, <1>2, BatchLocal DEF Local

\* One item less to visit: MissItem, FailItem, and Dispatch and SentItem.
LEMMA VisitFields ==
    ASSUME TypeOK, NEW j,
           Becomes("batch", [B EXCEPT !.todo = @ \ {j}])
    PROVE  /\ B'.pc = B.pc /\ B'.msg = B.msg
           /\ B'.picked = B.picked /\ B'.todo = B.todo \ {j}
           /\ B'.room = B.room /\ B'.verdict = B.verdict
<1>1. B' = [B EXCEPT !.todo = @ \ {j}]
  BY BatchLocal, BecomesIs DEF B
<1> QED
  BY <1>1, BatchLocal DEF Local

LEMMA MissDoneFields ==
    ASSUME TypeOK, MissDone
    PROVE  /\ B'.msg = B.msg /\ B'.picked = B.picked
           /\ \/ B'.pc = "settle"
              \/ B'.pc = "dispatch" /\ B'.todo = B.picked
<1>1. CASE B.picked = {}
  BY <1>1, ReturnFields DEF MissDone, B
<1>2. CASE B.picked # {}
  <2>1. B' = [B EXCEPT !.pc = "dispatch", !.todo = B.picked]
    BY <1>2, BatchLocal, BecomesIs DEF MissDone, B
  <2> QED
    BY <2>1, BatchLocal DEF Local
<1> QED
  BY <1>1, <1>2

LEMMA DispatchErrorFields ==
    ASSUME TypeOK, DispatchError
    PROVE  /\ B'.pc = "fail" /\ B'.msg = B.msg
           /\ B'.picked = B.picked /\ B'.todo = B.picked \ B.todo
           /\ B'.verdict # "ack"
<1>1. B' = [B EXCEPT !.pc = "fail", !.todo = B.picked \ @,
                     !.verdict = "nack"]
  BY BatchLocal, BecomesIs DEF DispatchError, B
<1> QED
  BY <1>1, BatchLocal DEF Local

-----------------------------------------------------------------------------
\* What keeps the retry counts in their range: a message with too many is in
\* the DLQ, and the message in hand is in the processing list.
HandInv ==
    /\ \A m \in Messages : retries[m] > MaxRetries => inbox[m] = "dlq"
    /\ \A m \in loc["batch"].msg : inbox[m] = "processing"
    /\ At("batch", "recover") => loc["batch"].msg = {}

\* Every step of the main loop keeps the types.
LEMMA BatchType ==
    ASSUME TypeOK, HandInv, BatchStep
    PROVE  TypeOK'
<1>b. "batch" \in Procs
  BY DEF Procs
<1>t. loc \in [Procs -> Local] /\ loc["batch"] \in Local
  BY <1>b DEF TypeOK
<1> USE <1>b, <1>t
<1>1. CASE \E m \in Messages : Pop(m)
  <2> PICK m \in Messages : Pop(m)
    BY <1>1
  <2>1. [loc["batch"] EXCEPT !.pc = "load", !.msg = {m}] \in Local
    BY DEF Local, Labels
  <2>2. loc' \in [Procs -> Local]
    BY <2>1, BecomesType DEF Pop
  <2> QED
    BY <2>2 DEF Pop, TypeOK, world, table, Lists
<1>2. CASE LoadBatch
  <2>1. loc' \in [Procs -> Local]
    <3>1. CASE paused
      BY <1>2, <3>1, ReturnType DEF LoadBatch
    <3>2. CASE ~paused
      <4> PICK m \in loc["batch"].msg :
            Becomes("batch", [loc["batch"] EXCEPT
               !.pc = "ensure",
               !.todo = {j \in JobsOf[m] : job[j] # "expired"},
               !.seen = {j \in Jobs : job[j] = "fresh"},
               !.room = DailyCap[plan]])
        BY <1>2, <3>2 DEF LoadBatch
      <4>1. m \in Messages
        BY DEF Local
      <4>2. {j \in JobsOf[m] : job[j] # "expired"} \in SUBSET Jobs
        BY <4>1, ConstantsAssumption
      <4>3. DailyCap[plan] \in Nat
        BY ConstantsAssumption DEF TypeOK
      <4>4. [loc["batch"] EXCEPT
               !.pc = "ensure",
               !.todo = {j \in JobsOf[m] : job[j] # "expired"},
               !.seen = {j \in Jobs : job[j] = "fresh"},
               !.room = DailyCap[plan]] \in Local
        BY <4>2, <4>3 DEF Local, Labels
      <4> QED
        BY <4>4, BecomesType
    <3> QED
      BY <3>1, <3>2
  <2> QED
    BY <1>2, <2>1 DEF LoadBatch, TypeOK, world, table, broker
<1>3. CASE DropStaleItem
  <2>1. [loc["batch"] EXCEPT !.drop = {}] \in Local
    BY DEF Local
  <2>2. loc' \in [Procs -> Local]
    BY <1>3, <2>1, BecomesType DEF DropStaleItem
  <2>3. DeleteRows(loc["batch"].drop) \/ UNCHANGED table
    BY <1>3 DEF DropStaleItem
  <2>4. loc["batch"].drop \in SUBSET Jobs
    BY DEF Local
  <2>5. row' \in [Jobs -> Statuses] /\ today' \subseteq Jobs /\ oldClaims' \subseteq Jobs
    BY <2>3, <2>4 DEF DeleteRows, TypeOK, Statuses, table
  <2> QED
    BY <1>3, <2>2, <2>5 DEF DropStaleItem, TypeOK, world, broker
<1>4. CASE EnsureDone
  <2>1. loc' \in [Procs -> Local]
    BY <1>4, ReturnType, GotoType DEF EnsureDone, Labels
  <2> QED
    BY <1>4, <2>1 DEF EnsureDone, TypeOK, world, table, broker
<1>5. CASE CountBatch
  <2> PICK keep \in UpTo(loc["batch"].room - CountToday, loc["batch"].picked) :
        Becomes("batch", [loc["batch"] EXCEPT !.pc = "missed",
                             !.picked = keep,
                             !.todo = loc["batch"].picked \ keep])
    BY <1>5 DEF CountBatch
  <2>1. keep \in SUBSET Jobs
    BY DEF UpTo, Local
  <2>2. [loc["batch"] EXCEPT !.pc = "missed",
                             !.picked = keep,
                             !.todo = loc["batch"].picked \ keep] \in Local
    BY <2>1 DEF Local, Labels
  <2>3. loc' \in [Procs -> Local]
    BY <2>2, BecomesType
  <2> QED
    BY <1>5, <2>3 DEF CountBatch, TypeOK, world, table, broker
<1>6. CASE MissDone
  <2>1. [loc["batch"] EXCEPT !.pc = "dispatch", !.todo = loc["batch"].picked]
            \in Local
    BY DEF Local, Labels
  <2>2. loc' \in [Procs -> Local]
    BY <1>6, <2>1, ReturnType, BecomesType DEF MissDone
  <2> QED
    BY <1>6, <2>2 DEF MissDone, TypeOK, world, table, broker
<1>7. CASE BatchError
  <2>1. loc' \in [Procs -> Local]
    BY <1>7, ReturnType DEF BatchError
  <2> QED
    BY <1>7, <2>1 DEF BatchError, TypeOK, world, table, broker
<1>8. CASE DispatchError
  <2>1. [loc["batch"] EXCEPT !.pc = "fail", !.todo = loc["batch"].picked \ @,
                             !.verdict = "nack"] \in Local
    BY DEF Local, Labels
  <2>2. loc' \in [Procs -> Local]
    BY <1>8, <2>1, BecomesType DEF DispatchError
  <2> QED
    BY <1>8, <2>2 DEF DispatchError, TypeOK, world, table, broker
<1>9. CASE FailDone
  <2>1. loc' \in [Procs -> Local]
    BY <1>9, GotoType DEF FailDone, Labels
  <2> QED
    BY <1>9, <2>1 DEF FailDone, TypeOK, world, table, broker
<1>10. CASE Ack
  <2>1. loc' \in [Procs -> Local]
    BY <1>10, FinishType DEF Ack
  <2> QED
    BY <1>10, <2>1 DEF Ack, TypeOK, Lists, world, table
<1>11. CASE Nack
  <2> PICK m \in loc["batch"].msg :
          /\ retries' = [retries EXCEPT ![m] = @ + 1]
          /\ inbox' = [inbox EXCEPT ![m] = IF retries[m] + 1 > MaxRetries
                                           THEN "dlq" ELSE "queue"]
    BY <1>11 DEF Nack
  <2>1. loc' \in [Procs -> Local]
    BY <1>11, FinishType DEF Nack
  <2>2. m \in Messages /\ inbox[m] = "processing"
    BY DEF HandInv, Local
  <2>3. retries[m] + 1 \in 0 .. MaxRetries + 1
    BY <2>2, ConstantsAssumption DEF TypeOK, HandInv
  <2>4. /\ retries' \in [Messages -> 0 .. MaxRetries + 1]
        /\ inbox' \in [Messages -> Lists]
    BY <2>3 DEF TypeOK, Lists
  <2> QED
    BY <1>11, <2>1, <2>4 DEF Nack, TypeOK, world, table
<1>12. CASE Requeue
  <2>1. loc' \in [Procs -> Local]
    BY <1>12, FinishType DEF Requeue
  <2> QED
    BY <1>12, <2>1 DEF Requeue, TypeOK, Lists, world, table
<1>13. CASE GiveBackError
  <2>1. [Idle EXCEPT !.pc = "recover"] \in Local
    BY IdleType DEF Local, Labels
  <2>2. loc' \in [Procs -> Local]
    BY <1>13, <2>1, BecomesType DEF GiveBackError
  <2> QED
    BY <1>13, <2>2 DEF GiveBackError, TypeOK, world, table, broker
<1>14. CASE Recover
  <2>1. loc' \in [Procs -> Local]
    BY <1>14, FinishType DEF Recover
  <2> QED
    BY <1>14, <2>1 DEF Recover, TypeOK, Lists, world, table
<1>15. CASE \E j \in Jobs : Ensure(j) \/ MissItem(j) \/ FailItem(j)
  <2> PICK j \in Jobs : Ensure(j) \/ MissItem(j) \/ FailItem(j)
    BY <1>15
  <2>1. /\ row' \in [Jobs -> Statuses]
        /\ today' \subseteq Jobs
        /\ oldClaims' \subseteq Jobs
    BY StatementTypes DEF Ensure, MissItem, FailItem, Statuses
  <2>2. loc' \in [Procs -> Local]
    <3>1. [loc["batch"] EXCEPT !.todo = @ \ {j}] \in Local
      BY DEF Local
    <3>2. ASSUME NEW send \in SUBSET Jobs
          PROVE  [loc["batch"] EXCEPT
                    !.todo = @ \ {j},
                    !.picked = @ \cup (send \cap loc["batch"].seen),
                    !.drop = send \ loc["batch"].seen] \in Local
      BY DEF Local
    <3>3. {j} \cap InStatus(Sendable) \in SUBSET Jobs
      OBVIOUS
    <3>4. CASE Ensure(j)
      BY <3>2, <3>3, <3>4, BecomesType DEF Ensure
    <3> QED
      BY <3>1, <3>4, BecomesType DEF MissItem, FailItem
  <2> QED
    BY <2>1, <2>2 DEF Ensure, MissItem, FailItem, TypeOK, world, broker
<1> QED
  BY <1>1, <1>2, <1>3, <1>4, <1>5, <1>6, <1>7, <1>8, <1>9, <1>10, <1>11,
     <1>12, <1>13, <1>14, <1>15 DEF BatchStep

\* Every step of the main loop keeps HandInv.
LEMMA BatchHand ==
    ASSUME TypeOK, HandInv, BatchStep
    PROVE  HandInv'
<1>b. "batch" \in Procs
  BY DEF Procs
<1>t. /\ loc \in [Procs -> Local]
      /\ loc["batch"] \in Local
      /\ loc["batch"].msg \subseteq Messages
  BY <1>b DEF TypeOK, Local
<1> USE <1>b, <1>t DEF HandInv, At
<1>1. CASE \E m \in Messages : Pop(m)
  <2> PICK m \in Messages : Pop(m)
    BY <1>1
  <2> QED
    BY DEF Pop, Becomes, TypeOK, Local
<1>2. CASE Ack
  BY <1>2 DEF Ack, Finish, Becomes, Idle, TypeOK
<1>3. CASE Nack
  <2>1. loc'["batch"] = Idle
    BY <1>3 DEF Nack, Finish, Becomes
  <2> PICK m \in loc["batch"].msg :
          /\ retries' = [retries EXCEPT ![m] = @ + 1]
          /\ inbox' = [inbox EXCEPT ![m] = IF retries[m] + 1 > MaxRetries
                                           THEN "dlq" ELSE "queue"]
    BY <1>3 DEF Nack
  <2>2. \A n \in Messages : retries'[n] > MaxRetries => inbox'[n] = "dlq"
    BY DEF TypeOK
  <2> QED
    BY <2>1, <2>2 DEF Idle
<1>4. CASE Requeue
  BY <1>4 DEF Requeue, Finish, Becomes, Idle, TypeOK
<1>5. CASE GiveBackError
  BY <1>5 DEF GiveBackError, Becomes, Idle, broker
<1>6. CASE Recover
  BY <1>6 DEF Recover, Finish, Becomes, Idle, TypeOK
<1>7. CASE \/ LoadBatch \/ DropStaleItem \/ EnsureDone \/ CountBatch
           \/ MissDone \/ BatchError \/ DispatchError \/ FailDone
           \/ \E j \in Jobs : Ensure(j) \/ MissItem(j) \/ FailItem(j)
  <2>1. UNCHANGED broker
    BY <1>7 DEF LoadBatch, DropStaleItem, EnsureDone, CountBatch, MissDone,
         BatchError, DispatchError, FailDone, Ensure, MissItem, FailItem
  <2>2. /\ loc'["batch"].msg = loc["batch"].msg
        /\ loc'["batch"].pc # "recover"
    <3>1. CASE LoadBatch
      BY <3>1, LoadFields DEF B
    <3>2. CASE DropStaleItem
      BY <3>2, DropFields DEF B
    <3>3. CASE EnsureDone
      BY <3>3, ReturnFields, GotoFields DEF EnsureDone, B
    <3>4. CASE CountBatch
      BY <3>4, CountFields DEF B
    <3>5. CASE MissDone
      BY <3>5, MissDoneFields DEF B
    <3>6. CASE BatchError
      BY <3>6, ReturnFields DEF BatchError, B
    <3>7. CASE DispatchError
      BY <3>7, DispatchErrorFields DEF B
    <3>8. CASE FailDone
      BY <3>8, GotoFields DEF FailDone, B
    <3>9. CASE \E j \in Jobs : Ensure(j) \/ MissItem(j) \/ FailItem(j)
      <4> PICK j \in Jobs : Ensure(j) \/ MissItem(j) \/ FailItem(j)
        BY <3>9
      <4>1. CASE Ensure(j)
        BY <4>1, EnsureFields DEF B
      <4>2. CASE MissItem(j) \/ FailItem(j)
        BY <4>2, VisitFields DEF MissItem, FailItem, B
      <4> QED
        BY <4>1, <4>2
    <3> QED
      BY <1>7, <3>1, <3>2, <3>3, <3>4, <3>5, <3>6, <3>7, <3>8, <3>9
  <2> QED
    BY <2>1, <2>2 DEF broker
<1> QED
  BY <1>1, <1>2, <1>3, <1>4, <1>5, <1>6, <1>7 DEF BatchStep

-----------------------------------------------------------------------------
(* The steps of the crons, of the deliveries and of the environment.       *)

\* Every step of a cron keeps the types.
LEMMA CronType ==
    ASSUME TypeOK, NEW p \in Crons, CronStep(p)
    PROVE  TypeOK'
<1>t. /\ p \in Procs
      /\ loc \in [Procs -> Local]
      /\ loc[p] \in Local
  BY DEF Procs, TypeOK
<1> USE <1>t
<1>1. CASE CronStart(p)
  <2>1. loc' \in [Procs -> Local]
    BY <1>1, GotoType DEF CronStart, Labels
  <2>2. row' \in [Jobs -> Statuses] /\ today' \subseteq Jobs /\ oldClaims' \subseteq Jobs
    BY <1>1 DEF CronStart, BackToPending, TypeOK, Statuses
  <2> QED
    BY <1>1, <2>1, <2>2 DEF CronStart, TypeOK, world, broker
<1>2. CASE CronSelect(p)
  <2>1. loc' \in [Procs -> Local]
    BY <1>2, GotoType, FinishType DEF CronSelect, Labels
  <2> QED
    BY <1>2, <2>1 DEF CronSelect, TypeOK, world, table, broker
<1>3. CASE CronCount(p)
  <2>1. CASE paused \/ CountToday >= DailyCap[plan]
    BY <1>3, <2>1, FinishType DEF CronCount, TypeOK, world, table, broker
  <2>2. CASE ~(paused \/ CountToday >= DailyCap[plan])
    <3>1. DailyCap[plan] - CountToday \in Nat
      BY <2>2, CountType, ConstantsAssumption DEF TypeOK
    <3>2. [loc[p] EXCEPT !.pc = "backlog",
                         !.room = DailyCap[plan] - CountToday] \in Local
      BY <3>1 DEF Local, Labels
    <3>3. loc' \in [Procs -> Local]
      BY <1>3, <2>2, <3>2, BecomesType DEF CronCount
    <3> QED
      BY <1>3, <3>3 DEF CronCount, TypeOK, world, table, broker
  <2> QED
    BY <2>1, <2>2
<1>4. CASE CronReadMissed(p)
  <2> DEFINE dead == {j \in InStatus({"missed"}) : job[j] = "expired"}
  <2> PICK S \in UpTo(loc[p].room, InStatus({"missed"}) \ dead) :
        Becomes(p, [loc[p] EXCEPT !.pc = "convert", !.drop = dead, !.todo = S])
    BY <1>4 DEF CronReadMissed
  <2>1. S \in SUBSET Jobs /\ dead \in SUBSET Jobs
    BY DEF UpTo, InStatus
  <2> HIDE DEF dead
  <2>2. [loc[p] EXCEPT !.pc = "convert", !.drop = dead, !.todo = S] \in Local
    BY <2>1 DEF Local, Labels
  <2>3. loc' \in [Procs -> Local]
    BY <2>2, BecomesType
  <2> QED
    BY <1>4, <2>3 DEF CronReadMissed, TypeOK, world, table, broker
<1>5. CASE CronDropMissed(p)
  <2>1. [loc[p] EXCEPT !.drop = {}] \in Local
    BY DEF Local
  <2>2. loc' \in [Procs -> Local]
    BY <1>5, <2>1, BecomesType DEF CronDropMissed
  <2>3. row' \in [Jobs -> Statuses] /\ today' \subseteq Jobs /\ oldClaims' \subseteq Jobs
    BY <1>5 DEF CronDropMissed, DeleteRows, TypeOK, Statuses
  <2> QED
    BY <1>5, <2>2, <2>3 DEF CronDropMissed, TypeOK, world, broker
<1>6. CASE CronConvert(p)
  <2>1. [loc[p] EXCEPT !.pc = "claim", !.todo = {}] \in Local
    BY DEF Local, Labels
  <2>2. loc' \in [Procs -> Local]
    BY <1>6, <2>1, BecomesType DEF CronConvert
  <2>3. row' \in [Jobs -> Statuses] /\ today' \subseteq Jobs /\ oldClaims' \subseteq Jobs
    BY <1>6 DEF CronConvert, BackToPending, TypeOK, Statuses
  <2> QED
    BY <1>6, <2>2, <2>3 DEF CronConvert, TypeOK, world, broker
<1>7. CASE CronClaim(p)
  <2> PICK S \in UpTo(loc[p].room, InStatus({"pending"})) :
        /\ row' = [j \in Jobs |-> IF j \in S THEN "sending" ELSE row[j]]
        /\ oldClaims' = oldClaims \ S
        /\ IF S = {} THEN Finish(p)
           ELSE Becomes(p, [loc[p] EXCEPT !.pc = "jobs", !.picked = S])
    BY <1>7 DEF CronClaim
  <2>1. S \in SUBSET Jobs
    BY DEF UpTo, InStatus
  <2>2. [loc[p] EXCEPT !.pc = "jobs", !.picked = S] \in Local
    BY <2>1 DEF Local, Labels
  <2>3. loc' \in [Procs -> Local]
    BY <2>2, BecomesType, FinishType
  <2> QED
    BY <1>7, <2>3 DEF CronClaim, TypeOK, Statuses, world, broker
<1>8. CASE CronJobs(p)
  <2> DEFINE bad == {j \in loc[p].picked : job[j] # "fresh"}
  <2>1. bad \in SUBSET Jobs
    BY DEF Local
  <2> HIDE DEF bad
  <2>2. [loc[p] EXCEPT !.pc = "purge", !.drop = bad, !.picked = @ \ bad] \in Local
    BY <2>1 DEF Local, Labels
  <2>3. loc' \in [Procs -> Local]
    BY <1>8, <2>2, BecomesType DEF CronJobs, bad
  <2> QED
    BY <1>8, <2>3 DEF CronJobs, TypeOK, world, table, broker
<1>9. CASE CronPurged(p)
  <2>1. [loc[p] EXCEPT !.pc = "dispatch", !.todo = loc[p].picked] \in Local
    BY DEF Local, Labels
  <2>2. loc' \in [Procs -> Local]
    BY <1>9, <2>1, BecomesType, FinishType DEF CronPurged
  <2> QED
    BY <1>9, <2>2 DEF CronPurged, TypeOK, world, table, broker
<1>10. CASE CronError(p)
  BY <1>10, FinishType DEF CronError, TypeOK, world, table, broker
<1>11. CASE \E j \in Jobs : CronPurge(p, j)
  <2> PICK j \in Jobs : CronPurge(p, j)
    BY <1>11
  <2>1. [loc[p] EXCEPT !.drop = @ \ {j}] \in Local
    BY DEF Local
  <2>2. loc' \in [Procs -> Local]
    BY <2>1, BecomesType DEF CronPurge
  <2>3. row' \in [Jobs -> Statuses] /\ today' \subseteq Jobs /\ oldClaims' \subseteq Jobs
    BY DEF CronPurge, DeleteRows, TypeOK, Statuses, table
  <2> QED
    BY <2>2, <2>3 DEF CronPurge, TypeOK, world, broker
<1> QED
  BY <1>1, <1>2, <1>3, <1>4, <1>5, <1>6, <1>7, <1>8, <1>9, <1>10, <1>11
     DEF CronStep

\* Every step of a delivery keeps the types.
LEMMA DeliverType ==
    ASSUME TypeOK, NEW p \in Procs, DeliverStep(p)
    PROVE  TypeOK'
<1>t. /\ loc \in [Procs -> Local]
      /\ loc[p] \in Local
  BY DEF TypeOK
<1> USE <1>t
<1>1. CASE \E j \in Jobs : Dispatch(p, j) \/ SentItem(p, j)
  <2> PICK j \in Jobs : Dispatch(p, j) \/ SentItem(p, j)
    BY <1>1
  <2>1. [loc[p] EXCEPT !.todo = @ \ {j}] \in Local
    BY DEF Local
  <2>2. loc' \in [Procs -> Local]
    BY <2>1, BecomesType DEF Dispatch, SentItem
  <2>3. /\ row' \in [Jobs -> Statuses]
        /\ today' \subseteq Jobs
        /\ oldClaims' \subseteq Jobs
    BY StatementTypes DEF Dispatch, SentItem, Statuses
  <2> QED
    BY <2>2, <2>3 DEF Dispatch, SentItem, TypeOK, world, broker
<1>2. CASE DispatchDone(p)
  BY <1>2, GotoType DEF DispatchDone, Labels, TypeOK, world, table, broker
<1>3. CASE SendOk(p)
  <2>1. [loc[p] EXCEPT !.pc = "sent", !.todo = loc[p].picked] \in Local
    BY DEF Local, Labels
  <2>2. loc' \in [Procs -> Local]
    BY <1>3, <2>1, BecomesType DEF SendOk
  <2>3. delivered' \in [Jobs -> 0 .. 2]
    BY <1>3, ReachesType DEF SendOk
  <2> QED
    BY <1>3, <2>2, <2>3 DEF SendOk, TypeOK, world, table, broker
<1>4. CASE SendError(p)
  <2>1. ASSUME NEW v \in {"nack", "requeue"}, p = "batch"
        PROVE  [loc["batch"] EXCEPT !.pc = "fail", !.todo = loc["batch"].picked,
                                    !.verdict = v] \in Local
    BY <2>1 DEF Local, Labels
  <2>2. loc' \in [Procs -> Local]
    BY <1>4, <2>1, BecomesType, FinishType DEF SendError
  <2>3. delivered' \in [Jobs -> 0 .. 2]
    BY <1>4, ReachesType DEF SendError
  <2> QED
    BY <1>4, <2>2, <2>3 DEF SendError, TypeOK, world, table, broker
<1>5. CASE SentDone(p)
  BY <1>5, ReturnType, FinishType DEF SentDone, TypeOK, world, table, broker
<1> QED
  BY <1>1, <1>2, <1>3, <1>4, <1>5 DEF DeliverStep

\* So does what happens around the notifier.
LEMMA EnvType ==
    ASSUME TypeOK, EnvStep
    PROVE  TypeOK'
<1>1. CASE Crash
  <2>1. [Idle EXCEPT !.pc = "recover"] \in Local
    BY IdleType DEF Local, Labels
  <2>2. loc' \in [Procs -> Local]
    BY <1>1, <2>1, IdleType DEF Crash
  <2> QED
    BY <1>1, <2>2 DEF Crash, TypeOK, world, table, broker
<1>2. CASE Midnight \/ UserChanges \/ CancelPending
  BY <1>2 DEF Midnight, UserChanges, CancelPending, DeleteRows, TypeOK,
       Statuses, world, table, broker
<1>3. CASE \E j \in Jobs : ClaimAges(j) \/ JobAges(j) \/ JobExpires(j)
                           \/ JobRelisted(j)
  BY <1>3 DEF ClaimAges, JobAges, JobExpires, JobRelisted, DeleteRows, TypeOK,
       Statuses, world, table, broker
<1> QED
  BY <1>1, <1>2, <1>3 DEF EnvStep

-----------------------------------------------------------------------------
(* HandInv through the remaining steps.                                    *)

\* A cron touches neither the broker nor the main loop's state.
LEMMA CronFrame ==
    ASSUME TypeOK, NEW p \in Procs, p # "batch", CronStep(p) \/ DeliverStep(p)
    PROVE  UNCHANGED broker /\ B' = B
<1>1. ASSUME NEW l, Becomes(p, l)
      PROVE  B' = B
  BY <1>1, BatchLocal, BecomesIs DEF B
<1>2. CASE CronStep(p)
  BY <1>1, <1>2 DEF CronStep, CronStart, CronSelect, CronCount,
       CronReadMissed, CronDropMissed, CronConvert, CronClaim, CronJobs,
       CronPurge, CronPurged, CronError, Goto, Finish
<1>3. CASE DeliverStep(p)
  BY <1>1, <1>3 DEF DeliverStep, Dispatch, DispatchDone, SendOk, SendError,
       SentItem, SentDone, Goto, Finish
<1> QED
  BY <1>2, <1>3

LEMMA SendOkFields ==
    ASSUME TypeOK, SendOk("batch")
    PROVE  /\ B'.pc = "sent" /\ B'.msg = B.msg
           /\ B'.picked = B.picked /\ B'.todo = B.picked
<1>1. B' = [B EXCEPT !.pc = "sent", !.todo = B.picked]
  BY BatchLocal, BecomesIs DEF SendOk, B
<1> QED
  BY <1>1, BatchLocal DEF Local

LEMMA SendErrorFields ==
    ASSUME TypeOK, SendError("batch")
    PROVE  /\ B'.pc = "fail" /\ B'.msg = B.msg
           /\ B'.picked = B.picked /\ B'.todo = B.picked
           /\ B'.verdict # "ack"
<1> PICK v \in {"nack", "requeue"} :
      Becomes("batch", [B EXCEPT !.pc = "fail", !.todo = B.picked,
                                 !.verdict = v])
  BY DEF SendError, B
<1>1. B' = [B EXCEPT !.pc = "fail", !.todo = B.picked, !.verdict = v]
  BY BatchLocal, BecomesIs DEF B
<1> QED
  BY <1>1, BatchLocal DEF Local

\* A delivery by the main loop keeps its message and is not a recovery.
LEMMA DeliverFrame ==
    ASSUME TypeOK, DeliverStep("batch")
    PROVE  UNCHANGED broker /\ B'.msg = B.msg /\ B'.pc # "recover"
<1>1. CASE \E j \in Jobs : Dispatch("batch", j) \/ SentItem("batch", j)
  BY <1>1, VisitFields DEF Dispatch, SentItem, At, B
<1>2. CASE DispatchDone("batch")
  BY <1>2, GotoFields DEF DispatchDone
<1>3. CASE SendOk("batch")
  BY <1>3, SendOkFields DEF SendOk
<1>4. CASE SendError("batch")
  BY <1>4, SendErrorFields DEF SendError
<1>5. CASE SentDone("batch")
  BY <1>5, ReturnFields DEF SentDone
<1> QED
  BY <1>1, <1>2, <1>3, <1>4, <1>5 DEF DeliverStep

\* Each step keeps the types and HandInv.
LEMMA TypeStep ==
    ASSUME TypeOK, HandInv, [Next]_vars
    PROVE  TypeOK' /\ HandInv'
<1>1. CASE BatchStep
  BY <1>1, BatchType, BatchHand
<1>2. CASE \E p \in Crons : CronStep(p)
  <2> PICK p \in Crons : CronStep(p)
    BY <1>2
  <2>1. p \in Procs /\ p # "batch"
    BY ConstantsAssumption DEF Procs
  <2> QED
    BY <2>1, CronType, CronFrame DEF HandInv, At, B, broker
<1>3. CASE \E p \in Procs : DeliverStep(p)
  <2> PICK p \in Procs : DeliverStep(p)
    BY <1>3
  <2>1. UNCHANGED broker /\ B'.msg = B.msg /\ (B' = B \/ B'.pc # "recover")
    BY CronFrame, DeliverFrame
  <2> QED
    BY <2>1, DeliverType DEF HandInv, At, B, broker
<1>4. CASE EnvStep
  <2>1. UNCHANGED broker
    BY <1>4 DEF EnvStep, Crash, Midnight, UserChanges, CancelPending,
         ClaimAges, JobAges, JobExpires, JobRelisted
  <2>2. UNCHANGED loc \/ Crash
    BY <1>4 DEF EnvStep, Midnight, UserChanges, CancelPending,
         ClaimAges, JobAges, JobExpires, JobRelisted
  <2>3. ASSUME Crash
        PROVE  B'.msg = {}
    BY <2>3, BatchLocal DEF Crash, Idle, B
  <2> QED
    BY <1>4, <2>1, <2>2, <2>3, EnvType DEF HandInv, At, B, broker
<1>5. CASE UNCHANGED vars
  BY <1>5 DEF vars, world, table, broker, TypeOK, HandInv, At
<1> QED
  BY <1>1, <1>2, <1>3, <1>4, <1>5 DEF Next

\* Initially the types are right and there is no message in hand.
LEMMA TypeInit ==
    ASSUME Init
    PROVE  TypeOK /\ HandInv
<1>1. Procs # {} /\ "batch" \in Procs
  BY DEF Procs
<1>2. loc \in [Procs -> Local]
  BY IdleType DEF Init
<1>3. row \in [Jobs -> Statuses]
  BY ConstantsAssumption DEF Init, Statuses
<1>0. job \in [Jobs -> {"fresh", "stale", "expired"}]
  <2>1. StartJobs \subseteq {"fresh", "stale", "expired"}
    BY ConstantsAssumption
  <2> QED
    BY <2>1 DEF Init
<1>4. /\ inbox \in [Messages -> Lists]
      /\ retries \in [Messages -> 0 .. MaxRetries + 1]
      /\ delivered \in [Jobs -> 0 .. 2]
  BY ConstantsAssumption DEF Init, Lists
<1>5. plan \in Plans /\ expiring \subseteq Jobs /\ today \subseteq Jobs
  BY ConstantsAssumption DEF Init
<1>6. paused \in BOOLEAN /\ oldClaims \subseteq Jobs
  BY DEF Init
<1>7. TypeOK
  BY <1>0, <1>2, <1>3, <1>4, <1>5, <1>6 DEF TypeOK
<1>8. HandInv
  BY <1>1, ConstantsAssumption DEF Init, HandInv, Idle, At
<1> QED
  BY <1>7, <1>8

\* The variables keep their types in every state of every behaviour; no message
\* is ever retried more than MaxRetries times before it goes to the DLQ.
THEOREM TypeCorrect == Spec => []TypeOK
<1>1. Spec => [](TypeOK /\ HandInv)
  BY TypeInit, TypeStep, PTL DEF Spec
<1> QED
  BY <1>1, PTL

-----------------------------------------------------------------------------
(* The main loop on its own delivers a job at most once.                   *)

\* What the stages of ExecuteBatch know of the rows they work on.
StageInv ==
    /\ B.pc \in {"idle", "load", "recover"} => B.picked = {} /\ B.drop = {}
    /\ B.pc \in {"ensure", "count", "missed"} =>
          \A j \in B.picked : row[j] = "pending"
    /\ B.pc = "ensure" => /\ \A j \in B.drop : row[j] = "pending"
                          /\ B.picked \subseteq B.seen
                          /\ B.drop \cap B.seen = {}
    /\ B.pc = "missed" => B.todo \cap B.picked = {}
    /\ B.pc \in {"dispatch", "fail", "sent"} => B.todo \subseteq B.picked
    /\ B.pc = "dispatch" =>
          \A j \in B.picked :
              row[j] = IF j \in B.todo THEN "pending" ELSE "dispatched"
    /\ B.pc = "send" => \A j \in B.picked : row[j] = "dispatched"
    /\ B.pc \in {"dispatch", "send", "fail"} =>
          \A j \in B.picked : delivered[j] = 0
    /\ B.pc = "sent" => \A j \in B.picked : row[j] \in {"dispatched", "sent"}

\* A job that has reached the chat has a row that says so.
ChatInv ==
    \A j \in Jobs : /\ delivered[j] <= 1
                    /\ delivered[j] > 0 => row[j] \in {"dispatched", "sent"}

NothingExpired == expiring = {} /\ \A j \in Jobs : job[j] # "expired"

DeliveryInv == StageInv /\ ChatInv /\ NothingExpired

\* Ensure picks a row only if it is pending now; its job has not been delivered.
LEMMA EnsureRows ==
    ASSUME TypeOK, ChatInv, NEW j \in Jobs, EnsurePending(j)
    PROVE  /\ \A k \in Jobs : row[k] = "pending" => row'[k] = "pending"
           /\ \A k \in {j} \cap InStatus(Sendable) : row'[k] = "pending"
           /\ \A k \in Jobs : row[k] \in {"dispatched", "sent"} => row'[k] = row[k]
BY DEF TypeOK, EnsurePending, InStatus, Sendable, table

\* The steps of ExecuteBatch keep the invariant.
LEMMA BatchDelivery ==
    ASSUME TypeOK, DeliveryInv, BatchStep
    PROVE  DeliveryInv'
<1>t. /\ B.picked \subseteq Jobs /\ B.todo \subseteq Jobs
      /\ B.drop \subseteq Jobs /\ B.seen \subseteq Jobs
      /\ row \in [Jobs -> Statuses]
      /\ delivered \in [Jobs -> 0 .. 2]
  BY BatchLocal DEF TypeOK, Local
<1>u. UNCHANGED <<world, delivered>>
  BY DEF BatchStep, Pop, LoadBatch, DropStaleItem, EnsureDone, CountBatch,
     MissDone, BatchError, DispatchError, FailDone, Ack, Nack, Requeue,
     GiveBackError, Recover, Ensure, MissItem, FailItem
<1>n. NothingExpired'
  BY <1>u DEF DeliveryInv, NothingExpired, world
<1>c. ASSUME UNCHANGED row
      PROVE  ChatInv'
  BY <1>u, <1>c DEF DeliveryInv, ChatInv
<1>s. ASSUME B'.pc = "settle"
      PROVE  StageInv'
  BY <1>s DEF StageInv
<1>i. ASSUME UNCHANGED row, B' = Idle \/ B' = [Idle EXCEPT !.pc = "recover"]
      PROVE  StageInv'
  BY <1>i DEF StageInv, Idle
<1>1. CASE \E m \in Messages : Pop(m)
  <2> PICK m \in Messages : Pop(m)
    BY <1>1
  <2>1. B.pc = "idle" /\ UNCHANGED row
    BY DEF Pop, At, B, table
  <2>2. B' = [B EXCEPT !.pc = "load", !.msg = {m}]
    BY BatchLocal, BecomesIs DEF Pop, B
  <2>3. B'.pc = "load" /\ B'.picked = {} /\ B'.drop = {}
    BY <2>1, <2>2, BatchLocal DEF Local, DeliveryInv, StageInv
  <2> QED
    BY <2>1, <2>3, <1>c, <1>n DEF DeliveryInv, StageInv
<1>2. CASE LoadBatch
  <2>1. B.pc = "load" /\ UNCHANGED row
    BY <1>2 DEF LoadBatch, At, B, table
  <2>2. B.picked = {} /\ B.drop = {}
    BY <2>1 DEF DeliveryInv, StageInv
  <2>3. StageInv'
    BY <1>2, <2>1, <2>2, LoadFields DEF StageInv
  <2> QED
    BY <2>1, <2>3, <1>c, <1>n DEF DeliveryInv
<1>3. CASE DropStaleItem
  <2>1. B.pc = "ensure"
    BY <1>3 DEF DropStaleItem, At, B
  <2>2. DeleteRows(B.drop) \/ UNCHANGED table
    BY <1>3 DEF DropStaleItem, B
  <2>3. \A k \in Jobs \ B.drop : row'[k] = row[k]
    BY <2>2, <1>t DEF DeleteRows, table
  <2>4. \A k \in B.drop : delivered[k] = 0
    BY <2>1, <1>t DEF DeliveryInv, StageInv, ChatInv
  <2>5. ChatInv'
    BY <2>3, <2>4, <1>u, <1>t DEF DeliveryInv, ChatInv
  <2>6. B.picked \cap B.drop = {} /\ \A k \in B.picked : row[k] = "pending"
    BY <2>1 DEF DeliveryInv, StageInv
  <2>7. B.picked \subseteq B.seen
    BY <2>1 DEF DeliveryInv, StageInv
  <2>8. StageInv'
    BY <1>3, <2>3, <2>6, <2>7, <1>t, DropFields DEF StageInv
  <2> QED
    BY <2>5, <2>8, <1>n DEF DeliveryInv
<1>4. CASE EnsureDone
  <2>1. B.pc = "ensure" /\ UNCHANGED row
    BY <1>4 DEF EnsureDone, At, B, table
  <2>2. B'.pc = "settle" \/ (B'.pc = "count" /\ B'.picked = B.picked)
    <3>1. Return("ack") \/ Goto("batch", "count")
      BY <1>4 DEF EnsureDone
    <3>2. CASE Return("ack")
      BY <3>2, ReturnFields
    <3>3. CASE Goto("batch", "count")
      BY <3>3, GotoFields
    <3> QED
      BY <3>1, <3>2, <3>3
  <2>3. StageInv'
    BY <2>1, <2>2 DEF DeliveryInv, StageInv
  <2> QED
    BY <2>1, <2>3, <1>c, <1>n DEF DeliveryInv
<1>5. CASE CountBatch
  <2>1. B.pc = "count" /\ UNCHANGED row
    BY <1>5 DEF CountBatch, At, B, table
  <2>2. StageInv'
    BY <1>5, <2>1, CountFields DEF DeliveryInv, StageInv
  <2> QED
    BY <2>1, <2>2, <1>c, <1>n DEF DeliveryInv
<1>6. CASE MissDone
  <2>1. B.pc = "missed" /\ UNCHANGED row
    BY <1>6 DEF MissDone, At, B, table
  <2>2. B.todo = {}
    BY <1>6 DEF MissDone, B
  <2>3. \A j \in B.picked : row[j] = "pending" /\ delivered[j] = 0
    BY <2>1, <1>t DEF DeliveryInv, StageInv, ChatInv
  <2>4. StageInv'
    BY <1>6, <2>1, <2>3, <1>u, MissDoneFields DEF StageInv
  <2> QED
    BY <2>1, <2>4, <1>c, <1>n DEF DeliveryInv
<1>7. CASE BatchError
  BY <1>7, <1>c, <1>n, <1>s, ReturnFields DEF BatchError, DeliveryInv, table
<1>8. CASE DispatchError
  <2>1. B.pc = "dispatch" /\ UNCHANGED row
    BY <1>8 DEF DispatchError, At, B, table
  <2>2. StageInv'
    BY <1>8, <2>1, <1>u, DispatchErrorFields DEF DeliveryInv, StageInv
  <2> QED
    BY <2>1, <2>2, <1>c, <1>n DEF DeliveryInv
<1>9. CASE FailDone
  BY <1>9, <1>c, <1>n, <1>s, GotoFields DEF FailDone, DeliveryInv, table
<1>10. CASE Ack \/ Nack \/ Requeue \/ Recover
  <2>1. Finish("batch") /\ UNCHANGED row
    BY <1>10 DEF Ack, Nack, Requeue, Recover, table
  <2>2. B' = Idle
    BY <2>1, BatchLocal, BecomesIs DEF Finish, B
  <2> QED
    BY <2>1, <2>2, <1>c, <1>i, <1>n DEF DeliveryInv
<1>11. CASE GiveBackError
  <2>1. B' = [Idle EXCEPT !.pc = "recover"] /\ UNCHANGED row
    BY <1>11, BatchLocal, BecomesIs DEF GiveBackError, B, table
  <2> QED
    BY <2>1, <1>c, <1>i, <1>n DEF DeliveryInv
<1>12. ASSUME NEW j \in Jobs, Ensure(j)
       PROVE  DeliveryInv'
  <2>1. B.pc = "ensure" /\ B.drop = {}
    BY <1>12 DEF Ensure, At, B
  <2>2. EnsurePending(j)
    BY <1>12 DEF Ensure
  <2>3. ChatInv'
    BY <2>2, <1>u, EnsureRows, <1>t DEF DeliveryInv, ChatInv
  <2> DEFINE send == {j} \cap InStatus(Sendable)
  <2>4. \A k \in send : row'[k] = "pending"
    BY <2>2, EnsureRows DEF DeliveryInv
  <2>5. \A k \in B.picked : row'[k] = "pending"
    BY <2>1, <2>2, <1>t, EnsureRows DEF DeliveryInv, StageInv
  <2>6. B.picked \subseteq B.seen
    BY <2>1 DEF DeliveryInv, StageInv
  <2>7. /\ B'.pc = "ensure" /\ B'.seen = B.seen
        /\ B'.picked = B.picked \cup (send \cap B.seen)
        /\ B'.drop = send \ B.seen
    BY <1>12, EnsureFields
  <2> HIDE DEF send
  <2>8. StageInv'
    BY <2>4, <2>5, <2>6, <2>7 DEF StageInv
  <2> QED
    BY <2>3, <2>8, <1>n DEF DeliveryInv
<1>13. ASSUME NEW j \in Jobs, MissItem(j)
       PROVE  DeliveryInv'
  <2>1. B.pc = "missed" /\ j \in B.todo /\ MarkMissed(j)
    BY <1>13 DEF MissItem, At, B
  <2>2. ChatInv'
    BY <2>1, <1>t, <1>u DEF DeliveryInv, ChatInv, MarkMissed, table
  <2>3. j \notin B.picked /\ \A k \in B.picked : row[k] = "pending"
    BY <2>1 DEF DeliveryInv, StageInv
  <2>4. \A k \in B.picked : row'[k] = "pending"
    BY <2>1, <2>3, <1>t DEF MarkMissed, table
  <2>5. B'.pc = B.pc /\ B'.picked = B.picked /\ B'.todo = B.todo \ {j}
    BY <1>13, VisitFields DEF MissItem, B
  <2>6. B.todo \cap B.picked = {}
    BY <2>1 DEF DeliveryInv, StageInv
  <2>7. StageInv'
    BY <2>1, <2>4, <2>5, <2>6 DEF StageInv
  <2> QED
    BY <2>2, <2>7, <1>n DEF DeliveryInv
<1>14. ASSUME NEW j \in Jobs, FailItem(j)
       PROVE  DeliveryInv'
  <2>1. B.pc = "fail" /\ j \in B.todo /\ (MarkFailed(j) \/ UNCHANGED table)
    BY <1>14 DEF FailItem, At, B
  <2>2. B.todo \subseteq B.picked /\ \A k \in B.picked : delivered[k] = 0
    BY <2>1 DEF DeliveryInv, StageInv
  <2>3. ChatInv'
    BY <2>1, <2>2, <1>t, <1>u DEF DeliveryInv, ChatInv, MarkFailed, table
  <2>4. B'.pc = B.pc /\ B'.picked = B.picked /\ B'.todo = B.todo \ {j}
    BY <1>14, VisitFields DEF FailItem, B
  <2>5. StageInv'
    BY <2>1, <2>2, <2>4, <1>u DEF StageInv
  <2> QED
    BY <2>3, <2>5, <1>n DEF DeliveryInv
<1> QED
  BY <1>1, <1>2, <1>3, <1>4, <1>5, <1>6, <1>7, <1>8, <1>9, <1>10, <1>11,
     <1>12, <1>13, <1>14 DEF BatchStep

\* Dispatch, send and mark sent keep it, if no answer of Telegram gets lost.
LEMMA DeliverDelivery ==
    ASSUME TypeOK, DeliveryInv, DeliverStep("batch"), "ambiguous" \notin Faults
    PROVE  DeliveryInv'
<1>t. /\ B.picked \subseteq Jobs /\ B.todo \subseteq Jobs
      /\ row \in [Jobs -> Statuses]
      /\ delivered \in [Jobs -> 0 .. 2]
  BY BatchLocal DEF TypeOK, Local
<1>n. NothingExpired'
  BY DEF DeliverStep, Dispatch, DispatchDone, SendOk, SendError, SentItem,
     SentDone, DeliveryInv, NothingExpired, world
<1>1. ASSUME NEW j \in Jobs, Dispatch("batch", j)
      PROVE  DeliveryInv'
  <2>1. B.pc = "dispatch" /\ j \in B.todo /\ MarkDispatched(j)
    BY <1>1 DEF Dispatch, At, B
  <2>2. /\ B.todo \subseteq B.picked
        /\ \A k \in B.picked : delivered[k] = 0
        /\ \A k \in B.picked :
              row[k] = IF k \in B.todo THEN "pending" ELSE "dispatched"
    BY <2>1 DEF DeliveryInv, StageInv
  <2>3. row' = [row EXCEPT ![j] = "dispatched"]
    BY <2>1, <2>2 DEF MarkDispatched
  <2>4. UNCHANGED delivered
    BY <1>1 DEF Dispatch
  <2>5. ChatInv'
    BY <2>3, <2>4, <1>t DEF DeliveryInv, ChatInv
  <2>6. B'.pc = B.pc /\ B'.picked = B.picked /\ B'.todo = B.todo \ {j}
    BY <1>1, VisitFields DEF Dispatch, B
  <2>7. StageInv'
    BY <2>1, <2>2, <2>3, <2>4, <2>6, <1>t DEF StageInv
  <2> QED
    BY <2>5, <2>7, <1>n DEF DeliveryInv
<1>2. ASSUME NEW j \in Jobs, SentItem("batch", j)
      PROVE  DeliveryInv'
  <2>1. B.pc = "sent" /\ j \in B.todo /\ (MarkSent(j) \/ UNCHANGED table)
    BY <1>2 DEF SentItem, At, B
  <2>2. /\ B.todo \subseteq B.picked
        /\ \A k \in B.picked : row[k] \in {"dispatched", "sent"}
    BY <2>1 DEF DeliveryInv, StageInv
  <2>3. UNCHANGED row \/ row' = [row EXCEPT ![j] = "sent"]
    BY <2>1 DEF MarkSent, table
  <2>4. UNCHANGED delivered
    BY <1>2 DEF SentItem
  <2>5. ChatInv'
    BY <2>3, <2>4, <1>t DEF DeliveryInv, ChatInv
  <2>6. B'.pc = B.pc /\ B'.picked = B.picked /\ B'.todo = B.todo \ {j}
    BY <1>2, VisitFields DEF SentItem, B
  <2>7. StageInv'
    BY <2>1, <2>2, <2>3, <2>6, <1>t DEF StageInv
  <2> QED
    BY <2>5, <2>7, <1>n DEF DeliveryInv
<1>3. CASE DispatchDone("batch")
  <2>1. B.pc = "dispatch" /\ B.todo = {} /\ UNCHANGED <<row, delivered>>
    BY <1>3 DEF DispatchDone, At, B, table
  <2>2. B'.pc = "send" /\ B'.picked = B.picked
    BY <1>3, GotoFields DEF DispatchDone
  <2>3. StageInv'
    BY <2>1, <2>2 DEF DeliveryInv, StageInv
  <2>4. ChatInv'
    BY <2>1 DEF DeliveryInv, ChatInv
  <2> QED
    BY <2>3, <2>4, <1>n DEF DeliveryInv
<1>4. CASE SendOk("batch")
  <2>1. B.pc = "send" /\ UNCHANGED row /\ Reaches("batch", 1)
    BY <1>4 DEF SendOk, At, B, table
  <2>2. \A k \in B.picked : row[k] = "dispatched" /\ delivered[k] = 0
    BY <2>1 DEF DeliveryInv, StageInv
  <2>3. \A k \in Jobs : delivered'[k] = IF k \in B.picked THEN 1 ELSE delivered[k]
    BY <2>1, <2>2, <1>t DEF Reaches, B
  <2>4. ChatInv'
    BY <2>1, <2>2, <2>3 DEF DeliveryInv, ChatInv
  <2>5. StageInv'
    BY <1>4, <2>1, <2>2, SendOkFields DEF StageInv
  <2> QED
    BY <2>4, <2>5, <1>n DEF DeliveryInv
<1>5. CASE SendError("batch")
  <2>1. B.pc = "send" /\ UNCHANGED row /\ Reaches("batch", 0)
    BY <1>5 DEF SendError, At, B, table
  <2>2. \A k \in B.picked : delivered[k] = 0
    BY <2>1 DEF DeliveryInv, StageInv
  <2>3. \A k \in Jobs : delivered'[k] = delivered[k]
    BY <2>1, <1>t DEF Reaches, B
  <2>4. ChatInv'
    BY <2>1, <2>3 DEF DeliveryInv, ChatInv
  <2>5. StageInv'
    BY <1>5, <2>2, <2>3, <1>t, SendErrorFields DEF StageInv
  <2> QED
    BY <2>4, <2>5, <1>n DEF DeliveryInv
<1>6. CASE SentDone("batch")
  <2>1. UNCHANGED <<row, delivered>>
    BY <1>6 DEF SentDone, table
  <2>2. B'.pc = "settle"
    BY <1>6, ReturnFields DEF SentDone
  <2>3. StageInv' /\ ChatInv'
    BY <2>1, <2>2 DEF DeliveryInv, StageInv, ChatInv
  <2> QED
    BY <2>3, <1>n DEF DeliveryInv
<1> QED
  BY <1>1, <1>2, <1>3, <1>4, <1>5, <1>6 DEF DeliverStep

\* Crashes, clocks and the user's settings keep it, if no job expires.
LEMMA EnvDelivery ==
    ASSUME TypeOK, DeliveryInv, EnvStep, "expire" \notin Env
    PROVE  DeliveryInv'
<1>1. UNCHANGED <<row, delivered>>
  <2>1. CASE CancelPending
    BY <2>1 DEF CancelPending, DeliveryInv, NothingExpired
  <2>2. CASE \E j \in Jobs : JobRelisted(j) \/ JobExpires(j)
    BY <2>2 DEF JobRelisted, JobExpires, DeliveryInv, NothingExpired
  <2>3. CASE \/ Crash \/ Midnight \/ UserChanges
             \/ \E j \in Jobs : ClaimAges(j) \/ JobAges(j)
    BY <2>3 DEF Crash, Midnight, UserChanges, ClaimAges, JobAges, table
  <2> QED
    BY <2>1, <2>2, <2>3 DEF EnvStep
<1>2. ChatInv'
  BY <1>1 DEF DeliveryInv, ChatInv
<1>3. NothingExpired'
  BY DEF EnvStep, Crash, Midnight, UserChanges, CancelPending, ClaimAges,
     JobAges, JobExpires, JobRelisted, DeliveryInv, NothingExpired, world, TypeOK
<1>4. StageInv'
  <2>1. CASE Crash
    <3>1. B' = [Idle EXCEPT !.pc = "recover"]
      BY <2>1, BatchLocal DEF Crash, B
    <3> QED
      BY <3>1 DEF StageInv, Idle
  <2>2. CASE UNCHANGED loc
    BY <2>2, <1>1 DEF DeliveryInv, StageInv, B
  <2> QED
    BY <2>1, <2>2 DEF EnvStep, Midnight, UserChanges, CancelPending,
       ClaimAges, JobAges, JobExpires, JobRelisted
<1> QED
  BY <1>2, <1>3, <1>4 DEF DeliveryInv

\* When no cron runs, no answer of Telegram gets lost and no job is expired, no
\* job reaches the user's chat twice: whatever statements and Redis calls fail and
\* whenever the process crashes, for any number of jobs and messages.
THEOREM BatchDeliversOnce ==
    ASSUME Crons = {}, "ambiguous" \notin Faults,
           "expire" \notin Env, "expired" \notin StartJobs
    PROVE  Spec => []AtMostOnce
<1>1. ASSUME Init
      PROVE  DeliveryInv
  <2>1. B.pc = "idle" /\ B.picked = {} /\ B.drop = {}
    BY <1>1 DEF Init, Procs, Idle, B
  <2>2. StageInv
    BY <2>1 DEF StageInv
  <2>3. ChatInv /\ NothingExpired
    BY <1>1, ConstantsAssumption DEF Init, ChatInv, NothingExpired
  <2> QED
    BY <2>2, <2>3 DEF DeliveryInv
<1>2. ASSUME TypeOK, DeliveryInv, [Next]_vars
      PROVE  DeliveryInv'
  <2>1. CASE BatchStep
    BY <1>2, <2>1, BatchDelivery
  <2>2. CASE \E p \in Procs : DeliverStep(p)
    BY <1>2, <2>2, DeliverDelivery DEF Procs
  <2>3. CASE EnvStep
    BY <1>2, <2>3, EnvDelivery
  <2>4. CASE UNCHANGED vars
    BY <1>2, <2>4 DEF vars, world, table, DeliveryInv, StageInv, ChatInv,
       NothingExpired, B
  <2> QED
    BY <1>2, <2>1, <2>2, <2>3, <2>4 DEF Next
<1>3. DeliveryInv => AtMostOnce
  BY DEF DeliveryInv, ChatInv, AtMostOnce
<1> QED
  BY <1>1, <1>2, <1>3, TypeCorrect, PTL DEF Spec

-----------------------------------------------------------------------------
(* The crons on their own deliver a job at most once.                      *)

\* The stages of a cron run that have rows in hand.
Delivering == {"jobs", "purge", "dispatch", "send", "sent"}

\* What a run knows of the rows it has claimed: their claims are not given up
\* for lost, their jobs are not delivered before Send, and each row is as the
\* run left it, if it is still there.
ClaimInv(p) ==
    LET l == loc[p]
    IN  /\ l.pc \notin Delivering => l.picked = {}
        /\ l.pc \in {"dispatch", "sent"} => l.todo \subseteq l.picked
        /\ \A j \in l.picked : j \notin oldClaims
        /\ l.pc # "sent" => \A j \in l.picked : delivered[j] = 0
        /\ l.pc \in {"jobs", "purge"} =>
              \A j \in l.picked : row[j] \in {"sending", "none"}
        /\ l.pc = "dispatch" =>
              \A j \in l.picked : row[j] \in IF j \in l.todo
                                             THEN {"sending", "none"}
                                             ELSE {"dispatched", "none"}
        /\ l.pc = "send" =>
              \A j \in l.picked : row[j] \in {"dispatched", "none"}
        /\ l.pc = "sent" =>
              \A j \in l.picked : row[j] \in {"dispatched", "sent", "none"}

\* No two runs hold the same row.
Apart == \A p, q \in Crons : p # q => loc[p].picked \cap loc[q].picked = {}

\* A job that has reached the chat has a row nobody would claim, or none.
Spent(j) == /\ delivered[j] <= 1
            /\ delivered[j] > 0 => row[j] \in {"dispatched", "sent", "none"}

CronInv ==
    /\ B.pc \in {"idle", "recover"}
    /\ Apart
    /\ \A j \in Jobs : Spent(j)
    /\ \A p \in Crons : ClaimInv(p)

\* What a run leaves alone: a row it has not picked changes only by being
\* deleted, or if no run holds it.
OthersKept(p) ==
    /\ oldClaims' \subseteq oldClaims
    /\ \A j \in Jobs \ loc[p].picked :
          /\ delivered'[j] = delivered[j]
          /\ \/ row'[j] \in {row[j], "none"}
             \/ row[j] \in {"missed", "pending"}
             \/ row[j] = "sending" /\ j \in oldClaims

LEMMA CronKeepsOthers ==
    ASSUME TypeOK, NEW p \in Crons, CronStep(p)
    PROVE  OthersKept(p)
<1>1. UNCHANGED delivered
  BY DEF CronStep, CronStart, CronSelect, CronCount, CronReadMissed,
     CronDropMissed, CronConvert, CronClaim, CronJobs, CronPurge, CronPurged,
     CronError
<1>2. CASE CronClaim(p)
  <2> PICK S \in UpTo(loc[p].room, InStatus({"pending"})) :
        /\ row' = [j \in Jobs |-> IF j \in S THEN "sending" ELSE row[j]]
        /\ oldClaims' = oldClaims \ S
    BY <1>2 DEF CronClaim
  <2>1. S \subseteq InStatus({"pending"})
    BY DEF UpTo
  <2> QED
    BY <1>1, <2>1 DEF OthersKept, InStatus
<1>3. CASE CronStart(p) \/ CronConvert(p)
  BY <1>1, <1>3 DEF CronStart, CronConvert, BackToPending, OthersKept
<1>4. CASE CronDropMissed(p) \/ \E j \in Jobs : CronPurge(p, j)
  BY <1>1, <1>4 DEF CronDropMissed, CronPurge, DeleteRows, OthersKept, table
<1>5. CASE UNCHANGED table
  BY <1>1, <1>5 DEF table, OthersKept
<1> QED
  BY <1>2, <1>3, <1>4, <1>5 DEF CronStep, CronSelect, CronCount,
     CronReadMissed, CronJobs, CronPurged, CronError

LEMMA DeliverKeepsOthers ==
    ASSUME TypeOK, CronInv, NEW p \in Crons, DeliverStep(p)
    PROVE  OthersKept(p)
<1>1. CASE \E j \in Jobs : Dispatch(p, j) \/ SentItem(p, j)
  <2> PICK j \in Jobs : Dispatch(p, j) \/ SentItem(p, j)
    BY <1>1
  <2>1. j \in loc[p].picked
    BY DEF Dispatch, SentItem, At, CronInv, ClaimInv
  <2>2. UNCHANGED delivered /\ (MarkDispatched(j) \/ MarkSent(j) \/ UNCHANGED table)
    BY DEF Dispatch, SentItem
  <2> QED
    BY <2>1, <2>2 DEF MarkDispatched, MarkSent, table, OthersKept, TypeOK
<1>2. CASE DispatchDone(p) \/ SentDone(p)
  BY <1>2 DEF DispatchDone, SentDone, table, OthersKept
<1>3. CASE SendOk(p) \/ SendError(p)
  <2>1. UNCHANGED table /\ \E n \in 0 .. 2 : Reaches(p, n)
    BY <1>3 DEF SendOk, SendError
  <2> QED
    BY <2>1 DEF Reaches, table, OthersKept
<1> QED
  BY <1>1, <1>2, <1>3 DEF DeliverStep

\* So the other runs find their rows as they left them, or deleted.
LEMMA OthersClaims ==
    ASSUME TypeOK, CronInv, NEW p \in Crons, NEW q \in Crons, q # p,
           OthersKept(p), loc'[q] = loc[q]
    PROVE  ClaimInv(q)'
<1>1. ClaimInv(q) /\ loc[q].picked \cap loc[p].picked = {}
  BY DEF CronInv, Apart
<1>2. loc[q] \in Local /\ loc[q].picked \subseteq Jobs
  BY DEF TypeOK, Local, Procs
<1>3. \A j \in loc[q].picked :
         /\ delivered'[j] = delivered[j] /\ j \notin oldClaims'
         /\ row'[j] \in {row[j], "none"}
  BY <1>1, <1>2 DEF OthersKept, ClaimInv, Delivering
<1> QED
  BY <1>1, <1>3 DEF ClaimInv

\* A run may pick rows nobody holds, and may let rows go.
LEMMA StillApart ==
    ASSUME TypeOK, CronInv, NEW p \in Crons,
           \A q \in Crons \ {p} : loc'[q] = loc[q],
           \A j \in loc'[p].picked : j \in loc[p].picked \/ row[j] = "pending"
    PROVE  Apart'
<1>1. \A q \in Crons : \A j \in loc[q].picked : row[j] # "pending"
  BY DEF CronInv, ClaimInv, Delivering
<1> QED
  BY <1>1 DEF CronInv, Apart

\* It is enough to look at the run that takes the step and at its own rows.
LEMMA OneRunEnough ==
    ASSUME TypeOK, CronInv, NEW p \in Crons, NEW l, Becomes(p, l),
           OthersKept(p), ClaimInv(p)',
           \A j \in loc[p].picked : Spent(j)',
           \A j \in loc'[p].picked : j \in loc[p].picked \/ row[j] = "pending"
    PROVE  CronInv'
<1>1. /\ p \in Procs /\ p # "batch" /\ "batch" \in Procs
      /\ Crons \subseteq Procs /\ loc \in [Procs -> Local]
  BY ConstantsAssumption DEF Procs, TypeOK
<1>2. \A q \in Procs \ {p} : loc'[q] = loc[q]
  BY <1>1, BecomesIs
<1>3. B'.pc \in {"idle", "recover"}
  BY <1>1, <1>2 DEF CronInv, B
<1>4. Apart'
  BY <1>1, <1>2, StillApart
<1>5. ASSUME NEW j \in Jobs \ loc[p].picked
      PROVE  Spent(j)'
  BY <1>5 DEF CronInv, Spent, OthersKept
<1>6. ASSUME NEW q \in Crons
      PROVE  ClaimInv(q)'
  BY <1>1, <1>2, OthersClaims
<1> QED
  BY <1>3, <1>4, <1>5, <1>6 DEF CronInv

\* A run that holds no rows before the step and none after it.
LEMMA HoldsNothing ==
    ASSUME TypeOK, CronInv, NEW p \in Crons, NEW l, Becomes(p, l),
           OthersKept(p), loc[p].picked = {},
           l.pc \notin Delivering, l.picked = {}
    PROVE  CronInv'
<1>1. p \in Procs /\ loc'[p] = l
  BY BecomesIs DEF Procs, TypeOK
<1>2. ClaimInv(p)'
  BY <1>1 DEF ClaimInv, Delivering
<1> QED
  BY <1>1, <1>2, OneRunEnough

\* A run that ends holds no rows any more; the jobs of those it held are as
\* they were.
LEMMA LetsGo ==
    ASSUME TypeOK, CronInv, NEW p \in Crons, Finish(p), OthersKept(p),
           UNCHANGED row, \A j \in Jobs : delivered'[j] = delivered[j]
    PROVE  CronInv'
<1>1. p \in Procs /\ loc'[p] = Idle
  BY BecomesIs DEF Procs, TypeOK, Finish
<1>2. Idle.pc = "idle" /\ Idle.picked = {}
  BY DEF Idle
<1>3. ClaimInv(p)'
  BY <1>1, <1>2 DEF ClaimInv, Delivering
<1>4. loc[p].picked \subseteq Jobs
  BY <1>1 DEF TypeOK, Local
<1>5. \A j \in loc[p].picked : Spent(j)'
  BY <1>4 DEF CronInv, Spent
<1> QED
  BY <1>1, <1>2, <1>3, <1>5, OneRunEnough DEF Finish

\* Up to the claim a run holds no rows; the claim takes pending ones.
LEMMA CronClaims ==
    ASSUME TypeOK, CronInv, NEW p \in Crons, CronStep(p)
    PROVE  CronInv'
<1>o. OthersKept(p)
  BY CronKeepsOthers
<1>t. /\ p \in Procs /\ loc[p] \in Local /\ loc \in [Procs -> Local]
      /\ loc[p].picked \subseteq Jobs
  BY DEF TypeOK, Procs, Local
<1>c. ClaimInv(p)
  BY DEF CronInv
<1>l. ASSUME NEW l, Becomes(p, l)
      PROVE  loc'[p] = l
  BY <1>t, <1>l, BecomesIs
<1>i. Idle.pc = "idle" /\ Idle.picked = {}
  BY DEF Idle
<1>h. ASSUME loc[p].pc \notin Delivering
      PROVE  loc[p].picked = {}
  BY <1>c, <1>h DEF ClaimInv
<1>1. CASE \/ CronStart(p) \/ CronSelect(p) \/ CronCount(p)
           \/ CronReadMissed(p) \/ CronDropMissed(p) \/ CronConvert(p)
  <2>1. loc[p].picked = {}
    BY <1>1, <1>h DEF CronStart, CronSelect, CronCount, CronReadMissed,
       CronDropMissed, CronConvert, At, Delivering
  <2>2. PICK l : Becomes(p, l) /\ l.pc \notin Delivering /\ l.picked = {}
    <3>1. CASE CronStart(p) \/ CronSelect(p)
      <4>1. PICK label \in {"select", "count"} : Goto(p, label) \/ Finish(p)
        BY <3>1 DEF CronStart, CronSelect
      <4> DEFINE l == [loc[p] EXCEPT !.pc = label]
      <4>2. l.pc \notin Delivering /\ l.picked = {}
        BY <2>1, <1>t DEF Local, Delivering
      <4>3. Becomes(p, l) \/ Becomes(p, Idle)
        BY <4>1 DEF Goto, Finish
      <4> HIDE DEF l
      <4>4. CASE Becomes(p, l)
        BY <4>2, <4>4
      <4>5. CASE Becomes(p, Idle)
        BY <4>5, <1>i DEF Delivering
      <4> QED
        BY <4>3, <4>4, <4>5
    <3>2. CASE CronCount(p)
      <4> DEFINE l == [loc[p] EXCEPT !.pc = "backlog",
                                     !.room = DailyCap[plan] - CountToday]
      <4>1. l.pc \notin Delivering /\ l.picked = {}
        BY <2>1, <1>t DEF Local, Delivering
      <4>2. Becomes(p, l) \/ Becomes(p, Idle)
        BY <3>2 DEF CronCount, Finish
      <4> HIDE DEF l
      <4>3. CASE Becomes(p, l)
        BY <4>1, <4>3
      <4>4. CASE Becomes(p, Idle)
        BY <4>4, <1>i DEF Delivering
      <4> QED
        BY <4>2, <4>3, <4>4
    <3>3. CASE CronReadMissed(p)
      <4> DEFINE dead == {j \in InStatus({"missed"}) : job[j] = "expired"}
      <4> PICK S : Becomes(p, [loc[p] EXCEPT !.pc = "convert", !.drop = dead,
                                             !.todo = S])
        BY <3>3 DEF CronReadMissed
      <4> HIDE DEF dead
      <4> DEFINE l == [loc[p] EXCEPT !.pc = "convert", !.drop = dead, !.todo = S]
      <4>1. l.pc \notin Delivering /\ l.picked = {}
        BY <2>1, <1>t DEF Delivering, Local
      <4>2. Becomes(p, l)
        OBVIOUS
      <4> HIDE DEF l
      <4> QED
        BY <4>1, <4>2
    <3>4. CASE CronDropMissed(p)
      <4> DEFINE l == [loc[p] EXCEPT !.drop = {}]
      <4>1. l.pc \notin Delivering /\ l.picked = {}
        BY <3>4, <2>1, <1>t DEF CronDropMissed, At, Delivering, Local
      <4>2. Becomes(p, l)
        BY <3>4 DEF CronDropMissed
      <4> HIDE DEF l
      <4> QED
        BY <4>1, <4>2
    <3>5. CASE CronConvert(p)
      <4> DEFINE l == [loc[p] EXCEPT !.pc = "claim", !.todo = {}]
      <4>1. l.pc \notin Delivering /\ l.picked = {}
        BY <2>1, <1>t DEF Delivering, Local
      <4>2. Becomes(p, l)
        BY <3>5 DEF CronConvert
      <4> HIDE DEF l
      <4> QED
        BY <4>1, <4>2
    <3> QED
      BY <1>1, <3>1, <3>2, <3>3, <3>4, <3>5
  <2> QED
    BY <1>o, <2>1, <2>2, HoldsNothing
<1>2. CASE CronClaim(p)
  <2>1. loc[p].picked = {}
    BY <1>2, <1>h DEF CronClaim, At, Delivering
  <2> PICK S \in UpTo(loc[p].room, InStatus({"pending"})) :
        /\ row' = [j \in Jobs |-> IF j \in S THEN "sending" ELSE row[j]]
        /\ oldClaims' = oldClaims \ S
        /\ IF S = {} THEN Finish(p)
           ELSE Becomes(p, [loc[p] EXCEPT !.pc = "jobs", !.picked = S])
    BY <1>2 DEF CronClaim
  <2>2. S \subseteq Jobs /\ \A j \in S : row[j] = "pending"
    BY DEF UpTo, InStatus
  <2>3. CASE S = {}
    BY <2>1, <2>3, <1>o, <1>i, HoldsNothing DEF Finish, Delivering
  <2>4. CASE S # {}
    <3> DEFINE l == [loc[p] EXCEPT !.pc = "jobs", !.picked = S]
    <3>1. Becomes(p, l) /\ l.pc = "jobs" /\ l.picked = S
      BY <2>4, <1>t DEF Local
    <3> HIDE DEF l
    <3>2. loc'[p] = l
      BY <3>1, <1>l
    <3>3. \A j \in S : delivered[j] = 0
      BY <2>2 DEF CronInv, Spent, TypeOK
    <3>4. UNCHANGED delivered
      BY <1>2 DEF CronClaim
    <3>5. ClaimInv(p)'
      BY <3>1, <3>2, <3>3, <3>4, <2>2 DEF ClaimInv, Delivering
    <3> QED
      BY <3>1, <3>2, <3>5, <2>1, <2>2, <1>o, OneRunEnough
  <2> QED
    BY <2>3, <2>4
<1>3. CASE CronJobs(p)
  <2> DEFINE bad == {j \in loc[p].picked : job[j] # "fresh"}
  <2>0. Becomes(p, [loc[p] EXCEPT !.pc = "purge", !.drop = bad,
                                  !.picked = @ \ bad])
    BY <1>3 DEF CronJobs
  <2> HIDE DEF bad
  <2> DEFINE l == [loc[p] EXCEPT !.pc = "purge", !.drop = bad,
                                 !.picked = @ \ bad]
  <2>1. l.pc = "purge" /\ l.picked = loc[p].picked \ bad
    BY <1>t DEF Local
  <2>2. Becomes(p, l)
    BY <2>0
  <2> HIDE DEF l
  <2>3. loc'[p] = l
    BY <2>2, <1>l
  <2>4. loc[p].pc = "jobs" /\ UNCHANGED <<row, oldClaims, delivered>>
    BY <1>3 DEF CronJobs, At, table
  <2>5. ClaimInv(p)'
    BY <2>1, <2>3, <2>4, <1>c DEF ClaimInv, Delivering
  <2>6. \A j \in loc[p].picked : Spent(j)'
    BY <2>4, <1>t DEF CronInv, Spent
  <2> QED
    BY <2>1, <2>2, <2>3, <2>5, <2>6, <1>o, OneRunEnough
<1>4. CASE \E j \in Jobs : CronPurge(p, j)
  <2> PICK j \in Jobs : CronPurge(p, j)
    BY <1>4
  <2> DEFINE l == [loc[p] EXCEPT !.drop = @ \ {j}]
  <2>1. l.pc = "purge" /\ l.picked = loc[p].picked /\ loc[p].pc = "purge"
    BY <1>t DEF CronPurge, At, Local
  <2>2. Becomes(p, l)
    BY DEF CronPurge
  <2> HIDE DEF l
  <2>3. loc'[p] = l
    BY <2>2, <1>l
  <2>4. /\ \A k \in Jobs : row'[k] \in {row[k], "none"}
        /\ oldClaims' \subseteq oldClaims
        /\ UNCHANGED delivered
    BY DEF CronPurge, DeleteRows, table
  <2>5. ClaimInv(p)'
    BY <2>1, <2>3, <2>4, <1>c, <1>t DEF ClaimInv, Delivering
  <2>6. \A k \in loc[p].picked : Spent(k)'
    BY <2>4, <1>t DEF CronInv, Spent
  <2> QED
    BY <2>1, <2>2, <2>3, <2>5, <2>6, <1>o, OneRunEnough
<1>5. CASE CronPurged(p)
  <2>1. loc[p].pc = "purge" /\ UNCHANGED <<row, oldClaims, delivered>>
    BY <1>5 DEF CronPurged, At, table
  <2>2. CASE loc[p].picked = {}
    BY <1>5, <2>1, <2>2, <1>o, LetsGo DEF CronPurged
  <2>3. CASE loc[p].picked # {}
    <3> DEFINE l == [loc[p] EXCEPT !.pc = "dispatch", !.todo = loc[p].picked]
    <3>1. /\ l.pc = "dispatch" /\ l.picked = loc[p].picked
          /\ l.todo = loc[p].picked
      BY <1>t DEF Local
    <3>2. Becomes(p, l)
      BY <1>5, <2>3 DEF CronPurged
    <3> HIDE DEF l
    <3>3. loc'[p] = l
      BY <3>2, <1>l
    <3>4. ClaimInv(p)'
      BY <3>1, <3>3, <2>1, <1>c DEF ClaimInv, Delivering
    <3>5. \A k \in loc[p].picked : Spent(k)'
      BY <2>1, <1>t DEF CronInv, Spent
    <3> QED
      BY <3>1, <3>2, <3>3, <3>4, <3>5, <1>o, OneRunEnough
  <2> QED
    BY <2>2, <2>3
<1>6. CASE CronError(p)
  BY <1>6, <1>o, LetsGo DEF CronError, table
<1> QED
  BY <1>1, <1>2, <1>3, <1>4, <1>5, <1>6 DEF CronStep

\* A delivery sends what the run holds and has not delivered.
LEMMA DeliverClaims ==
    ASSUME TypeOK, CronInv, NEW p \in Crons, DeliverStep(p),
           "ambiguous" \notin Faults
    PROVE  CronInv'
<1>o. OthersKept(p)
  BY DeliverKeepsOthers
<1>t. /\ p \in Procs /\ p # "batch" /\ loc[p] \in Local
      /\ loc \in [Procs -> Local]
      /\ loc[p].picked \subseteq Jobs /\ loc[p].todo \subseteq Jobs
      /\ row \in [Jobs -> Statuses] /\ delivered \in [Jobs -> 0 .. 2]
  BY ConstantsAssumption DEF TypeOK, Procs, Local
<1>c. ClaimInv(p) /\ \A j \in Jobs : Spent(j)
  BY DEF CronInv
<1>l. ASSUME NEW l, Becomes(p, l)
      PROVE  loc'[p] = l
  BY <1>t, <1>l, BecomesIs
<1>v. ASSUME NEW j, Becomes(p, [loc[p] EXCEPT !.todo = @ \ {j}]),
             ClaimInv(p)', \A k \in loc[p].picked : Spent(k)'
      PROVE  CronInv'
  <2> DEFINE l == [loc[p] EXCEPT !.todo = @ \ {j}]
  <2>1. l.picked = loc[p].picked
    BY <1>t DEF Local
  <2>2. Becomes(p, l)
    BY <1>v
  <2> HIDE DEF l
  <2>3. loc'[p] = l
    BY <2>2, <1>l
  <2> QED
    BY <2>1, <2>2, <2>3, <1>v, <1>o, OneRunEnough
<1>f. ASSUME NEW j, Becomes(p, [loc[p] EXCEPT !.todo = @ \ {j}])
      PROVE  /\ loc'[p].pc = loc[p].pc /\ loc'[p].picked = loc[p].picked
             /\ loc'[p].todo = loc[p].todo \ {j}
  <2>1. loc'[p] = [loc[p] EXCEPT !.todo = @ \ {j}]
    BY <1>f, <1>l
  <2> QED
    BY <2>1, <1>t DEF Local
<1>1. ASSUME NEW j \in Jobs, Dispatch(p, j)
      PROVE  CronInv'
  <2>1. /\ loc[p].pc = "dispatch" /\ j \in loc[p].todo
        /\ Becomes(p, [loc[p] EXCEPT !.todo = @ \ {j}])
        /\ MarkDispatched(j) /\ UNCHANGED delivered
    BY <1>1 DEF Dispatch, At
  <2>2. j \in loc[p].picked /\ row[j] \in {"sending", "none"}
    BY <2>1, <1>c DEF ClaimInv
  <2>3. /\ oldClaims' \subseteq oldClaims
        /\ \A k \in Jobs \ {j} : row'[k] = row[k]
        /\ row'[j] \in {"dispatched", "none"}
    BY <2>1, <2>2, <1>t DEF MarkDispatched, table
  <2>4. /\ loc'[p].pc = "dispatch" /\ loc'[p].picked = loc[p].picked
        /\ loc'[p].todo = loc[p].todo \ {j}
    BY <2>1, <1>f
  <2>5. ClaimInv(p)'
    BY <2>1, <2>3, <2>4, <1>c, <1>t DEF ClaimInv, Delivering
  <2>6. \A k \in loc[p].picked : Spent(k)'
    BY <2>1, <1>c, <1>t DEF ClaimInv, Spent
  <2> QED
    BY <2>1, <2>5, <2>6, <1>v
<1>2. ASSUME NEW j \in Jobs, SentItem(p, j)
      PROVE  CronInv'
  <2>1. /\ loc[p].pc = "sent" /\ j \in loc[p].todo
        /\ Becomes(p, [loc[p] EXCEPT !.todo = @ \ {j}])
        /\ MarkSent(j) \/ UNCHANGED table
        /\ UNCHANGED delivered
    BY <1>2 DEF SentItem, At
  <2>2. /\ j \in loc[p].picked
        /\ \A k \in loc[p].picked : row[k] \in {"dispatched", "sent", "none"}
    BY <2>1, <1>c DEF ClaimInv
  <2>3. /\ oldClaims' \subseteq oldClaims
        /\ \A k \in loc[p].picked : row'[k] \in {"dispatched", "sent", "none"}
    BY <2>1, <2>2, <1>t DEF MarkSent, table
  <2>4. /\ loc'[p].pc = "sent" /\ loc'[p].picked = loc[p].picked
        /\ loc'[p].todo = loc[p].todo \ {j}
    BY <2>1, <1>f
  <2>5. ClaimInv(p)'
    BY <2>1, <2>3, <2>4, <1>c DEF ClaimInv, Delivering
  <2>6. \A k \in loc[p].picked : Spent(k)'
    BY <2>1, <2>3, <1>c, <1>t DEF Spent
  <2> QED
    BY <2>1, <2>5, <2>6, <1>v
<1>3. CASE DispatchDone(p)
  <2> DEFINE l == [loc[p] EXCEPT !.pc = "send"]
  <2>1. l.pc = "send" /\ l.picked = loc[p].picked
    BY <1>t DEF Local
  <2>2. Becomes(p, l)
    BY <1>3 DEF DispatchDone, Goto
  <2> HIDE DEF l
  <2>3. loc'[p] = l
    BY <2>2, <1>l
  <2>4. /\ loc[p].pc = "dispatch" /\ loc[p].todo = {}
        /\ UNCHANGED <<row, oldClaims, delivered>>
    BY <1>3 DEF DispatchDone, At, table
  <2>5. ClaimInv(p)'
    BY <2>1, <2>3, <2>4, <1>c DEF ClaimInv, Delivering
  <2>6. \A k \in loc[p].picked : Spent(k)'
    BY <2>4, <1>c, <1>t DEF Spent
  <2> QED
    BY <2>1, <2>2, <2>3, <2>5, <2>6, <1>o, OneRunEnough
<1>4. CASE SendOk(p)
  <2> DEFINE l == [loc[p] EXCEPT !.pc = "sent", !.todo = loc[p].picked]
  <2>1. l.pc = "sent" /\ l.picked = loc[p].picked /\ l.todo = loc[p].picked
    BY <1>t DEF Local
  <2>2. Becomes(p, l)
    BY <1>4 DEF SendOk
  <2> HIDE DEF l
  <2>3. loc'[p] = l
    BY <2>2, <1>l
  <2>4. loc[p].pc = "send" /\ UNCHANGED <<row, oldClaims>> /\ Reaches(p, 1)
    BY <1>4 DEF SendOk, At, table
  <2>5. \A k \in loc[p].picked :
           delivered[k] = 0 /\ row[k] \in {"dispatched", "none"}
    BY <2>4, <1>c DEF ClaimInv
  <2>6. \A k \in loc[p].picked : delivered'[k] = 1
    BY <2>4, <2>5, <1>t DEF Reaches
  <2>7. ClaimInv(p)'
    BY <2>1, <2>3, <2>4, <2>5, <1>c DEF ClaimInv, Delivering
  <2>8. \A k \in loc[p].picked : Spent(k)'
    BY <2>4, <2>5, <2>6 DEF Spent
  <2> QED
    BY <2>1, <2>2, <2>3, <2>7, <2>8, <1>o, OneRunEnough
<1>5. CASE SendError(p)
  <2>1. Finish(p) /\ UNCHANGED row /\ Reaches(p, 0)
    BY <1>5, <1>t DEF SendError, table
  <2>2. \A j \in Jobs : delivered'[j] = delivered[j]
    BY <2>1, <1>t DEF Reaches
  <2> QED
    BY <2>1, <2>2, <1>o, LetsGo
<1>6. CASE SentDone(p)
  BY <1>6, <1>o, <1>t, LetsGo DEF SentDone, table
<1> QED
  BY <1>1, <1>2, <1>3, <1>4, <1>5, <1>6 DEF DeliverStep

\* A crash lets every row go, and what happens around the notifier deletes
\* rows or gives up claims that nobody holds.
LEMMA EnvClaims ==
    ASSUME TypeOK, CronInv, EnvStep
    PROVE  CronInv'
<1>b. /\ "batch" \in Procs /\ Crons \subseteq Procs /\ "batch" \notin Crons
      /\ \A p \in Crons : loc[p].picked \subseteq Jobs
  BY ConstantsAssumption DEF Procs, TypeOK, Local
<1>1. CASE Crash
  <2>1. /\ B' = [Idle EXCEPT !.pc = "recover"]
        /\ \A p \in Crons : loc'[p] = Idle
    BY <1>1, <1>b DEF Crash, B
  <2>2. B'.pc = "recover" /\ \A p \in Crons : loc'[p].picked = {} /\ loc'[p].pc = "idle"
    BY <2>1 DEF Idle
  <2>3. UNCHANGED <<row, delivered>>
    BY <1>1 DEF Crash, table
  <2>4. \A p \in Crons : ClaimInv(p)'
    BY <2>2 DEF ClaimInv, Delivering
  <2>5. \A j \in Jobs : Spent(j)'
    BY <2>3 DEF CronInv, Spent
  <2> QED
    BY <2>2, <2>4, <2>5 DEF CronInv, Apart
<1>2. CASE ~Crash
  <2>1. UNCHANGED <<loc, delivered>>
    BY <1>2 DEF EnvStep, Midnight, UserChanges, CancelPending, ClaimAges,
       JobAges, JobExpires, JobRelisted
  <2>2. \A j \in Jobs : row'[j] \in {row[j], "none"}
    BY <1>2 DEF EnvStep, Midnight, UserChanges, CancelPending, ClaimAges,
       JobAges, JobExpires, JobRelisted, DeleteRows, table, TypeOK
  <2>3. \A p \in Crons : \A j \in loc[p].picked : j \notin oldClaims => j \notin oldClaims'
    BY <1>2 DEF EnvStep, Midnight, UserChanges, CancelPending, ClaimAges,
       JobAges, JobExpires, JobRelisted, DeleteRows, table
  <2>4. ASSUME NEW p \in Crons
        PROVE  ClaimInv(p)'
    BY <2>1, <2>2, <2>3, <1>b DEF CronInv, ClaimInv
  <2>5. \A j \in Jobs : Spent(j)'
    BY <2>1, <2>2 DEF CronInv, Spent
  <2> QED
    BY <2>1, <2>4, <2>5 DEF CronInv, Apart, B
<1> QED
  BY <1>1, <1>2

\* When no match-notify message arrives and no answer of Telegram gets lost, the
\* digest and the accumulation cron together never send a job twice: whatever
\* the user's plan, the jobs and the clock do meanwhile, whatever statement of
\* a run fails, and wherever the process crashes.
THEOREM CronsDeliverOnce ==
    ASSUME Messages = {}, "ambiguous" \notin Faults
    PROVE  Spec => []AtMostOnce
<1>1. ASSUME Init
      PROVE  CronInv
  <2>1. B = Idle /\ \A p \in Crons : loc[p] = Idle
    BY <1>1 DEF Init, Procs, B
  <2>2. Idle.pc = "idle" /\ Idle.picked = {}
    BY DEF Idle
  <2>3. \A p \in Crons : ClaimInv(p)
    BY <2>1, <2>2 DEF ClaimInv, Delivering
  <2>4. \A j \in Jobs : Spent(j)
    BY <1>1 DEF Init, Spent
  <2> QED
    BY <2>1, <2>2, <2>3, <2>4 DEF CronInv, Apart
<1>2. ASSUME TypeOK, CronInv, [Next]_vars
      PROVE  CronInv'
  <2>b. B.pc \in {"idle", "recover"}
    BY <1>2 DEF CronInv
  <2>1. CASE BatchStep
    <3>1. Recover
      BY <2>1, <2>b DEF BatchStep, Pop, LoadBatch, DropStaleItem, EnsureDone,
         CountBatch, MissDone, BatchError, DispatchError, FailDone, Ack, Nack,
         Requeue, GiveBackError, Ensure, MissItem, FailItem, At, B
    <3>2. Finish("batch") /\ UNCHANGED <<row, oldClaims, delivered>>
      BY <3>1 DEF Recover, table
    <3>3. B' = Idle /\ \A p \in Crons : loc'[p] = loc[p]
      BY <3>2, <1>2, BatchLocal, BecomesIs, ConstantsAssumption DEF Finish, Procs, B
    <3>4. \A p \in Crons : ClaimInv(p)'
      BY <1>2, <3>2, <3>3 DEF CronInv, ClaimInv
    <3> QED
      BY <1>2, <3>2, <3>3, <3>4 DEF CronInv, Apart, Spent, Idle
  <2>2. CASE \E p \in Crons : CronStep(p)
    BY <1>2, <2>2, CronClaims
  <2>3. CASE \E p \in Procs : DeliverStep(p)
    <3>1. ~DeliverStep("batch")
      BY <2>b DEF DeliverStep, Dispatch, DispatchDone, SendOk, SendError,
         SentItem, SentDone, At, B
    <3> QED
      BY <1>2, <2>3, <3>1, DeliverClaims DEF Procs
  <2>4. CASE EnvStep
    BY <1>2, <2>4, EnvClaims
  <2>5. CASE UNCHANGED vars
    <3>1. UNCHANGED <<row, oldClaims, delivered, loc>>
      BY <2>5 DEF vars, table
    <3> QED
      BY <1>2, <3>1 DEF CronInv, ClaimInv, Apart, Spent, B
  <2> QED
    BY <1>2, <2>1, <2>2, <2>3, <2>4, <2>5 DEF Next
<1>3. CronInv => AtMostOnce
  BY DEF CronInv, Spent, AtMostOnce
<1> QED
  BY <1>1, <1>2, <1>3, TypeCorrect, PTL DEF Spec

-----------------------------------------------------------------------------
(* A row that was marked sent stays as it is, when no cron runs.           *)

\* What ExecuteBatch may still delete or mark failed has not been marked sent.
HoldInv ==
    /\ B.pc \in {"idle", "load", "recover"} => B.picked = {} /\ B.drop = {}
    /\ B.pc \in {"dispatch", "fail", "sent"} => B.todo \subseteq B.picked
    /\ B.pc \in {"ensure", "count", "missed", "dispatch", "send", "fail"} =>
          \A j \in B.picked : row[j] # "sent"
    /\ B.pc = "ensure" => \A j \in B.drop : row[j] # "sent"

SentKept == \A j \in InStatus({"sent"}) : row'[j] = "sent"

\* What the statements do to a row that was marked sent, and who marks one so.
LEMMA SentRows ==
    ASSUME TypeOK, NEW j \in Jobs, NEW S \in SUBSET Jobs
    PROVE  /\ MarkDispatched(j) \/ MarkMissed(j) \/ EnsurePending(j) =>
                \A k \in Jobs : row'[k] = "sent" <=> row[k] = "sent"
           /\ MarkSent(j) => \A k \in Jobs : /\ row[k] = "sent" => row'[k] = "sent"
                                             /\ k # j => row'[k] = row[k]
           /\ MarkFailed(j) => \A k \in Jobs : /\ row'[k] = "sent" => row[k] = "sent"
                                               /\ k # j => row'[k] = row[k]
           /\ DeleteRows(S) => \A k \in Jobs : /\ row'[k] = "sent" => row[k] = "sent"
                                               /\ k \notin S => row'[k] = row[k]
BY DEF TypeOK, MarkDispatched, MarkMissed, EnsurePending, MarkSent, MarkFailed,
   DeleteRows, table

\* The steps of ExecuteBatch up to its return.
LEMMA BatchHold ==
    ASSUME TypeOK, HoldInv, BatchStep
    PROVE  HoldInv' /\ SentKept
<1>t. /\ B.picked \subseteq Jobs /\ B.todo \subseteq Jobs
      /\ B.drop \subseteq Jobs /\ row \in [Jobs -> Statuses]
  BY BatchLocal DEF TypeOK, Local
<1>k. ASSUME UNCHANGED table
      PROVE  SentKept /\ UNCHANGED row
  BY <1>k DEF SentKept, InStatus, table
<1>1. ASSUME NEW m \in Messages, Pop(m)
      PROVE  HoldInv' /\ SentKept
  <2>1. B.pc = "idle" /\ UNCHANGED table
    BY <1>1 DEF Pop, At, B
  <2>2. B' = [B EXCEPT !.pc = "load", !.msg = {m}]
    BY <1>1, BatchLocal, BecomesIs DEF Pop, B
  <2>3. B'.pc = "load" /\ B'.picked = B.picked /\ B'.drop = B.drop
    BY <2>2, BatchLocal DEF Local
  <2> QED
    BY <2>1, <2>3, <1>k DEF HoldInv
<1>2. CASE LoadBatch
  <2>1. B.pc = "load" /\ UNCHANGED table
    BY <1>2 DEF LoadBatch, At, B
  <2> QED
    BY <2>1, <1>2, <1>k, LoadFields DEF HoldInv
<1>3. CASE DropStaleItem
  <2>1. B.pc = "ensure" /\ (DeleteRows(B.drop) \/ UNCHANGED table)
    BY <1>3 DEF DropStaleItem, At, B
  <2>2. SentKept /\ \A k \in Jobs : row'[k] = "sent" => row[k] = "sent"
    <3>1. CASE DeleteRows(B.drop)
      BY <3>1, <2>1, <1>t, SentRows DEF SentKept, InStatus, HoldInv
    <3> QED
      BY <3>1, <2>1, <1>k
  <2> QED
    BY <2>1, <2>2, <1>3, <1>t, DropFields DEF HoldInv
<1>4. CASE EnsureDone
  <2>1. B.pc = "ensure" /\ UNCHANGED table
    BY <1>4 DEF EnsureDone, At, B
  <2>2. B'.pc = "settle" \/ (B'.pc = "count" /\ B'.picked = B.picked)
    BY <1>4, ReturnFields, GotoFields DEF EnsureDone
  <2> QED
    BY <2>1, <2>2, <1>k DEF HoldInv
<1>5. CASE CountBatch
  <2>1. B.pc = "count" /\ UNCHANGED table
    BY <1>5 DEF CountBatch, At, B
  <2> QED
    BY <2>1, <1>5, <1>k, CountFields DEF HoldInv
<1>6. CASE MissDone
  <2>1. B.pc = "missed" /\ UNCHANGED table
    BY <1>6 DEF MissDone, At, B
  <2> QED
    BY <2>1, <1>6, <1>k, MissDoneFields DEF HoldInv
<1>7. CASE BatchError
  BY <1>7, <1>k, ReturnFields DEF BatchError, HoldInv
<1>8. CASE DispatchError
  <2>1. B.pc = "dispatch" /\ UNCHANGED table
    BY <1>8 DEF DispatchError, At, B
  <2> QED
    BY <2>1, <1>8, <1>k, DispatchErrorFields DEF HoldInv
<1>9. CASE FailDone
  BY <1>9, <1>k, GotoFields DEF FailDone, HoldInv
<1>10. CASE Ack \/ Nack \/ Requeue \/ GiveBackError \/ Recover
  <2>1. UNCHANGED table /\ (B' = Idle \/ B' = [Idle EXCEPT !.pc = "recover"])
    BY <1>10, BatchLocal, BecomesIs
       DEF Ack, Nack, Requeue, GiveBackError, Recover, Finish, B
  <2> QED
    BY <2>1, <1>k DEF HoldInv, Idle
<1>11. ASSUME NEW j \in Jobs, Ensure(j)
       PROVE  HoldInv' /\ SentKept
  <2>1. B.pc = "ensure" /\ B.drop = {} /\ EnsurePending(j)
    BY <1>11 DEF Ensure, At, B
  <2>2. SentKept /\ \A k \in Jobs : row'[k] = "sent" => row[k] = "sent"
    BY <2>1, SentRows DEF SentKept, InStatus
  <2> DEFINE send == {j} \cap InStatus(Sendable)
  <2>3. \A k \in send : row[k] # "sent" /\ k \in Jobs
    BY DEF InStatus, Sendable
  <2>4. /\ B'.pc = "ensure"
        /\ B'.picked = B.picked \cup (send \cap B.seen)
        /\ B'.drop = send \ B.seen
    BY <1>11, EnsureFields
  <2> HIDE DEF send
  <2> QED
    BY <2>1, <2>2, <2>3, <2>4, <1>t DEF HoldInv
<1>12. ASSUME NEW j \in Jobs, MissItem(j)
       PROVE  HoldInv' /\ SentKept
  <2>1. B.pc = "missed" /\ MarkMissed(j)
    BY <1>12 DEF MissItem, At, B
  <2>2. SentKept /\ \A k \in Jobs : row'[k] = "sent" => row[k] = "sent"
    BY <2>1, SentRows DEF SentKept, InStatus
  <2>3. B'.pc = B.pc /\ B'.picked = B.picked
    BY <1>12, VisitFields DEF MissItem, B
  <2> QED
    BY <2>1, <2>2, <2>3, <1>t DEF HoldInv
<1>13. ASSUME NEW j \in Jobs, FailItem(j)
       PROVE  HoldInv' /\ SentKept
  <2>1. B.pc = "fail" /\ j \in B.todo /\ (MarkFailed(j) \/ UNCHANGED table)
    BY <1>13 DEF FailItem, At, B
  <2>2. row[j] # "sent"
    BY <2>1 DEF HoldInv
  <2>3. SentKept /\ \A k \in Jobs : row'[k] = "sent" => row[k] = "sent"
    <3>1. CASE MarkFailed(j)
      BY <3>1, <2>2, SentRows DEF SentKept, InStatus
    <3> QED
      BY <3>1, <2>1, <1>k
  <2>4. B'.pc = B.pc /\ B'.picked = B.picked /\ B'.todo = B.todo \ {j}
    BY <1>13, VisitFields DEF FailItem, B
  <2> QED
    BY <2>1, <2>3, <2>4, <1>t DEF HoldInv
<1> QED
  BY <1>1, <1>2, <1>3, <1>4, <1>5, <1>6, <1>7, <1>8, <1>9, <1>10, <1>11,
     <1>12, <1>13 DEF BatchStep

\* Its dispatch, send and mark-sent steps.
LEMMA DeliverHold ==
    ASSUME TypeOK, HoldInv, DeliverStep("batch")
    PROVE  HoldInv' /\ SentKept
<1>t. /\ B.picked \subseteq Jobs /\ B.todo \subseteq Jobs
      /\ row \in [Jobs -> Statuses]
  BY BatchLocal DEF TypeOK, Local
<1>k. ASSUME UNCHANGED table
      PROVE  SentKept /\ UNCHANGED row
  BY <1>k DEF SentKept, InStatus, table
<1>1. ASSUME NEW j \in Jobs, Dispatch("batch", j)
      PROVE  HoldInv' /\ SentKept
  <2>1. B.pc = "dispatch" /\ MarkDispatched(j)
    BY <1>1 DEF Dispatch, At, B
  <2>2. SentKept /\ \A k \in Jobs : row'[k] = "sent" => row[k] = "sent"
    BY <2>1, SentRows DEF SentKept, InStatus
  <2>3. B'.pc = B.pc /\ B'.picked = B.picked /\ B'.todo = B.todo \ {j}
    BY <1>1, VisitFields DEF Dispatch, B
  <2> QED
    BY <2>1, <2>2, <2>3, <1>t DEF HoldInv
<1>2. ASSUME NEW j \in Jobs, SentItem("batch", j)
      PROVE  HoldInv' /\ SentKept
  <2>1. B.pc = "sent" /\ (MarkSent(j) \/ UNCHANGED table)
    BY <1>2 DEF SentItem, At, B
  <2>2. SentKept
    BY <2>1, <1>k, SentRows DEF SentKept, InStatus
  <2>3. B'.pc = B.pc /\ B'.picked = B.picked /\ B'.todo = B.todo \ {j}
    BY <1>2, VisitFields DEF SentItem, B
  <2> QED
    BY <2>1, <2>2, <2>3 DEF HoldInv
<1>3. CASE DispatchDone("batch")
  <2>1. B.pc = "dispatch" /\ UNCHANGED table
    BY <1>3 DEF DispatchDone, At, B
  <2> QED
    BY <2>1, <1>3, <1>k, GotoFields DEF DispatchDone, HoldInv
<1>4. CASE SendOk("batch")
  BY <1>4, <1>k, SendOkFields DEF SendOk, HoldInv
<1>5. CASE SendError("batch")
  <2>1. B.pc = "send" /\ UNCHANGED table
    BY <1>5 DEF SendError, At, B
  <2> QED
    BY <2>1, <1>5, <1>k, SendErrorFields DEF HoldInv
<1>6. CASE SentDone("batch")
  BY <1>6, <1>k, ReturnFields DEF SentDone, HoldInv
<1> QED
  BY <1>1, <1>2, <1>3, <1>4, <1>5, <1>6 DEF DeliverStep

\* What happens around the notifier deletes pending rows only.
LEMMA EnvHold ==
    ASSUME TypeOK, HoldInv, EnvStep
    PROVE  HoldInv' /\ SentKept
<1>1. SentKept /\ \A k \in Jobs : row'[k] = "sent" => row[k] = "sent"
  <2>1. CASE UNCHANGED row
    BY <2>1 DEF SentKept, InStatus
  <2>2. ASSUME NEW S \in SUBSET Jobs, DeleteRows(S \cap InStatus({"pending"}))
        PROVE  SentKept /\ \A k \in Jobs : row'[k] = "sent" => row[k] = "sent"
    BY <2>2 DEF DeleteRows, SentKept, InStatus, TypeOK
  <2>3. CASE CancelPending
    <3>1. expiring \in SUBSET Jobs
      BY DEF TypeOK
    <3> QED
      BY <2>1, <2>2, <2>3, <3>1 DEF CancelPending, table
  <2>4. CASE \E j \in Jobs : JobExpires(j)
    <3> PICK j \in Jobs : JobExpires(j)
      BY <2>4
    <3>1. {j} \in SUBSET Jobs
      OBVIOUS
    <3> QED
      BY <2>1, <2>2, <3>1 DEF JobExpires, table
  <2> QED
    BY <2>1, <2>3, <2>4 DEF EnvStep, Crash, Midnight, UserChanges, ClaimAges,
       JobAges, JobRelisted, table
<1>2. UNCHANGED loc \/ B' = [Idle EXCEPT !.pc = "recover"]
  BY BatchLocal DEF EnvStep, Crash, Midnight, UserChanges, CancelPending,
     ClaimAges, JobAges, JobExpires, JobRelisted, B
<1>3. B.picked \subseteq Jobs /\ B.drop \subseteq Jobs
  BY BatchLocal DEF Local
<1> QED
  BY <1>1, <1>2, <1>3 DEF HoldInv, Idle, B

\* When no cron runs, a row that was marked sent stays so, whatever statements,
\* Redis calls and sends fail, whenever the process crashes and whatever happens
\* to the jobs and the user: a late answer or a redelivered message neither deletes
\* it nor makes it failed or pending again.
THEOREM SentStays ==
    ASSUME Crons = {}
    PROVE  Spec => SentIsFinal
<1>1. ASSUME Init
      PROVE  HoldInv
  BY <1>1 DEF Init, Procs, Idle, B, HoldInv
<1>2. ASSUME TypeOK, HoldInv, [Next]_vars
      PROVE  HoldInv' /\ SentKept
  <2>1. CASE BatchStep
    BY <1>2, <2>1, BatchHold
  <2>2. CASE \E p \in Procs : DeliverStep(p)
    BY <1>2, <2>2, DeliverHold DEF Procs
  <2>3. CASE EnvStep
    BY <1>2, <2>3, EnvHold
  <2>4. CASE UNCHANGED vars
    BY <1>2, <2>4 DEF vars, table, HoldInv, SentKept, InStatus, B
  <2> QED
    BY <1>2, <2>1, <2>2, <2>3, <2>4 DEF Next
<1>3. ASSUME SentKept
      PROVE  [\A j \in InStatus({"sent"}) : row'[j] = "sent"]_row
  BY <1>3 DEF SentKept
<1> QED
  BY <1>1, <1>2, <1>3, TypeCorrect, PTL DEF Spec, SentIsFinal

-----------------------------------------------------------------------------
(* The daily cap, when no cron runs and the user keeps the plan.           *)

\* The rows CountToday counts.
Counted == InStatus({"dispatched", "sent"}) \cap today

\* The cap holds for what is counted, and from the count on for what is counted
\* together with what the batch in hand is going to add.
CapInv ==
    /\ Cardinality(Counted) <= DailyCap[plan]
    /\ B.pc \in {"ensure", "count"} => B.room = DailyCap[plan]
    /\ B.pc \in {"missed", "dispatch", "send", "sent"} =>
          Cardinality(Counted \cup B.picked) <= DailyCap[plan]

\* A set of jobs has no fewer elements than a part of it.
LEMMA JobCount ==
    ASSUME NEW S \in SUBSET Jobs, NEW T, T \subseteq S
    PROVE  /\ IsFiniteSet(T)
           /\ Cardinality(S) \in Nat /\ Cardinality(T) \in Nat
           /\ Cardinality(T) <= Cardinality(S)
<1>1. IsFiniteSet(S)
  BY ConstantsAssumption, FS_Subset
<1> QED
  BY <1>1, FS_Subset, FS_CardinalityType

\* Only a row that is dispatched or marked sent can be counted anew.
LEMMA CountedRows ==
    ASSUME TypeOK, NEW j \in Jobs
    PROVE  /\ MarkDispatched(j) \/ MarkSent(j) => Counted' \subseteq Counted \cup {j}
           /\ (MarkFailed(j) \/ MarkMissed(j) \/ EnsurePending(j) \/ UNCHANGED table)
                => Counted' \subseteq Counted
BY DEF TypeOK, MarkDispatched, MarkMissed, EnsurePending, MarkSent, MarkFailed,
   table, Counted, InStatus

\* A step that counts nothing but rows the batch has picked keeps the cap, unless
\* it is the step that picks them.
LEMMA CapKept ==
    ASSUME TypeOK, CapInv, plan' = plan,
           \/ Counted' \subseteq Counted
           \/ /\ B.pc \in {"dispatch", "sent"} /\ B'.pc = B.pc
              /\ Counted' \subseteq Counted \cup B.picked,
           B'.pc \in {"missed", "dispatch", "send", "sent"} =>
               /\ B.pc \in {"missed", "dispatch", "send", "sent"}
               /\ B'.picked \subseteq B.picked,
           B'.pc \in {"ensure", "count"} => B'.room = DailyCap[plan]
    PROVE  CapInv'
<1> DEFINE S == Counted \cup B.picked
           T == Counted' \cup B'.picked
           cap == DailyCap[plan]
<1>t. S \in SUBSET Jobs /\ Counted \in SUBSET Jobs
  BY BatchLocal DEF Local, Counted, InStatus
<1>n. cap \in Nat
  BY ConstantsAssumption DEF TypeOK
<1>1. CASE Counted' \subseteq Counted
  <2>1. Cardinality(Counted') <= cap
    <3>1. Cardinality(Counted') <= Cardinality(Counted)
      BY <1>1, <1>t, JobCount
    <3>2. Cardinality(Counted) <= cap
      BY DEF CapInv
    <3>3. Cardinality(Counted) \in Nat /\ Cardinality(Counted') \in Nat
      BY <1>1, <1>t, JobCount
    <3> QED
      BY <3>1, <3>2, <3>3, <1>n
  <2>2. ASSUME B'.pc \in {"missed", "dispatch", "send", "sent"}
        PROVE  Cardinality(T) <= cap
    <3>1. T \subseteq S
      BY <1>1, <2>2
    <3>2. Cardinality(S) <= cap
      BY <2>2 DEF CapInv
    <3>3. Cardinality(T) <= Cardinality(S) /\ Cardinality(S) \in Nat /\ Cardinality(T) \in Nat
      BY <3>1, <1>t, JobCount
    <3> QED
      BY <3>2, <3>3, <1>n
  <2> QED
    BY <2>1, <2>2 DEF CapInv
<1>2. CASE /\ B.pc \in {"dispatch", "sent"} /\ B'.pc = B.pc
           /\ Counted' \subseteq Counted \cup B.picked
  <2>1. T \subseteq S /\ Counted' \subseteq S
    BY <1>2
  <2>2. Cardinality(S) <= cap
    BY <1>2 DEF CapInv
  <2>3. /\ Cardinality(T) <= Cardinality(S) /\ Cardinality(Counted') <= Cardinality(S)
        /\ Cardinality(S) \in Nat /\ Cardinality(T) \in Nat /\ Cardinality(Counted') \in Nat
    BY <2>1, <1>t, JobCount
  <2>4. Cardinality(T) <= cap /\ Cardinality(Counted') <= cap
    BY <2>2, <2>3, <1>n
  <2> QED
    BY <1>2, <2>4 DEF CapInv
<1> QED
  BY <1>1, <1>2

\* selectBatchWithinDailyCap picks no more than the cap leaves.
LEMMA CountCap ==
    ASSUME TypeOK, CapInv, CountBatch
    PROVE  CapInv'
<1> DEFINE cap == DailyCap[plan]
           keep == B'.picked
<1>1. B.pc = "count" /\ UNCHANGED <<row, today, plan>>
  BY DEF CountBatch, At, B, table, world
<1>2. Counted' = Counted /\ plan' = plan
  BY <1>1 DEF Counted, InStatus
<1>3. /\ Counted \in SUBSET Jobs /\ B.picked \in SUBSET Jobs
      /\ keep \subseteq B.picked /\ keep \in UpTo(B.room - CountToday, B.picked)
  BY CountFields, BatchLocal DEF Local, Counted, InStatus
<1>4. cap \in Nat
  BY ConstantsAssumption DEF TypeOK
<1>5. B.room = cap /\ Cardinality(Counted) <= cap
  BY <1>1 DEF CapInv
<1>6. /\ Cardinality(Counted) \in Nat
      /\ IsFiniteSet(Counted) /\ IsFiniteSet(keep)
      /\ CountToday = Cardinality(Counted)
      /\ Cardinality(keep) \in Nat /\ Cardinality(B.picked) \in Nat
  BY <1>3, JobCount DEF CountToday, Counted
<1>7. Cardinality(Counted \cup keep) <= cap
  <2>1. CASE B.room - CountToday <= 0
    <3>1. keep = {}
      BY <1>3, <2>1 DEF UpTo
    <3>2. Counted \cup keep = Counted
      BY <3>1
    <3> QED
      BY <3>2, <1>5
  <2>2. CASE ~(B.room - CountToday <= 0)
    <3>1. Cardinality(keep) = IF Cardinality(B.picked) <= B.room - CountToday
                              THEN Cardinality(B.picked) ELSE B.room - CountToday
      BY <1>3, <2>2 DEF UpTo
    <3>2. Cardinality(keep) <= cap - Cardinality(Counted)
      BY <3>1, <1>4, <1>5, <1>6
    <3>3. /\ Cardinality(Counted \cup keep) =
                Cardinality(Counted) + Cardinality(keep) - Cardinality(Counted \cap keep)
          /\ Cardinality(Counted \cap keep) \in Nat
      BY <1>6, FS_Union, FS_Intersection, FS_CardinalityType
    <3> QED
      BY <3>2, <3>3, <1>4, <1>6
  <2> QED
    BY <2>1, <2>2
<1>8. B'.pc = "missed"
  BY CountFields
<1> QED
  BY <1>2, <1>5, <1>7, <1>8 DEF CapInv

\* The steps of ExecuteBatch keep the cap.
LEMMA BatchCap ==
    ASSUME TypeOK, CapInv, BatchStep
    PROVE  CapInv'
<1>t. B.picked \subseteq Jobs /\ B.drop \in SUBSET Jobs
  BY BatchLocal DEF Local
<1>p. plan' = plan
  BY DEF BatchStep, Pop, LoadBatch, DropStaleItem, EnsureDone, CountBatch,
     MissDone, BatchError, DispatchError, FailDone, Ack, Nack, Requeue,
     GiveBackError, Recover, Ensure, MissItem, FailItem, world
<1>k. ASSUME UNCHANGED table
      PROVE  Counted' \subseteq Counted
  BY <1>k DEF Counted, InStatus, table
<1>e. ASSUME B.pc = "ensure"
      PROVE  B.room = DailyCap[plan]
  BY <1>e DEF CapInv
<1>1. ASSUME NEW m \in Messages, Pop(m)
      PROVE  CapInv'
  <2>1. UNCHANGED table /\ B' = [B EXCEPT !.pc = "load", !.msg = {m}]
    BY <1>1, BatchLocal, BecomesIs DEF Pop, B
  <2>2. B'.pc = "load"
    BY <2>1, BatchLocal DEF Local
  <2> QED
    BY <2>1, <2>2, <1>p, <1>k, CapKept
<1>2. CASE LoadBatch
  <2>1. UNCHANGED table
    BY <1>2 DEF LoadBatch
  <2> QED
    BY <1>2, <2>1, <1>p, <1>k, LoadFields, CapKept
<1>3. CASE DropStaleItem
  <2>1. B.pc = "ensure" /\ (DeleteRows(B.drop) \/ UNCHANGED table)
    BY <1>3 DEF DropStaleItem, At, B
  <2>2. Counted' \subseteq Counted
    <3>1. CASE DeleteRows(B.drop)
      BY <3>1, <1>t DEF DeleteRows, Counted, InStatus, TypeOK
    <3> QED
      BY <2>1, <3>1, <1>k
  <2> QED
    BY <2>1, <2>2, <1>3, <1>p, <1>e, DropFields, CapKept
<1>4. CASE EnsureDone
  <2>1. B.pc = "ensure" /\ UNCHANGED table
    BY <1>4 DEF EnsureDone, At, B
  <2>2. B'.pc = "settle" \/ (B'.pc = "count" /\ B'.room = B.room)
    BY <1>4, ReturnFields, GotoFields DEF EnsureDone
  <2> QED
    BY <2>1, <2>2, <1>k, <1>p, <1>e, CapKept
<1>5. CASE MissDone
  <2>1. B.pc = "missed" /\ UNCHANGED table
    BY <1>5 DEF MissDone, At, B
  <2> QED
    BY <2>1, <1>5, <1>k, <1>p, MissDoneFields, CapKept
<1>6. CASE BatchError \/ DispatchError \/ FailDone
  <2>1. UNCHANGED table
    BY <1>6 DEF BatchError, DispatchError, FailDone
  <2>2. B'.pc \in {"settle", "fail"}
    BY <1>6, ReturnFields, GotoFields, DispatchErrorFields
       DEF BatchError, FailDone
  <2> QED
    BY <2>1, <2>2, <1>k, <1>p, CapKept
<1>7. CASE Ack \/ Nack \/ Requeue \/ GiveBackError \/ Recover
  <2>1. UNCHANGED table /\ (B' = Idle \/ B' = [Idle EXCEPT !.pc = "recover"])
    BY <1>7, BatchLocal, BecomesIs
       DEF Ack, Nack, Requeue, GiveBackError, Recover, Finish, B
  <2>2. B'.pc \in {"idle", "recover"}
    BY <2>1 DEF Idle
  <2> QED
    BY <2>1, <2>2, <1>k, <1>p, CapKept
<1>8. ASSUME NEW j \in Jobs, Ensure(j)
      PROVE  CapInv'
  <2>1. B.pc = "ensure" /\ EnsurePending(j)
    BY <1>8 DEF Ensure, At, B
  <2>2. Counted' \subseteq Counted
    BY <2>1, CountedRows
  <2> QED
    BY <2>1, <2>2, <1>8, <1>p, <1>e, EnsureFields, CapKept
<1>9. ASSUME NEW j \in Jobs, MissItem(j)
      PROVE  CapInv'
  <2>1. B.pc = "missed" /\ MarkMissed(j)
    BY <1>9 DEF MissItem, At, B
  <2>2. Counted' \subseteq Counted
    BY <2>1, CountedRows
  <2>3. B'.pc = B.pc /\ B'.picked = B.picked
    BY <1>9, VisitFields DEF MissItem, B
  <2> QED
    BY <2>1, <2>2, <2>3, <1>p, CapKept
<1>10. ASSUME NEW j \in Jobs, FailItem(j)
       PROVE  CapInv'
  <2>1. B.pc = "fail" /\ (MarkFailed(j) \/ UNCHANGED table)
    BY <1>10 DEF FailItem, At, B
  <2>2. Counted' \subseteq Counted
    BY <2>1, CountedRows
  <2>3. B'.pc = B.pc
    BY <1>10, VisitFields DEF FailItem, B
  <2> QED
    BY <2>1, <2>2, <2>3, <1>p, CapKept
<1> QED
  BY <1>1, <1>2, <1>3, <1>4, <1>5, <1>6, <1>7, <1>8, <1>9, <1>10, CountCap
     DEF BatchStep

\* So do the steps of its delivery, which count what was picked.
LEMMA DeliverCap ==
    ASSUME TypeOK, CapInv, HoldInv, DeliverStep("batch")
    PROVE  CapInv'
<1>p. plan' = plan
  BY DEF DeliverStep, Dispatch, DispatchDone, SendOk, SendError, SentItem,
     SentDone, world
<1>k. ASSUME UNCHANGED table
      PROVE  Counted' \subseteq Counted
  BY <1>k DEF Counted, InStatus, table
<1>1. ASSUME NEW j \in Jobs, Dispatch("batch", j) \/ SentItem("batch", j)
      PROVE  CapInv'
  <2>1. /\ B.pc \in {"dispatch", "sent"} /\ j \in B.todo
        /\ MarkDispatched(j) \/ MarkSent(j) \/ UNCHANGED table
    BY <1>1 DEF Dispatch, SentItem, At, B
  <2>2. B.todo \subseteq B.picked
    BY <2>1 DEF HoldInv
  <2>3. Counted' \subseteq Counted \cup B.picked
    BY <2>1, <2>2, <1>k, CountedRows
  <2>4. B'.pc = B.pc /\ B'.picked = B.picked
    BY <1>1, VisitFields DEF Dispatch, SentItem, B
  <2> QED
    BY <2>1, <2>3, <2>4, <1>p, CapKept
<1>2. CASE DispatchDone("batch") \/ SendOk("batch") \/ SendError("batch")
           \/ SentDone("batch")
  <2>1. UNCHANGED table /\ B.pc \in {"dispatch", "send", "sent"}
    BY <1>2 DEF DispatchDone, SendOk, SendError, SentDone, At, B
  <2>2. \/ B'.pc \in {"send", "sent"} /\ B'.picked = B.picked
        \/ B'.pc \in {"settle", "fail"}
    BY <1>2, GotoFields, SendOkFields, SendErrorFields, ReturnFields
       DEF DispatchDone, SentDone
  <2> QED
    BY <2>1, <2>2, <1>k, <1>p, CapKept
<1> QED
  BY <1>1, <1>2 DEF DeliverStep

\* And what happens around it.
LEMMA EnvCap ==
    ASSUME TypeOK, CapInv, EnvStep, "plan" \notin Env
    PROVE  CapInv'
<1>1. Counted' \subseteq Counted
  BY DEF EnvStep, Crash, Midnight, UserChanges, CancelPending, ClaimAges,
     JobAges, JobExpires, JobRelisted, DeleteRows, Counted, InStatus, table,
     TypeOK
<1>2. plan' = plan
  BY DEF EnvStep, Crash, Midnight, UserChanges, CancelPending, ClaimAges,
     JobAges, JobExpires, JobRelisted, world
<1>3. UNCHANGED loc \/ B' = [Idle EXCEPT !.pc = "recover"]
  BY BatchLocal DEF EnvStep, Crash, Midnight, UserChanges, CancelPending,
     ClaimAges, JobAges, JobExpires, JobRelisted, B
<1>4. B' = B \/ B'.pc = "recover"
  BY <1>3 DEF Idle, B
<1> QED
  BY <1>1, <1>2, <1>4, CapKept DEF CapInv

\* When no cron runs, no day sees more deliveries than the plan of a user who
\* keeps it allows, for any cap and any number of jobs and messages, whatever
\* fails in between: what a batch may still dispatch was counted before.
THEOREM CapHolds ==
    ASSUME Crons = {}
    PROVE  Spec => []WithinDailyCap
<1>0. CASE "plan" \in Env
  <2>1. WithinDailyCap
    BY <1>0 DEF WithinDailyCap
  <2> QED
    BY <2>1, PTL
<1>x. CASE "plan" \notin Env
  <2>1. ASSUME Init
        PROVE  CapInv /\ HoldInv
    <3>1. B = Idle
      BY <2>1 DEF Init, Procs, B
    <3>2. Counted = {} /\ Cardinality({}) = 0
      BY <2>1, FS_EmptySet DEF Init, Counted
    <3>3. DailyCap[plan] \in Nat
      BY <2>1, ConstantsAssumption DEF Init
    <3> QED
      BY <3>1, <3>2, <3>3 DEF Idle, CapInv, HoldInv
  <2>2. ASSUME TypeOK, CapInv, HoldInv, [Next]_vars
        PROVE  CapInv' /\ HoldInv'
    <3>1. CASE BatchStep
      BY <2>2, <3>1, BatchHold, BatchCap
    <3>2. CASE \E p \in Procs : DeliverStep(p)
      BY <2>2, <3>2, DeliverHold, DeliverCap DEF Procs
    <3>3. CASE EnvStep
      BY <2>2, <3>3, <1>x, EnvHold, EnvCap
    <3>4. CASE UNCHANGED vars
      BY <2>2, <3>4 DEF vars, world, table, CapInv, Counted, HoldInv, InStatus, B
    <3> QED
      BY <2>2, <3>1, <3>2, <3>3, <3>4 DEF Next
  <2>3. CapInv => WithinDailyCap
    BY DEF CapInv, Counted, WithinDailyCap
  <2> QED
    BY <2>1, <2>2, <2>3, TypeCorrect, PTL DEF Spec
<1> QED
  BY <1>0, <1>x

-----------------------------------------------------------------------------
(* No row is left dispatched, when no cron runs and no statement fails.    *)

\* Where a dispatched row can be: among those ExecuteBatch has picked, and there
\* not where it has yet to dispatch or has already marked the outcome.
StrandInv ==
    /\ NoneStranded
    /\ B.pc = "dispatch" => \A j \in B.todo : row[j] # "dispatched"
    /\ B.pc \in {"sent", "fail"} =>
          \A j \in B.picked \ B.todo : row[j] # "dispatched"

\* A step that dispatches nothing, while nothing is dispatched, strands nothing.
LEMMA NothingDispatched ==
    ASSUME TypeOK, StrandInv,
           B.pc \notin {"dispatch", "send", "sent", "fail"},
           \A k \in Jobs : row'[k] = "dispatched" => row[k] = "dispatched"
    PROVE  \A k \in Jobs : row[k] # "dispatched" /\ row'[k] # "dispatched"
BY DEF StrandInv, NoneStranded, InStatus, B

\* Without a dispatched row there is nothing to show.
LEMMA NoneIsFine ==
    ASSUME TypeOK', \A k \in Jobs : row'[k] # "dispatched"
    PROVE  StrandInv'
<1>1. B'.picked \subseteq Jobs /\ B'.todo \subseteq Jobs
  BY DEF TypeOK, Procs, Local, B
<1> QED
  BY <1>1 DEF StrandInv, NoneStranded, InStatus, B

\* The steps of ExecuteBatch, none of its statements failing.
LEMMA BatchStrand ==
    ASSUME TypeOK, TypeOK', HoldInv, StrandInv, BatchStep, "db" \notin Faults
    PROVE  StrandInv'
<1>t. /\ B.picked \subseteq Jobs /\ B.todo \subseteq Jobs
      /\ B.drop \in SUBSET Jobs /\ row \in [Jobs -> Statuses]
  BY BatchLocal DEF TypeOK, Local
<1>k. ASSUME UNCHANGED table
      PROVE  \A k \in Jobs : row'[k] = "dispatched" => row[k] = "dispatched"
  BY <1>k DEF table
<1>1. CASE \/ \E m \in Messages : Pop(m)
           \/ LoadBatch \/ EnsureDone \/ CountBatch \/ MissDone
           \/ Ack \/ Nack \/ Requeue \/ GiveBackError \/ Recover
  <2>1. UNCHANGED table /\ B.pc \notin {"dispatch", "send", "sent", "fail"}
    BY <1>1 DEF Pop, LoadBatch, EnsureDone, CountBatch, MissDone, Ack, Nack,
         Requeue, GiveBackError, Recover, At, B
  <2> QED
    BY <2>1, <1>k, NothingDispatched, NoneIsFine
<1>2. CASE DropStaleItem
  <2>1. B.pc = "ensure" /\ (DeleteRows(B.drop) \/ UNCHANGED table)
    BY <1>2 DEF DropStaleItem, At, B
  <2>2. \A k \in Jobs : row'[k] = "dispatched" => row[k] = "dispatched"
    <3>1. CASE DeleteRows(B.drop)
      BY <3>1, <1>t DEF DeleteRows
    <3> QED
      BY <2>1, <3>1, <1>k
  <2> QED
    BY <2>1, <2>2, NothingDispatched, NoneIsFine
<1>3. ASSUME NEW j \in Jobs, Ensure(j) \/ MissItem(j)
      PROVE  StrandInv'
  <2>1. B.pc \in {"ensure", "missed"} /\ (EnsurePending(j) \/ MarkMissed(j))
    BY <1>3 DEF Ensure, MissItem, At, B
  <2>2. \A k \in Jobs : row'[k] = "dispatched" => row[k] = "dispatched"
    BY <2>1 DEF EnsurePending, MarkMissed, TypeOK, table
  <2> QED
    BY <2>1, <2>2, NothingDispatched, NoneIsFine
<1>4. ASSUME NEW j \in Jobs, FailItem(j)
      PROVE  StrandInv'
  <2>1. B.pc = "fail" /\ j \in B.todo /\ MarkFailed(j)
    BY <1>4 DEF FailItem, At, B
  <2>2. /\ \A k \in Jobs : row'[k] = "dispatched" => row[k] = "dispatched"
        /\ row'[j] # "dispatched"
    BY <2>1 DEF MarkFailed, TypeOK, table
  <2>3. B'.pc = B.pc /\ B'.picked = B.picked /\ B'.todo = B.todo \ {j}
    BY <1>4, VisitFields DEF FailItem, B
  <2>4. NoneStranded'
    BY <2>1, <2>2, <2>3 DEF StrandInv, NoneStranded, InStatus, B
  <2> QED
    BY <2>1, <2>2, <2>3, <2>4, <1>t DEF StrandInv
<1>5. CASE FailDone
  <2>1. B.pc = "fail" /\ B.todo = {} /\ UNCHANGED table
    BY <1>5 DEF FailDone, At, B
  <2>2. \A k \in Jobs : row[k] # "dispatched"
    BY <2>1 DEF StrandInv, NoneStranded, InStatus, B
  <2>3. \A k \in Jobs : row'[k] # "dispatched"
    BY <2>1, <2>2 DEF table
  <2> QED
    BY <2>3, NoneIsFine
<1> QED
  BY <1>1, <1>2, <1>3, <1>4, <1>5 DEF BatchStep, BatchError, DispatchError

\* The steps of its delivery.
LEMMA DeliverStrand ==
    ASSUME TypeOK, TypeOK', HoldInv, StrandInv, DeliverStep("batch"),
           "db" \notin Faults
    PROVE  StrandInv'
<1>t. /\ B.picked \subseteq Jobs /\ B.todo \subseteq Jobs
      /\ row \in [Jobs -> Statuses]
  BY BatchLocal DEF TypeOK, Local
<1>1. ASSUME NEW j \in Jobs, Dispatch("batch", j)
      PROVE  StrandInv'
  <2>1. B.pc = "dispatch" /\ j \in B.todo /\ MarkDispatched(j)
    BY <1>1 DEF Dispatch, At, B
  <2>2. \A k \in Jobs \ {j} : row'[k] = row[k]
    BY <2>1, <1>t DEF MarkDispatched, table
  <2>3. B'.pc = B.pc /\ B'.picked = B.picked /\ B'.todo = B.todo \ {j}
    BY <1>1, VisitFields DEF Dispatch, B
  <2>4. j \in B.picked
    BY <2>1 DEF HoldInv
  <2>5. NoneStranded'
    BY <2>1, <2>2, <2>3, <2>4 DEF StrandInv, NoneStranded, InStatus, B
  <2> QED
    BY <2>1, <2>2, <2>3, <2>5, <1>t DEF StrandInv
<1>2. ASSUME NEW j \in Jobs, SentItem("batch", j)
      PROVE  StrandInv'
  <2>1. B.pc = "sent" /\ j \in B.todo /\ MarkSent(j)
    BY <1>2 DEF SentItem, At, B
  <2>2. /\ \A k \in Jobs : row'[k] = "dispatched" => row[k] = "dispatched"
        /\ row'[j] # "dispatched"
    BY <2>1 DEF MarkSent, TypeOK, table
  <2>3. B'.pc = B.pc /\ B'.picked = B.picked /\ B'.todo = B.todo \ {j}
    BY <1>2, VisitFields DEF SentItem, B
  <2>4. NoneStranded'
    BY <2>1, <2>2, <2>3 DEF StrandInv, NoneStranded, InStatus, B
  <2> QED
    BY <2>1, <2>2, <2>3, <2>4, <1>t DEF StrandInv
<1>3. CASE DispatchDone("batch") \/ SendOk("batch") \/ SendError("batch")
  <2>1. UNCHANGED row /\ B.pc \in {"dispatch", "send"}
    BY <1>3 DEF DispatchDone, SendOk, SendError, At, B, table
  <2>2. /\ B'.picked = B.picked
        /\ B'.pc = "send" \/ (B'.pc \in {"sent", "fail"} /\ B'.todo = B.picked)
    BY <1>3, GotoFields, SendOkFields, SendErrorFields DEF DispatchDone
  <2>3. NoneStranded'
    BY <2>1, <2>2 DEF StrandInv, NoneStranded, InStatus, B
  <2> QED
    BY <2>1, <2>2, <2>3 DEF StrandInv
<1>4. CASE SentDone("batch")
  <2>1. B.pc = "sent" /\ B.todo = {} /\ UNCHANGED table
    BY <1>4 DEF SentDone, At, B
  <2>2. \A k \in Jobs : row[k] # "dispatched"
    BY <2>1 DEF StrandInv, NoneStranded, InStatus, B
  <2>3. \A k \in Jobs : row'[k] # "dispatched"
    BY <2>1, <2>2 DEF table
  <2> QED
    BY <2>3, NoneIsFine
<1> QED
  BY <1>1, <1>2, <1>3, <1>4 DEF DeliverStep

\* What happens around it, the process not being killed.
LEMMA EnvStrand ==
    ASSUME TypeOK, StrandInv, EnvStep, "crash" \notin Faults
    PROVE  StrandInv'
<1>1. UNCHANGED loc
  BY DEF EnvStep, Crash, Midnight, UserChanges, CancelPending, ClaimAges,
     JobAges, JobExpires, JobRelisted
<1>2. \A k \in Jobs : row'[k] = "dispatched" => row[k] = "dispatched"
  BY DEF EnvStep, Crash, Midnight, UserChanges, CancelPending, ClaimAges,
     JobAges, JobExpires, JobRelisted, DeleteRows, table
<1>3. B.picked \subseteq Jobs /\ B.todo \subseteq Jobs
  BY BatchLocal DEF Local
<1>4. NoneStranded'
  BY <1>1, <1>2 DEF StrandInv, NoneStranded, InStatus
<1> QED
  BY <1>1, <1>2, <1>3, <1>4 DEF StrandInv, B

\* When no cron runs, no statement fails and the process is not killed, no row is
\* left in status dispatched once its delivery is over, whatever Redis and Telegram
\* do: each way out of the send, with an answer or an error, marks every row.
THEOREM NoRowStranded ==
    ASSUME Crons = {}, "db" \notin Faults, "crash" \notin Faults
    PROVE  Spec => []NoneStranded
<1>1. ASSUME Init
      PROVE  HoldInv /\ StrandInv
  <2>1. B = Idle
    BY <1>1 DEF Init, Procs, B
  <2>2. \A j \in Jobs : row[j] # "dispatched"
    BY <1>1, ConstantsAssumption DEF Init
  <2> QED
    BY <2>1, <2>2 DEF Idle, HoldInv, StrandInv, NoneStranded, InStatus
<1>2. ASSUME TypeOK, TypeOK', HoldInv, StrandInv, [Next]_vars
      PROVE  HoldInv' /\ StrandInv'
  <2>1. CASE BatchStep
    BY <1>2, <2>1, BatchHold, BatchStrand
  <2>2. CASE \E p \in Procs : DeliverStep(p)
    BY <1>2, <2>2, DeliverHold, DeliverStrand DEF Procs
  <2>3. CASE EnvStep
    BY <1>2, <2>3, EnvHold, EnvStrand
  <2>4. CASE UNCHANGED vars
    BY <1>2, <2>4 DEF vars, world, table, HoldInv, StrandInv, NoneStranded,
       InStatus, B
  <2> QED
    BY <1>2, <2>1, <2>2, <2>3, <2>4 DEF Next
<1>3. StrandInv => NoneStranded
  BY DEF StrandInv
<1> QED
  BY <1>1, <1>2, <1>3, TypeCorrect, PTL DEF Spec

-----------------------------------------------------------------------------
(* A failed row is owed another attempt, with the crons running.           *)

\* What ExecuteBatch has done so far with the rows of message m: those it has
\* ensured are not failed, and if it makes one failed it does not acknowledge m.
InHand(m) ==
    /\ B.msg = {m}
    /\ B.picked \subseteq JobsOf[m]
    /\ B.pc = "load" => B.picked = {}
    /\ B.pc = "ensure" => /\ B.todo \subseteq JobsOf[m]
                          /\ \A j \in JobsOf[m] \ B.todo : row[j] # "failed"
    /\ (\/ B.pc \in {"count", "missed", "dispatch", "send", "sent"}
        \/ B.pc = "settle" /\ B.verdict = "ack")
          => \A j \in JobsOf[m] : row[j] # "failed"
    /\ B.pc = "fail" => B.todo \subseteq JobsOf[m] /\ B.verdict # "ack"

RetryInv ==
    /\ FailedHasRetry
    /\ B.pc \in {"idle", "recover"} => B.picked = {}
    /\ B.pc \notin {"idle", "recover"} => \E m \in Messages : InHand(m)
    /\ ~paused
    /\ NothingExpired

\* No step but MarkFailed makes a row failed.
NoNewFailed == \A k \in Jobs : row'[k] = "failed" => row[k] = "failed"

\* Steps that leave the messages and the main loop alone.
LEMMA RetryFrame ==
    ASSUME TypeOK, RetryInv, NoNewFailed, UNCHANGED inbox,
           B' = B \/ B' = [Idle EXCEPT !.pc = "recover"],
           ~paused', NothingExpired'
    PROVE  RetryInv'
<1>1. FailedHasRetry'
  BY DEF RetryInv, FailedHasRetry, NoNewFailed, InStatus
<1>2. CASE B' = B
  <2>1. ASSUME NEW m \in Messages, InHand(m)
        PROVE  InHand(m)'
    <3>1. JobsOf[m] \subseteq Jobs
      BY ConstantsAssumption
    <3> QED
      BY <2>1, <3>1, <1>2 DEF InHand, NoNewFailed
  <2> QED
    BY <1>1, <1>2, <2>1 DEF RetryInv
<1>3. CASE B' = [Idle EXCEPT !.pc = "recover"]
  <2>1. B'.pc = "recover" /\ B'.picked = {}
    BY <1>3 DEF Idle
  <2> QED
    BY <1>1, <2>1 DEF RetryInv
<1> QED
  BY <1>2, <1>3

\* Only a failed delivery's MarkFailed makes rows failed.
LEMMA BatchFails ==
    ASSUME TypeOK, BatchStep \/ DeliverStep("batch")
    PROVE  \A k \in Jobs : row'[k] = "failed" =>
               row[k] = "failed" \/ (B.pc = "fail" /\ k \in B.todo)
<1>1. CASE \/ \E m \in Messages : Pop(m)
           \/ LoadBatch \/ EnsureDone \/ CountBatch \/ MissDone
           \/ BatchError \/ DispatchError \/ FailDone
           \/ Ack \/ Nack \/ Requeue \/ GiveBackError \/ Recover
  BY <1>1 DEF Pop, LoadBatch, EnsureDone, CountBatch, MissDone, BatchError,
       DispatchError, FailDone, Ack, Nack, Requeue, GiveBackError, Recover, table
<1>2. CASE DropStaleItem
  BY <1>2 DEF DropStaleItem, DeleteRows, table
<1>3. ASSUME NEW j \in Jobs, Ensure(j) \/ MissItem(j)
      PROVE  NoNewFailed
  BY <1>3 DEF Ensure, MissItem, EnsurePending, MarkMissed, TypeOK, table, NoNewFailed
<1>4. ASSUME NEW j \in Jobs, FailItem(j)
      PROVE  \A k \in Jobs : row'[k] = "failed" =>
                 row[k] = "failed" \/ (B.pc = "fail" /\ k \in B.todo)
  BY <1>4 DEF FailItem, MarkFailed, TypeOK, table, At, B
<1>5. CASE DeliverStep("batch")
  BY <1>5 DEF DeliverStep, Dispatch, DispatchDone, SendOk, SendError, SentItem,
       SentDone, MarkDispatched, MarkSent, TypeOK, table
<1> QED
  BY <1>1, <1>2, <1>3, <1>4, <1>5 DEF BatchStep, NoNewFailed

\* A step of ExecuteBatch with message m in hand keeps what is known of m.
LEMMA BatchInHand ==
    ASSUME TypeOK, NEW m \in Messages, InHand(m), ~paused, NothingExpired,
           \/ LoadBatch \/ DropStaleItem \/ EnsureDone \/ CountBatch \/ MissDone
           \/ BatchError \/ DispatchError \/ FailDone
           \/ \E j \in Jobs : Ensure(j) \/ MissItem(j) \/ FailItem(j)
           \/ DeliverStep("batch")
    PROVE  InHand(m)' /\ B'.pc \notin {"idle", "recover"}
<1>t. JobsOf[m] \subseteq Jobs /\ row \in [Jobs -> Statuses]
  BY ConstantsAssumption DEF TypeOK
<1>b. BatchStep \/ DeliverStep("batch")
  BY DEF BatchStep
<1>f. ASSUME B.pc # "fail"
      PROVE  \A k \in JobsOf[m] : row'[k] = "failed" => row[k] = "failed"
  BY <1>f, <1>t, <1>b, BatchFails
<1>1. CASE LoadBatch
  <2>1. B.pc = "load" /\ B.msg = {m} /\ B.picked = {}
    BY <1>1 DEF LoadBatch, At, B, InHand
  <2>2. {j \in JobsOf[m] : job[j] # "expired"} = JobsOf[m]
    BY <1>t DEF NothingExpired
  <2>3. /\ B'.pc = "ensure" /\ B'.msg = {m} /\ B'.picked = {}
        /\ B'.todo = JobsOf[m]
    BY <1>1, <2>1, <2>2, LoadFields
  <2> QED
    BY <2>3 DEF InHand
<1>2. CASE DropStaleItem
  <2>1. B.pc = "ensure"
    BY <1>2 DEF DropStaleItem, At, B
  <2> QED
    BY <2>1, <1>2, <1>f, DropFields DEF InHand
<1>3. CASE EnsureDone
  <2>1. B.pc = "ensure" /\ B.todo = {}
    BY <1>3 DEF EnsureDone, At, B
  <2>2. /\ B'.pc \in {"settle", "count"} /\ B'.msg = B.msg
        /\ B'.picked = B.picked
    BY <1>3, ReturnFields, GotoFields DEF EnsureDone
  <2> QED
    BY <2>1, <2>2, <1>f DEF InHand
<1>4. CASE CountBatch
  <2>1. B.pc = "count"
    BY <1>4 DEF CountBatch, At, B
  <2> QED
    BY <2>1, <1>4, <1>f, CountFields DEF InHand
<1>5. CASE MissDone
  <2>1. B.pc = "missed"
    BY <1>5 DEF MissDone, At, B
  <2>2. B'.picked = B.picked /\ B'.pc \in {"settle", "dispatch"} /\ B'.msg = B.msg
    BY <1>5, MissDoneFields
  <2> QED
    BY <2>1, <2>2, <1>f DEF InHand
<1>6. CASE BatchError
  <2>1. /\ B'.pc = "settle" /\ B'.verdict = "nack" /\ B'.msg = B.msg
        /\ B'.picked = B.picked
    BY <1>6, ReturnFields DEF BatchError
  <2> QED
    BY <2>1 DEF InHand
<1>7. CASE DispatchError
  <2>1. B.pc = "dispatch"
    BY <1>7 DEF DispatchError, At, B
  <2> QED
    BY <2>1, <1>7, DispatchErrorFields DEF InHand
<1>8. CASE FailDone
  <2>1. B.pc = "fail"
    BY <1>8 DEF FailDone, At, B
  <2>2. /\ B'.pc = "settle" /\ B'.msg = B.msg /\ B'.picked = B.picked
        /\ B'.verdict = B.verdict
    BY <1>8, GotoFields DEF FailDone
  <2> QED
    BY <2>1, <2>2 DEF InHand
<1>9. ASSUME NEW j \in Jobs, Ensure(j)
      PROVE  InHand(m)' /\ B'.pc \notin {"idle", "recover"}
  <2>1. B.pc = "ensure" /\ j \in B.todo /\ EnsurePending(j)
    BY <1>9 DEF Ensure, At, B
  <2>2. row'[j] # "failed"
    BY <2>1, <1>t DEF EnsurePending, table
  <2>3. /\ B'.pc = "ensure" /\ B'.msg = B.msg
        /\ B'.todo = B.todo \ {j} /\ B'.picked \subseteq B.picked \cup {j}
    BY <1>9, EnsureFields
  <2> QED
    BY <2>1, <2>2, <2>3, <1>f DEF InHand
<1>10. ASSUME NEW j \in Jobs, MissItem(j) \/ FailItem(j) \/ Dispatch("batch", j)
                              \/ SentItem("batch", j)
       PROVE  InHand(m)' /\ B'.pc \notin {"idle", "recover"}
  <2>1. B.pc \in {"missed", "fail", "dispatch", "sent"}
    BY <1>10 DEF MissItem, FailItem, Dispatch, SentItem, At, B
  <2>2. /\ B'.pc = B.pc /\ B'.msg = B.msg /\ B'.picked = B.picked
        /\ B'.todo = B.todo \ {j} /\ B'.verdict = B.verdict
    BY <1>10, VisitFields DEF MissItem, FailItem, Dispatch, SentItem, B
  <2> QED
    BY <2>1, <2>2, <1>f DEF InHand
<1>11. CASE DispatchDone("batch")
  <2>1. B.pc = "dispatch"
    BY <1>11 DEF DispatchDone, At, B
  <2> QED
    BY <2>1, <1>11, <1>f, GotoFields DEF DispatchDone, InHand
<1>12. CASE SendOk("batch") \/ SendError("batch")
  <2>1. B.pc = "send"
    BY <1>12 DEF SendOk, SendError, At, B
  <2> QED
    BY <2>1, <1>12, <1>f, SendOkFields, SendErrorFields DEF InHand
<1>13. CASE SentDone("batch")
  <2>1. B.pc = "sent"
    BY <1>13 DEF SentDone, At, B
  <2>2. B'.pc = "settle" /\ B'.msg = B.msg /\ B'.picked = B.picked
    BY <1>13, ReturnFields DEF SentDone
  <2> QED
    BY <2>1, <2>2, <1>f DEF InHand
<1> QED
  BY <1>1, <1>2, <1>3, <1>4, <1>5, <1>6, <1>7, <1>8, <1>9, <1>10, <1>11,
     <1>12, <1>13 DEF DeliverStep

\* The main loop keeps the invariant: a message leaves by an Ack only if none of
\* its rows is failed.
LEMMA BatchRetry ==
    ASSUME TypeOK, HandInv, RetryInv, BatchStep \/ DeliverStep("batch")
    PROVE  RetryInv'
<1>w. UNCHANGED world
  BY DEF BatchStep, Pop, LoadBatch, DropStaleItem, EnsureDone, CountBatch,
     MissDone, BatchError, DispatchError, FailDone, Ack, Nack, Requeue,
     GiveBackError, Recover, Ensure, MissItem, FailItem, DeliverStep, Dispatch,
     DispatchDone, SendOk, SendError, SentItem, SentDone
<1>n. ~paused' /\ NothingExpired'
  BY <1>w DEF RetryInv, NothingExpired, world
<1>m. \A m \in B.msg : m \in Messages
  BY BatchLocal DEF Local
<1>1. ASSUME NEW m \in Messages, Pop(m)
      PROVE  RetryInv'
  <2>1. B.pc = "idle" /\ UNCHANGED table /\ inbox' = [inbox EXCEPT ![m] = "processing"]
    BY <1>1 DEF Pop, At, B
  <2>2. B' = [B EXCEPT !.pc = "load", !.msg = {m}]
    BY <1>1, BatchLocal, BecomesIs DEF Pop, B
  <2>3. B'.pc = "load" /\ B'.msg = {m} /\ B'.picked = B.picked
    BY <2>2, BatchLocal DEF Local
  <2>4. InHand(m)'
    BY <2>1, <2>3 DEF RetryInv, InHand
  <2>5. FailedHasRetry'
    BY <2>1 DEF RetryInv, FailedHasRetry, InStatus, table, TypeOK
  <2> QED
    BY <2>3, <2>4, <2>5, <1>n DEF RetryInv
<1>2. CASE Ack \/ Nack \/ Requeue \/ GiveBackError \/ Recover
  <2>1. /\ UNCHANGED table
        /\ B' = Idle \/ B' = [Idle EXCEPT !.pc = "recover"]
    BY <1>2, BatchLocal, BecomesIs
       DEF Ack, Nack, Requeue, GiveBackError, Recover, Finish, B
  <2>2. B'.pc \in {"idle", "recover"} /\ B'.picked = {}
    BY <2>1 DEF Idle
  <2>3. FailedHasRetry'
    <3>1. ASSUME \A m \in Messages : inbox'[m] = "done" => inbox[m] = "done"
          PROVE  FailedHasRetry'
      BY <2>1, <3>1 DEF RetryInv, FailedHasRetry, InStatus, table
    <3>2. CASE Ack
      <4>1. /\ B.pc = "settle" /\ B.verdict = "ack"
            /\ \/ inbox' = [m \in Messages |->
                              IF m \in B.msg THEN "done" ELSE inbox[m]]
               \/ UNCHANGED inbox
        BY <3>2 DEF Ack, At, B
      <4>2. PICK m \in Messages : InHand(m)
        BY <4>1 DEF RetryInv
      <4>3. B.msg = {m} /\ \A j \in JobsOf[m] : row[j] # "failed"
        BY <4>1, <4>2 DEF InHand
      <4>4. \A n \in Messages \ {m} : inbox'[n] = inbox[n]
        BY <4>1, <4>3
      <4> QED
        BY <2>1, <4>3, <4>4 DEF RetryInv, FailedHasRetry, InStatus, table
    <3>3. CASE Nack
      BY <3>1, <3>3, <1>m DEF Nack, TypeOK, B
    <3>4. CASE Requeue \/ GiveBackError \/ Recover
      BY <3>1, <3>4 DEF Requeue, GiveBackError, Recover, broker
    <3> QED
      BY <1>2, <3>2, <3>3, <3>4
  <2> QED
    BY <2>2, <2>3, <1>n DEF RetryInv
<1>3. CASE \/ LoadBatch \/ DropStaleItem \/ EnsureDone \/ CountBatch \/ MissDone
           \/ BatchError \/ DispatchError \/ FailDone
           \/ \E j \in Jobs : Ensure(j) \/ MissItem(j) \/ FailItem(j)
           \/ DeliverStep("batch")
  <2>1. B.pc \notin {"idle", "recover"} /\ UNCHANGED inbox
    BY <1>3 DEF LoadBatch, DropStaleItem, EnsureDone, CountBatch, MissDone,
         BatchError, DispatchError, FailDone, Ensure, MissItem, FailItem,
         DeliverStep, Dispatch, DispatchDone, SendOk, SendError, SentItem,
         SentDone, At, B, broker
  <2>2. PICK m \in Messages : InHand(m)
    BY <2>1 DEF RetryInv
  <2>3. ~paused /\ NothingExpired
    BY DEF RetryInv
  <2>4. InHand(m)' /\ B'.pc \notin {"idle", "recover"}
    BY <1>3, <2>2, <2>3, BatchInHand
  <2>5. \A k \in Jobs : row'[k] = "failed" =>
            row[k] = "failed" \/ (B.pc = "fail" /\ k \in B.todo)
    BY BatchFails
  <2>6. B.pc = "fail" => B.todo \subseteq JobsOf[m]
    BY <2>2 DEF InHand
  <2>7. inbox[m] = "processing"
    BY <2>2 DEF HandInv, InHand, B
  <2>8. FailedHasRetry'
    BY <2>1, <2>5, <2>6, <2>7 DEF RetryInv, FailedHasRetry, InStatus
  <2> QED
    BY <2>4, <2>8, <1>n DEF RetryInv
<1> QED
  BY <1>1, <1>2, <1>3 DEF BatchStep

\* The crons make no row failed.
LEMMA CronFails ==
    ASSUME TypeOK, NEW p \in Crons, CronStep(p) \/ DeliverStep(p)
    PROVE  NoNewFailed
<1>1. CASE DeliverStep(p)
  BY <1>1 DEF DeliverStep, Dispatch, DispatchDone, SendOk, SendError, SentItem,
       SentDone, MarkDispatched, MarkSent, TypeOK, table, NoNewFailed
<1>2. CASE CronStep(p)
  BY <1>2 DEF CronStep, CronStart, CronSelect, CronCount, CronReadMissed,
       CronDropMissed, CronConvert, CronClaim, CronJobs, CronPurge, CronPurged,
       CronError, BackToPending, DeleteRows, TypeOK, table, NoNewFailed
<1> QED
  BY <1>1, <1>2

\* If no job expires and the user does not pause, every row in status failed is
\* named by a message that is not acknowledged: with any crons running, whatever
\* statements, Redis calls and sends fail and whenever the process crashes.
THEOREM FailedIsRetried ==
    ASSUME "expire" \notin Env, "pause" \notin Env, "expired" \notin StartJobs
    PROVE  Spec => []FailedHasRetry
<1>1. ASSUME Init
      PROVE  RetryInv
  <2>1. B = Idle
    BY <1>1 DEF Init, Procs, B
  <2>2. \A j \in Jobs : row[j] # "failed" /\ job[j] # "expired"
    BY <1>1, ConstantsAssumption DEF Init
  <2>3. ~paused /\ expiring = {}
    BY <1>1 DEF Init
  <2> QED
    BY <2>1, <2>2, <2>3 DEF Idle, RetryInv, FailedHasRetry, InStatus, NothingExpired
<1>2. ASSUME TypeOK, HandInv, RetryInv, [Next]_vars
      PROVE  RetryInv'
  <2>1. CASE BatchStep \/ DeliverStep("batch")
    BY <1>2, <2>1, BatchRetry
  <2>2. ASSUME NEW p \in Crons, CronStep(p) \/ DeliverStep(p)
        PROVE  RetryInv'
    <3>1. p \in Procs /\ p # "batch"
      BY ConstantsAssumption DEF Procs
    <3>2. UNCHANGED inbox /\ B' = B
      BY <1>2, <2>2, <3>1, CronFrame DEF broker
    <3>3. UNCHANGED world
      BY <2>2 DEF CronStep, CronStart, CronSelect, CronCount, CronReadMissed,
         CronDropMissed, CronConvert, CronClaim, CronJobs, CronPurge, CronPurged,
         CronError, DeliverStep, Dispatch, DispatchDone, SendOk, SendError,
         SentItem, SentDone
    <3>4. ~paused' /\ NothingExpired'
      BY <1>2, <3>3 DEF RetryInv, NothingExpired, world
    <3> QED
      BY <1>2, <2>2, <3>2, <3>4, CronFails, RetryFrame
  <2>3. CASE EnvStep
    <3>1. NoNewFailed /\ UNCHANGED inbox
      BY <2>3 DEF EnvStep, Crash, Midnight, UserChanges, CancelPending,
         ClaimAges, JobAges, JobExpires, JobRelisted, DeleteRows, table, broker,
         NoNewFailed
    <3>2. ~paused' /\ NothingExpired'
      <4>1. UNCHANGED paused
        BY <2>3 DEF EnvStep, Crash, Midnight, UserChanges, CancelPending,
           ClaimAges, JobAges, JobExpires, JobRelisted, world
      <4>2. NothingExpired
        BY <1>2 DEF RetryInv
      <4>3. NothingExpired'
        BY <1>2, <2>3, <4>2 DEF EnvStep, Crash, Midnight, UserChanges,
           CancelPending, ClaimAges, JobAges, JobExpires, JobRelisted,
           NothingExpired, world, TypeOK
      <4> QED
        BY <1>2, <4>1, <4>3 DEF RetryInv
    <3>3. B' = B \/ B' = [Idle EXCEPT !.pc = "recover"]
      BY <1>2, <2>3, BatchLocal DEF EnvStep, Crash, Midnight, UserChanges,
         CancelPending, ClaimAges, JobAges, JobExpires, JobRelisted, B
    <3> QED
      BY <1>2, <3>1, <3>2, <3>3, RetryFrame
  <2>4. CASE UNCHANGED vars
    <3>1. /\ NoNewFailed /\ UNCHANGED inbox /\ B' = B
          /\ ~paused' /\ NothingExpired'
      BY <1>2, <2>4 DEF vars, world, table, broker, NoNewFailed, RetryInv,
         NothingExpired, B
    <3> QED
      BY <1>2, <3>1, RetryFrame
  <2> QED
    BY <1>2, <2>1, <2>2, <2>3, <2>4 DEF Next, Procs
<1>3. RetryInv => FailedHasRetry
  BY DEF RetryInv
<1>4. Spec => [](TypeOK /\ HandInv)
  BY TypeInit, TypeStep, PTL DEF Spec
<1> QED
  BY <1>1, <1>2, <1>3, <1>4, PTL DEF Spec

-----------------------------------------------------------------------------
(* The circuit breaker of the Telegram client, for any senders, attempts   *)
(* and threshold.                                                          *)

\* A half-open breaker has one probe, and refuses everybody else.
ProbeInv ==
    state = "halfOpen" => /\ inFlight
                          /\ \E s \in Senders : probes = {s}

\* What the breaker may become when an answer, or the lack of one, is marked.
Marked(limited) ==
    MarkSuccess \/ MarkPermanentFailure \/ MarkTransientFailure(limited)

LEMMA MarkTypes ==
    ASSUME BreakerTypeOK, NEW limited \in BOOLEAN, Marked(limited)
    PROVE  /\ state' \in {"closed", "open"}
           /\ failures' \in 0 .. Threshold - 1
           /\ inFlight' \in BOOLEAN
           /\ cooling' \in BOOLEAN
<1>0. /\ failures \in 0 .. Threshold - 1
      /\ 0 \in 0 .. Threshold - 1
      /\ failures + 1 < Threshold => failures + 1 \in 0 .. Threshold - 1
  BY BreakerAssumption, SMT DEF BreakerTypeOK
<1>1. CASE MarkSuccess
  BY <1>0, <1>1, Zenon DEF MarkSuccess
<1>2. CASE MarkPermanentFailure
  <2>1. failures' = 0 /\ inFlight' = FALSE /\ cooling' = cooling
    BY <1>2 DEF MarkPermanentFailure
  <2>2. state' \in {"closed", "open"}
    BY <1>2 DEF MarkPermanentFailure, BreakerTypeOK
  <2> QED
    BY <1>0, <2>1, <2>2, Zenon DEF BreakerTypeOK
<1>3. CASE MarkTransientFailure(limited)
  <2>1. CASE Open
    BY <1>0, <2>1, Zenon DEF Open
  <2>2. CASE ~Open
    <3>1. /\ state # "halfOpen"
          /\ ~(failures + 1 >= Threshold)
          /\ failures' = failures + 1
          /\ inFlight' = FALSE
          /\ UNCHANGED <<state, cooling>>
      BY <1>3, <2>2 DEF MarkTransientFailure
    <3>2. failures' \in 0 .. Threshold - 1
      BY <1>0, <3>1, BreakerAssumption, SMT
    <3>3. state' \in {"closed", "open"}
      BY <3>1, Zenon DEF BreakerTypeOK
    <3>4. cooling' \in BOOLEAN /\ inFlight' \in BOOLEAN
      BY <3>1, Zenon DEF BreakerTypeOK
    <3> QED
      BY <3>2, <3>3, <3>4
  <2> QED
    BY <2>1, <2>2
<1> QED
  BY <1>1, <1>2, <1>3 DEF Marked

\* What letting a request through makes of it.
LEMMA AdmitTypes ==
    ASSUME BreakerTypeOK, NEW s \in Senders, Admit(s)
    PROVE  /\ state' \in {"closed", "open", "halfOpen"}
           /\ failures' \in 0 .. Threshold - 1
           /\ inFlight' \in BOOLEAN
           /\ cooling' \in BOOLEAN
           /\ probes' \subseteq Senders
<1>1. CASE state = "closed"
  BY <1>1 DEF Admit, BreakerTypeOK, breaker
<1>2. CASE state # "closed"
  BY <1>2 DEF Admit, BreakerTypeOK
<1> QED
  BY <1>1, <1>2

\* A Send that has returned.
LEMMA Returned == NoCall \in Call
BY BreakerAssumption DEF NoCall, Call

LEMMA BreakerTypeStep ==
    ASSUME BreakerTypeOK, [BreakerNext]_breakerVars
    PROVE  BreakerTypeOK'
<1>1. ASSUME NEW s \in Senders, Begin(s)
      PROVE  BreakerTypeOK'
  <2>1. call' \in [Senders -> Call]
    BY <1>1 DEF Begin, BreakerTypeOK, Call
  <2> QED
    BY <1>1, <2>1 DEF Begin, BreakerTypeOK, breaker
<1>2. ASSUME NEW s \in Senders, Attempt(s)
      PROVE  BreakerTypeOK'
  <2>1. call' \in [Senders -> Call]
    BY <1>2 DEF Attempt, BreakerTypeOK, Call
  <2> QED
    BY <1>2, <2>1, AdmitTypes DEF Attempt, BreakerTypeOK
<1>3. ASSUME NEW s \in Senders, CircuitOpen(s) \/ Cancelled(s)
      PROVE  BreakerTypeOK'
  <2>1. call' \in [Senders -> Call]
    <3>1. call' = [call EXCEPT ![s] = NoCall]
      BY <1>3 DEF CircuitOpen, Cancelled, Leave
    <3> QED
      BY <3>1, Returned DEF BreakerTypeOK
  <2>2. orphaned' \in BOOLEAN
    BY <1>3, Zenon DEF CircuitOpen, Cancelled, Leave, BreakerTypeOK
  <2>3. UNCHANGED <<breaker, probes, healed>>
    BY <1>3 DEF CircuitOpen, Cancelled, Leave
  <2> QED
    BY <2>1, <2>2, <2>3 DEF BreakerTypeOK, breaker
<1>4. ASSUME NEW s \in Senders, Answered(s)
      PROVE  BreakerTypeOK'
  <2>1. call' \in [Senders -> Call]
    BY <1>4, Returned DEF Answered, BreakerTypeOK
  <2>2. Marked(TRUE)
    BY <1>4 DEF Answered, Marked
  <2> QED
    BY <1>4, <2>1, <2>2, MarkTypes DEF Answered, BreakerTypeOK
<1>5. ASSUME NEW s \in Senders, NEW limited \in BOOLEAN, RetryLater(s, limited)
      PROVE  BreakerTypeOK'
  <2>1. call' \in [Senders -> Call]
    BY <1>5 DEF RetryLater, BreakerTypeOK, Call
  <2> QED
    BY <1>5, <2>1 DEF RetryLater, BreakerTypeOK, breaker
<1>6. ASSUME NEW s \in Senders, NEW limited \in BOOLEAN, GiveUp(s, limited)
      PROVE  BreakerTypeOK'
  <2>1. call' \in [Senders -> Call]
    BY <1>6, Returned DEF GiveUp, BreakerTypeOK
  <2>2. Marked(limited \/ call[s].limited)
    BY <1>6 DEF GiveUp, Marked
  <2>3. (limited \/ call[s].limited) \in BOOLEAN
    OBVIOUS
  <2> QED
    BY <1>6, <2>1, <2>2, <2>3, MarkTypes DEF GiveUp, BreakerTypeOK
<1>7. ASSUME NEW s \in Senders, Waited(s)
      PROVE  BreakerTypeOK'
  <2>1. call' \in [Senders -> Call]
    BY <1>7, BreakerAssumption DEF Waited, BreakerTypeOK, Call
  <2> QED
    BY <1>7, <2>1 DEF Waited, BreakerTypeOK, breaker
<1>8. CASE CoolDown \/ Heal \/ UNCHANGED breakerVars
  BY <1>8 DEF CoolDown, Heal, breakerVars, breaker, BreakerTypeOK
<1>9. ASSUME NEW s \in Senders, CtxEnds(s)
      PROVE  BreakerTypeOK'
  <2>1. call' \in [Senders -> Call]
    BY <1>9 DEF CtxEnds, BreakerTypeOK, Call
  <2> QED
    BY <1>9, <2>1 DEF CtxEnds, BreakerTypeOK, breaker
<1> QED
  BY <1>1, <1>2, <1>3, <1>4, <1>5, <1>6, <1>7, <1>8, <1>9 DEF BreakerNext, SendStep

\* The variables of the breaker and of its callers keep their types.
THEOREM BreakerTypeCorrect == BreakerSpec => []BreakerTypeOK
<1>1. BreakerInit => BreakerTypeOK
  <2> SUFFICES ASSUME BreakerInit
               PROVE  BreakerTypeOK
    OBVIOUS
  <2>1. call \in [Senders -> Call]
    BY Returned DEF BreakerInit
  <2>2. failures \in 0 .. Threshold - 1
    BY BreakerAssumption DEF BreakerInit
  <2> QED
    BY <2>1, <2>2, Zenon DEF BreakerInit, BreakerTypeOK
<1>2. BreakerTypeOK /\ [BreakerNext]_breakerVars => BreakerTypeOK'
  BY BreakerTypeStep
<1> QED
  BY <1>1, <1>2, PTL DEF BreakerSpec

-----------------------------------------------------------------------------
\* Marking an answer leaves the breaker closed or open, never half-open.
LEMMA ProbeStep ==
    ASSUME BreakerTypeOK, BreakerTypeOK', ProbeInv, [BreakerNext]_breakerVars
    PROVE  ProbeInv'
<1>1. ASSUME NEW s \in Senders, Attempt(s)
      PROVE  ProbeInv'
  <2>1. CASE state = "closed"
    BY <1>1, <2>1 DEF Attempt, Admit, breaker, ProbeInv
  <2>2. CASE state = "open"
    BY <1>1, <2>2 DEF Attempt, Admit, ProbeInv
  <2>3. CASE state = "halfOpen"
    BY <1>1, <2>3 DEF Attempt, Refuses, ProbeInv
  <2> QED
    BY <2>1, <2>2, <2>3 DEF BreakerTypeOK
<1>2. ASSUME NEW s \in Senders, Answered(s)
      PROVE  ProbeInv'
  <2>1. Marked(TRUE)
    BY <1>2 DEF Answered, Marked
  <2>2. state' \in {"closed", "open"}
    BY <2>1, MarkTypes
  <2> QED
    BY <2>2 DEF ProbeInv
<1>3. ASSUME NEW s \in Senders, NEW limited \in BOOLEAN, GiveUp(s, limited)
      PROVE  ProbeInv'
  <2>1. Marked(limited \/ call[s].limited)
    BY <1>3 DEF GiveUp, Marked
  <2>2. (limited \/ call[s].limited) \in BOOLEAN
    OBVIOUS
  <2>3. state' \in {"closed", "open"}
    BY <2>1, <2>2, MarkTypes
  <2> QED
    BY <2>3 DEF ProbeInv
<1>4. ASSUME UNCHANGED <<state, inFlight, probes>>
      PROVE  ProbeInv'
  BY <1>4 DEF ProbeInv
<1>5. ASSUME NEW s \in Senders,
             \/ Begin(s) \/ CircuitOpen(s) \/ Waited(s) \/ Cancelled(s) \/ CtxEnds(s)
             \/ \E limited \in BOOLEAN : RetryLater(s, limited)
      PROVE  UNCHANGED <<state, inFlight, probes>>
  BY <1>5 DEF Begin, CircuitOpen, Waited, Cancelled, Leave, CtxEnds, RetryLater, breaker
<1>6. ASSUME CoolDown \/ Heal \/ UNCHANGED breakerVars
      PROVE  UNCHANGED <<state, inFlight, probes>>
  BY <1>6 DEF CoolDown, Heal, breakerVars, breaker
<1> QED
  BY <1>1, <1>2, <1>3, <1>4, <1>5, <1>6 DEF BreakerNext, SendStep

\* Whatever the threshold and the number of goroutines, a half-open breaker has
\* let one of them through: OneProbe, by way of ProbeInv, which also says that
\* the probe is recorded.
THEOREM HalfOpenProbesOnce == BreakerSpec => []OneProbe
<1>1. BreakerInit => ProbeInv
  BY DEF BreakerInit, ProbeInv
<1>2. BreakerTypeOK /\ BreakerTypeOK' /\ ProbeInv /\ [BreakerNext]_breakerVars => ProbeInv'
  BY ProbeStep
<1>3. ProbeInv => OneProbe
  <2> SUFFICES ASSUME ProbeInv, state = "halfOpen"
               PROVE  Cardinality(probes) <= 1
    BY DEF OneProbe
  <2>1. PICK s \in Senders : probes = {s}
    BY DEF ProbeInv
  <2>2. Cardinality({s}) = 1
    BY FS_Singleton
  <2> QED
    BY <2>1, <2>2
<1> QED
  BY <1>1, <1>2, <1>3, BreakerTypeCorrect, PTL DEF BreakerSpec
=============================================================================
