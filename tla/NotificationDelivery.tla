------------------------ MODULE NotificationDelivery ------------------------
(***************************************************************************)
(* Delivery of one user's matches by backend-notifier: the life of the     *)
(* user's rows of the table notifications, the main loop that sends a      *)
(* match-notify batch at once (usecase.SendNotification.ExecuteBatch), and *)
(* the two cron jobs that send what has accumulated (usecase.DailyDigest). *)
(*                                                                         *)
(* Every SQL statement of the code commits on its own, so every statement  *)
(* is an action; what the process keeps between two statements is in the   *)
(* local state of its processes.  Rows of different users never meet, so   *)
(* one user is enough.  The score order in which rows are picked is        *)
(* abstracted to "any rows, of that number".                               *)
(***************************************************************************)
EXTENDS Integers, FiniteSets

CONSTANTS
    Jobs,        \* jobs that may be matched to the user
    Messages,    \* match-notify messages published for the user
    JobsOf,      \* JobsOf[m]: the distinct job ids in message m
    Crons,       \* cron jobs that run: a subset of {"digest", "accumulation"}
    DailyCap,    \* DailyCap[plan]: deliveries a user of that plan gets a day
    MaxRetries,  \* nacks after which a message goes to the DLQ
    StartPlans,  \* plans the user may have when the run begins
    StartRows,   \* statuses the rows may have when the run begins
    StartJobs,   \* what the jobs may be when the run begins
    Faults,      \* faults that happen: "db", "redis", "ambiguous", "crash"
    Env          \* what changes meanwhile: "age", "expire", "pause", "plan",
                 \*   "midnight"

Plans == {"free", "pro"}

ASSUME ConstantsAssumption ==
    /\ IsFiniteSet(Jobs)
    /\ JobsOf \in [Messages -> SUBSET Jobs]
    /\ Crons \subseteq {"digest", "accumulation"}
    /\ DailyCap \in [Plans -> Nat \ {0}]
    /\ MaxRetries \in Nat
    /\ StartPlans \subseteq Plans
    /\ StartRows \subseteq {"none", "pending", "missed"}
    /\ StartJobs \subseteq {"fresh", "stale", "expired"}

VARIABLES
    job,        \* job[j]: what the table jobs says of j
    expiring,   \* expired jobs whose pending rows the crawler has yet to cancel
    plan,       \* the user's effective plan
    paused,     \* whether the user has paused notifications
    row,        \* row[j]: status of the notifications row, "none" if absent
    today,      \* rows whose sent_at lies in the current UTC day
    oldClaims,  \* rows whose claimed_at is older than the claim TTL
    inbox,      \* inbox[m]: the Redis list message m is in
    retries,    \* retries[m]: _retry_count of m
    loc,        \* loc[p]: the local state of process p
    delivered   \* delivered[j]: times j has reached the user's chat, up to 2

world  == <<job, expiring, plan, paused>>
table  == <<row, today, oldClaims>>
broker == <<inbox, retries>>
vars   == <<world, table, broker, loc, delivered>>

Statuses == {"none", "pending", "missed", "sending", "dispatched", "sent",
             "failed"}
Lists == {"queue", "processing", "done", "dlq"}
Procs == {"batch"} \cup Crons
Labels == {"idle", "load", "ensure", "count", "missed", "dispatch", "send",
           "sent", "fail", "settle", "recover", "select", "backlog",
           "convert", "claim", "jobs", "purge"}

Local == [pc : Labels,
          msg : SUBSET Messages,   \* the message in hand, if any
          todo : SUBSET Jobs,      \* items the current loop has yet to visit
          picked : SUBSET Jobs,    \* items to deliver
          drop : SUBSET Jobs,      \* rows about to be deleted
          seen : SUBSET Jobs,      \* jobs that were read as active and fresh
          room : Nat,              \* what is left of the cap, as far as known
          verdict : {"ack", "nack", "requeue"}]

Idle == [pc |-> "idle", msg |-> {}, todo |-> {}, picked |-> {}, drop |-> {},
         seen |-> {}, room |-> 0, verdict |-> "ack"]

TypeOK ==
    /\ job \in [Jobs -> {"fresh", "stale", "expired"}]
    /\ expiring \subseteq Jobs
    /\ plan \in Plans
    /\ paused \in BOOLEAN
    /\ row \in [Jobs -> Statuses]
    /\ today \subseteq Jobs
    /\ oldClaims \subseteq Jobs
    /\ inbox \in [Messages -> Lists]
    /\ retries \in [Messages -> 0 .. MaxRetries + 1]
    /\ loc \in [Procs -> Local]
    /\ delivered \in [Jobs -> 0 .. 2]

Init ==
    /\ job \in [Jobs -> StartJobs]
    /\ expiring = {}
    /\ plan \in StartPlans
    /\ paused = FALSE
    /\ row \in [Jobs -> StartRows]
    /\ today = {}
    /\ oldClaims = {}
    /\ inbox = [m \in Messages |-> "queue"]
    /\ retries = [m \in Messages |-> 0]
    /\ loc = [p \in Procs |-> Idle]
    /\ delivered = [j \in Jobs |-> 0]

-----------------------------------------------------------------------------
(* The statements of adapter/postgres/notification_repository.go.          *)

InStatus(S) == {j \in Jobs : row[j] \in S}

\* Mutant of CountToday: only rows in status sent are counted.
MutCountToday == Cardinality(InStatus({"sent"}) \cap today)

\* CountToday: finalized deliveries of the current UTC day.
CountToday == Cardinality(InStatus({"dispatched", "sent"}) \cap today)

\* MarkDispatched: a no-op, and no error, when the row is elsewhere.
MarkDispatched(j) ==
    IF row[j] \in {"pending", "sending"}
    THEN /\ row' = [row EXCEPT ![j] = "dispatched"]
         /\ today' = today \cup {j}
         /\ oldClaims' = oldClaims \ {j}
    ELSE UNCHANGED table

\* MarkSent keeps a sent_at that is already there.
MarkSent(j) ==
    IF row[j] \in {"pending", "sending", "dispatched", "sent"}
    THEN /\ row' = [row EXCEPT ![j] = "sent"]
         /\ today' = IF row[j] \in {"pending", "sending"}
                     THEN today \cup {j} ELSE today
         /\ oldClaims' = oldClaims \ {j}
    ELSE UNCHANGED table

\* MarkFailed: whatever the status is.
MarkFailed(j) ==
    IF row[j] # "none"
    THEN /\ row' = [row EXCEPT ![j] = "failed"]
         /\ today' = today \ {j}
         /\ oldClaims' = oldClaims \ {j}
    ELSE UNCHANGED table

\* MarkMissed: pending rows only.
MarkMissed(j) ==
    IF row[j] = "pending"
    THEN /\ row' = [row EXCEPT ![j] = "missed"]
         /\ today' = today \ {j}
         /\ UNCHANGED oldClaims
    ELSE UNCHANGED table

\* Delete, DeleteNotifications: whatever the status is.
DeleteRows(S) ==
    /\ row' = [j \in Jobs |-> IF j \in S THEN "none" ELSE row[j]]
    /\ today' = today \ S
    /\ oldClaims' = oldClaims \ S

\* Rows in S that are in status "from" become pending again.
BackToPending(S, from) ==
    /\ row' = [j \in Jobs |->
                  IF j \in S /\ row[j] = from THEN "pending" ELSE row[j]]
    /\ oldClaims' = oldClaims \ {j \in S : row[j] = from}
    /\ UNCHANGED today

\* Mutant of Sendable: an interrupted delivery is tried again.
MutSendable == {"none", "pending", "failed", "dispatched"}

\* Statuses in which EnsurePending tells its caller to send.
Sendable == {"none", "pending", "failed"}

\* Mutant of EnsurePending: ON CONFLICT DO UPDATE SET status = 'pending'.
MutEnsurePending(j) ==
    /\ row' = [row EXCEPT ![j] = "pending"]
    /\ today' = today \ {j}
    /\ oldClaims' = oldClaims \ {j}

\* EnsurePending: insert the row, or reset a failed one.
EnsurePending(j) ==
    IF row[j] \in {"none", "failed"}
    THEN /\ row' = [row EXCEPT ![j] = "pending"]
         /\ today' = today \ {j}
         /\ UNCHANGED oldClaims
    ELSE UNCHANGED table

\* LIMIT n: the subsets of S that have n elements, or all of S if it has
\* fewer.  (The rows with the best scores are one of them.)
UpTo(n, S) ==
    {T \in SUBSET S :
        IF n <= 0 THEN T = {}
        ELSE Cardinality(T) = IF Cardinality(S) <= n THEN Cardinality(S) ELSE n}

-----------------------------------------------------------------------------
(* The main loop: pop, ExecuteBatch, settle.                               *)

At(p, label) == loc[p].pc = label
Becomes(p, l) == loc' = [loc EXCEPT ![p] = l]
Goto(p, label) == Becomes(p, [loc[p] EXCEPT !.pc = label])
Finish(p) == Becomes(p, Idle)

\* ExecuteBatch returns: verdict v is what the main loop does next.
Return(v) == Becomes("batch", [loc["batch"] EXCEPT !.pc = "settle",
                 !.verdict = v])

\* cmd/notifier: consumer.Pop.
Pop(m) ==
    /\ At("batch", "idle")
    /\ inbox[m] = "queue"
    /\ inbox' = [inbox EXCEPT ![m] = "processing"]
    /\ Becomes("batch", [loc["batch"] EXCEPT !.pc = "load", !.msg = {m}])
    /\ UNCHANGED <<world, table, retries, delivered>>

\* The user and the batch's active jobs are read; the batch of a paused user
\* is dropped without an error.
LoadBatch ==
    /\ At("batch", "load")
    /\ IF paused
       THEN Return("ack")
       ELSE \E m \in loc["batch"].msg :
               Becomes("batch", [loc["batch"] EXCEPT
                   !.pc = "ensure",
                   !.todo = {j \in JobsOf[m] : job[j] # "expired"},
                   !.seen = {j \in Jobs : job[j] = "fresh"},
                   !.room = DailyCap[plan]])
    /\ UNCHANGED <<world, table, broker, delivered>>

\* EnsurePending of one item; the row of a stale one is to be deleted.
Ensure(j) ==
    /\ At("batch", "ensure")
    /\ loc["batch"].drop = {}
    /\ j \in loc["batch"].todo
    /\ EnsurePending(j)
    /\ LET send == {j} \cap InStatus(Sendable)
       IN  Becomes("batch", [loc["batch"] EXCEPT
               !.todo = @ \ {j},
               !.picked = @ \cup (send \cap loc["batch"].seen),
               !.drop = send \ loc["batch"].seen])
    /\ UNCHANGED <<world, broker, delivered>>

\* A failure to delete the row of a stale item is only logged.
DropStaleItem ==
    /\ At("batch", "ensure")
    /\ loc["batch"].drop # {}
    /\ \/ DeleteRows(loc["batch"].drop)
       \/ "db" \in Faults /\ UNCHANGED table
    /\ Becomes("batch", [loc["batch"] EXCEPT !.drop = {}])
    /\ UNCHANGED <<world, broker, delivered>>

EnsureDone ==
    /\ At("batch", "ensure")
    /\ loc["batch"].todo = {}
    /\ loc["batch"].drop = {}
    /\ IF loc["batch"].picked = {} THEN Return("ack") ELSE Goto("batch", "count")
    /\ UNCHANGED <<world, table, broker, delivered>>

\* selectBatchWithinDailyCap: CountToday; what exceeds the rest of the cap is
\* to be marked missed, the others stay picked.
CountBatch ==
    /\ At("batch", "count")
    /\ \E keep \in UpTo(loc["batch"].room - CountToday, loc["batch"].picked) :
          Becomes("batch", [loc["batch"] EXCEPT !.pc = "missed",
              !.picked = keep,
              !.todo = loc["batch"].picked \ keep])
    /\ UNCHANGED <<world, table, broker, delivered>>

MissItem(j) ==
    /\ At("batch", "missed")
    /\ j \in loc["batch"].todo
    /\ MarkMissed(j)
    /\ Becomes("batch", [loc["batch"] EXCEPT !.todo = @ \ {j}])
    /\ UNCHANGED <<world, broker, delivered>>

MissDone ==
    /\ At("batch", "missed")
    /\ loc["batch"].todo = {}
    /\ IF loc["batch"].picked = {}
       THEN Return("ack")
       ELSE Becomes("batch", [loc["batch"] EXCEPT !.pc = "dispatch",
                !.todo = loc["batch"].picked])
    /\ UNCHANGED <<world, table, broker, delivered>>

\* A statement of ExecuteBatch fails before anything is dispatched.
BatchError ==
    /\ "db" \in Faults
    /\ \/ At("batch", "load") \/ At("batch", "count") \/ At("batch", "missed")
       \/ At("batch", "ensure") /\ loc["batch"].drop = {}
    /\ Return("nack")
    /\ UNCHANGED <<world, table, broker, delivered>>

\* MarkDispatched fails in ExecuteBatch: those already dispatched are undone.
DispatchError ==
    /\ "db" \in Faults
    /\ At("batch", "dispatch")
    /\ loc["batch"].todo # {}
    /\ Becomes("batch", [loc["batch"] EXCEPT !.pc = "fail",
           !.todo = loc["batch"].picked \ @,
           !.verdict = "nack"])
    /\ UNCHANGED <<world, table, broker, delivered>>

\* MarkFailed of one item, after a send or a MarkDispatched that failed; its
\* own failure is only logged.
FailItem(j) ==
    /\ At("batch", "fail")
    /\ j \in loc["batch"].todo
    /\ \/ MarkFailed(j)
       \/ "db" \in Faults /\ UNCHANGED table
    /\ Becomes("batch", [loc["batch"] EXCEPT !.todo = @ \ {j}])
    /\ UNCHANGED <<world, broker, delivered>>

FailDone ==
    /\ At("batch", "fail")
    /\ loc["batch"].todo = {}
    /\ Goto("batch", "settle")
    /\ UNCHANGED <<world, table, broker, delivered>>

\* Ack removes the message; if Redis fails it stays in processing.
Ack ==
    /\ At("batch", "settle")
    /\ loc["batch"].verdict = "ack"
    /\ \/ inbox' = [m \in Messages |->
                       IF m \in loc["batch"].msg THEN "done" ELSE inbox[m]]
       \/ "redis" \in Faults /\ UNCHANGED inbox
    /\ Finish("batch")
    /\ UNCHANGED <<world, table, retries, delivered>>

\* Mutant of Nack: no DLQ, the message always goes back to the queue.
MutNackForever ==
    /\ At("batch", "settle")
    /\ loc["batch"].verdict = "nack"
    /\ \E m \in loc["batch"].msg :
          /\ retries' = [retries EXCEPT ![m] = @ + 1]
          /\ inbox' = [inbox EXCEPT ![m] = "queue"]
    /\ Finish("batch")
    /\ UNCHANGED <<world, table, delivered>>

\* Mutant of Nack: a message beyond its last retry is thrown away.
MutNackDrops ==
    /\ At("batch", "settle")
    /\ loc["batch"].verdict = "nack"
    /\ \E m \in loc["batch"].msg :
          /\ retries' = [retries EXCEPT ![m] = @ + 1]
          /\ inbox' = [inbox EXCEPT ![m] = IF retries[m] + 1 > MaxRetries
                                           THEN "done" ELSE "queue"]
    /\ Finish("batch")
    /\ UNCHANGED <<world, table, delivered>>

\* Nack counts a retry and sends the message back, in the end to the DLQ.
Nack ==
    /\ At("batch", "settle")
    /\ loc["batch"].verdict = "nack"
    /\ \E m \in loc["batch"].msg :
          /\ retries' = [retries EXCEPT ![m] = @ + 1]
          /\ inbox' = [inbox EXCEPT ![m] = IF retries[m] + 1 > MaxRetries
                                           THEN "dlq" ELSE "queue"]
    /\ Finish("batch")
    /\ UNCHANGED <<world, table, delivered>>

\* Mutant of Requeue: the message is left in the processing list.
MutRequeue ==
    /\ At("batch", "settle")
    /\ loc["batch"].verdict = "requeue"
    /\ Finish("batch")
    /\ UNCHANGED <<world, table, broker, delivered>>

\* Requeue: the circuit was open, the message goes back as it is.
Requeue ==
    /\ At("batch", "settle")
    /\ loc["batch"].verdict = "requeue"
    /\ inbox' = [m \in Messages |->
                    IF m \in loc["batch"].msg THEN "queue" ELSE inbox[m]]
    /\ Finish("batch")
    /\ UNCHANGED <<world, table, retries, delivered>>

\* Nack or Requeue fails: the processing list is to be recovered.
GiveBackError ==
    /\ "redis" \in Faults
    /\ At("batch", "settle")
    /\ loc["batch"].verdict # "ack"
    /\ Becomes("batch", [Idle EXCEPT !.pc = "recover"])
    /\ UNCHANGED <<world, table, broker, delivered>>

\* consumer.Recover: at start, and after a nack that failed.
Recover ==
    /\ At("batch", "recover")
    /\ inbox' = [m \in Messages |->
                    IF inbox[m] = "processing" THEN "queue" ELSE inbox[m]]
    /\ Finish("batch")
    /\ UNCHANGED <<world, table, retries, delivered>>

-----------------------------------------------------------------------------
(* A run of a cron job, as far as this user is concerned.                  *)

\* Mutant of CronStart: stale claims are not reclaimed.
MutCronStart(p) ==
    /\ At(p, "idle")
    /\ Goto(p, "select")
    /\ UNCHANGED <<world, table, broker, delivered>>

\* ReclaimStaleDigestClaims.
CronStart(p) ==
    /\ At(p, "idle")
    /\ BackToPending(oldClaims, "sending")
    /\ Goto(p, "select")
    /\ UNCHANGED <<world, broker, delivered>>

\* GetFreeUsersWithPendingNotifications; GetProUsersWithNotifyHour, the hour
\* being the user's.
Selects(p) ==
    IF p = "accumulation"
    THEN plan = "free" /\ ~paused /\ InStatus({"pending"}) # {}
    ELSE plan = "pro"

CronSelect(p) ==
    /\ At(p, "select")
    /\ IF Selects(p) THEN Goto(p, "count") ELSE Finish(p)
    /\ UNCHANGED <<world, table, broker, delivered>>

\* sendDigestForUser reads the user again, then CountToday.
CronCount(p) ==
    /\ At(p, "count")
    /\ IF paused \/ CountToday >= DailyCap[plan]
       THEN Finish(p)
       ELSE Becomes(p, [loc[p] EXCEPT !.pc = "backlog",
                !.room = DailyCap[plan] - CountToday])
    /\ UNCHANGED <<world, table, broker, delivered>>

\* Mutant of CronReadMissed: one row too few is taken.
MutCronReadMissed(p) ==
    /\ At(p, "backlog")
    /\ LET dead == {j \in InStatus({"missed"}) : job[j] = "expired"}
       IN  \E S \in UpTo(loc[p].room - 1, InStatus({"missed"}) \ dead) :
              Becomes(p, [loc[p] EXCEPT !.pc = "convert",
                  !.drop = dead,
                  !.todo = S])
    /\ UNCHANGED <<world, table, broker, delivered>>

\* recoverMissedNotifications: GetMissedForUser; the rows of expired jobs are
\* to be deleted, as many others as the cap leaves are to become pending.
CronReadMissed(p) ==
    /\ At(p, "backlog")
    /\ LET dead == {j \in InStatus({"missed"}) : job[j] = "expired"}
       IN  \E S \in UpTo(loc[p].room, InStatus({"missed"}) \ dead) :
              Becomes(p, [loc[p] EXCEPT !.pc = "convert",
                  !.drop = dead,
                  !.todo = S])
    /\ UNCHANGED <<world, table, broker, delivered>>

\* DeleteNotifications, then ConvertMissedToPending.
CronDropMissed(p) ==
    /\ At(p, "convert")
    /\ loc[p].drop # {}
    /\ DeleteRows(loc[p].drop)
    /\ Becomes(p, [loc[p] EXCEPT !.drop = {}])
    /\ UNCHANGED <<world, broker, delivered>>

CronConvert(p) ==
    /\ At(p, "convert")
    /\ loc[p].drop = {}
    /\ BackToPending(loc[p].todo, "missed")
    /\ Becomes(p, [loc[p] EXCEPT !.pc = "claim", !.todo = {}])
    /\ UNCHANGED <<world, broker, delivered>>

\* Mutant of CronClaim: rows another run is sending are claimed too.
MutCronClaimSending(p) ==
    /\ At(p, "claim")
    /\ \E S \in UpTo(loc[p].room, InStatus({"pending", "sending"})) :
          /\ row' = [j \in Jobs |-> IF j \in S THEN "sending" ELSE row[j]]
          /\ oldClaims' = oldClaims \ S
          /\ IF S = {} THEN Finish(p)
             ELSE Becomes(p, [loc[p] EXCEPT !.pc = "jobs", !.picked = S])
    /\ UNCHANGED <<world, today, broker, delivered>>

\* Mutant of CronClaim: LIMIT is one too small.
MutCronClaimShort(p) ==
    /\ At(p, "claim")
    /\ \E S \in UpTo(loc[p].room - 1, InStatus({"pending"})) :
          /\ row' = [j \in Jobs |-> IF j \in S THEN "sending" ELSE row[j]]
          /\ oldClaims' = oldClaims \ S
          /\ IF S = {} THEN Finish(p)
             ELSE Becomes(p, [loc[p] EXCEPT !.pc = "jobs", !.picked = S])
    /\ UNCHANGED <<world, today, broker, delivered>>

\* ClaimPendingDigestNotifications: one statement takes what fits.
CronClaim(p) ==
    /\ At(p, "claim")
    /\ \E S \in UpTo(loc[p].room, InStatus({"pending"})) :
          /\ row' = [j \in Jobs |-> IF j \in S THEN "sending" ELSE row[j]]
          /\ oldClaims' = oldClaims \ S
          /\ IF S = {} THEN Finish(p)
             ELSE Becomes(p, [loc[p] EXCEPT !.pc = "jobs", !.picked = S])
    /\ UNCHANGED <<world, today, broker, delivered>>

\* GetByIDs: the rows of jobs that are gone or stale are to be deleted.
CronJobs(p) ==
    /\ At(p, "jobs")
    /\ LET bad == {j \in loc[p].picked : job[j] # "fresh"}
       IN  Becomes(p, [loc[p] EXCEPT !.pc = "purge",
               !.drop = bad,
               !.picked = @ \ bad])
    /\ UNCHANGED <<world, table, broker, delivered>>

CronPurge(p, j) ==
    /\ At(p, "purge")
    /\ j \in loc[p].drop
    /\ \/ DeleteRows({j})
       \/ "db" \in Faults /\ UNCHANGED table
    /\ Becomes(p, [loc[p] EXCEPT !.drop = @ \ {j}])
    /\ UNCHANGED <<world, broker, delivered>>

CronPurged(p) ==
    /\ At(p, "purge")
    /\ loc[p].drop = {}
    /\ IF loc[p].picked = {} THEN Finish(p)
       ELSE Becomes(p, [loc[p] EXCEPT !.pc = "dispatch",
                !.todo = loc[p].picked])
    /\ UNCHANGED <<world, table, broker, delivered>>

\* A statement fails: the run ends where it is.
CronError(p) ==
    /\ "db" \in Faults
    /\ \/ loc[p].pc \in {"select", "count", "backlog", "convert", "claim",
                         "jobs"}
       \/ At(p, "dispatch") /\ loc[p].todo # {}
    /\ Finish(p)
    /\ UNCHANGED <<world, table, broker, delivered>>

-----------------------------------------------------------------------------
(* What the main loop and the crons do alike: dispatch, send, mark sent.   *)

Dispatch(p, j) ==
    /\ At(p, "dispatch")
    /\ j \in loc[p].todo
    /\ MarkDispatched(j)
    /\ Becomes(p, [loc[p] EXCEPT !.todo = @ \ {j}])
    /\ UNCHANGED <<world, broker, delivered>>

DispatchDone(p) ==
    /\ At(p, "dispatch")
    /\ loc[p].todo = {}
    /\ Goto(p, "send")
    /\ UNCHANGED <<world, table, broker, delivered>>

\* The message with the picked items reaches the chat n times.
Reaches(p, n) ==
    delivered' = [j \in Jobs |->
                     IF j \notin loc[p].picked THEN delivered[j]
                     ELSE IF delivered[j] + n > 2 THEN 2
                     ELSE delivered[j] + n]

\* notifier.Send succeeds.  When answers can get lost, an attempt that Send
\* retried on its own may have reached the chat as well.
SendOk(p) ==
    /\ At(p, "send")
    /\ \E n \in IF "ambiguous" \in Faults THEN {1, 2} ELSE {1} : Reaches(p, n)
    /\ Becomes(p, [loc[p] EXCEPT !.pc = "sent", !.todo = loc[p].picked])
    /\ UNCHANGED <<world, table, broker>>

\* Mutant of SendError: ExecuteBatch returns without MarkFailed.
MutSendError(p) ==
    /\ At(p, "send")
    /\ \E n \in IF "ambiguous" \in Faults THEN {0, 1} ELSE {0} : Reaches(p, n)
    /\ IF p = "batch" THEN \E v \in {"nack", "requeue"} : Return(v)
                      ELSE Finish(p)
    /\ UNCHANGED <<world, table, broker>>

\* notifier.Send fails.  ExecuteBatch marks the items failed, and the message
\* is nacked, or requeued when the circuit was open; a digest just returns.
SendError(p) ==
    /\ At(p, "send")
    /\ \E n \in IF "ambiguous" \in Faults THEN {0, 1} ELSE {0} : Reaches(p, n)
    /\ IF p = "batch"
       THEN \E v \in {"nack", "requeue"} :
               Becomes("batch", [loc["batch"] EXCEPT !.pc = "fail",
                   !.todo = loc["batch"].picked,
                   !.verdict = v])
       ELSE Finish(p)
    /\ UNCHANGED <<world, table, broker>>

\* MarkSent of one item; its failure is only logged.
SentItem(p, j) ==
    /\ At(p, "sent")
    /\ j \in loc[p].todo
    /\ \/ MarkSent(j)
       \/ "db" \in Faults /\ UNCHANGED table
    /\ Becomes(p, [loc[p] EXCEPT !.todo = @ \ {j}])
    /\ UNCHANGED <<world, broker, delivered>>

SentDone(p) ==
    /\ At(p, "sent")
    /\ loc[p].todo = {}
    /\ IF p = "batch" THEN Return("ack") ELSE Finish(p)
    /\ UNCHANGED <<world, table, broker, delivered>>

-----------------------------------------------------------------------------
(* What happens around the notifier.                                       *)

\* The process dies and is started again; the start recovers the queue.
Crash ==
    /\ "crash" \in Faults
    /\ loc' = [p \in Procs |->
                  IF p = "batch" THEN [Idle EXCEPT !.pc = "recover"] ELSE Idle]
    /\ UNCHANGED <<world, table, broker, delivered>>

\* A claim reaches its TTL of 15 minutes.  The context of a cron run ends after
\* 5 or 9 minutes, so a claim that old has no living owner.
ClaimAges(j) ==
    /\ row[j] = "sending"
    /\ \A p \in Crons : j \notin loc[p].picked \cup loc[p].drop
    /\ oldClaims' = oldClaims \cup {j}
    /\ UNCHANGED <<world, row, today, broker, loc, delivered>>

Midnight ==
    /\ "midnight" \in Env
    /\ today' = {}
    /\ UNCHANGED <<world, row, oldClaims, broker, loc, delivered>>

\* A Kwork listing has not been seen for six hours, or is seen again.
JobAges(j) ==
    /\ "age" \in Env
    /\ \/ job[j] = "fresh" /\ job' = [job EXCEPT ![j] = "stale"]
       \/ job[j] = "stale" /\ job' = [job EXCEPT ![j] = "fresh"]
    /\ UNCHANGED <<expiring, plan, paused, table, broker, loc, delivered>>

\* ExpireByURL deletes the pending row in the transaction that expires the
\* job; ExpireStaleJobs leaves it to a later CancelPendingByJobIDs.
JobExpires(j) ==
    /\ "expire" \in Env
    /\ job[j] # "expired"
    /\ job' = [job EXCEPT ![j] = "expired"]
    /\ \/ /\ DeleteRows({j} \cap InStatus({"pending"}))
          /\ UNCHANGED expiring
       \/ /\ expiring' = expiring \cup {j}
          /\ UNCHANGED table
    /\ UNCHANGED <<plan, paused, broker, loc, delivered>>

\* CancelPendingByJobIDs: a failure is logged and never made up for.
CancelPending ==
    /\ expiring # {}
    /\ \/ DeleteRows(expiring \cap InStatus({"pending"}))
       \/ "db" \in Faults /\ UNCHANGED table
    /\ expiring' = {}
    /\ UNCHANGED <<job, plan, paused, broker, loc, delivered>>

\* The crawler meets an expired listing again: the job is active again.
JobRelisted(j) ==
    /\ job[j] = "expired"
    /\ job' = [job EXCEPT ![j] = "fresh"]
    /\ UNCHANGED <<expiring, plan, paused, table, broker, loc, delivered>>

UserChanges ==
    /\ \/ "pause" \in Env /\ paused' = ~paused /\ UNCHANGED plan
       \/ "plan" \in Env /\ plan' \in Plans \ {plan} /\ UNCHANGED paused
    /\ UNCHANGED <<job, expiring, table, broker, loc, delivered>>

-----------------------------------------------------------------------------
BatchStep ==
    \/ \E m \in Messages : Pop(m)
    \/ LoadBatch \/ DropStaleItem \/ EnsureDone \/ CountBatch \/ MissDone
    \/ BatchError \/ DispatchError \/ FailDone
    \/ Ack \/ Nack \/ Requeue \/ GiveBackError \/ Recover
    \/ \E j \in Jobs : Ensure(j) \/ MissItem(j) \/ FailItem(j)

CronStep(p) ==
    \/ CronStart(p) \/ CronSelect(p) \/ CronCount(p) \/ CronReadMissed(p)
    \/ CronDropMissed(p) \/ CronConvert(p) \/ CronClaim(p) \/ CronJobs(p)
    \/ CronPurged(p) \/ CronError(p)
    \/ \E j \in Jobs : CronPurge(p, j)

DeliverStep(p) ==
    \/ \E j \in Jobs : Dispatch(p, j) \/ SentItem(p, j)
    \/ DispatchDone(p) \/ SendOk(p) \/ SendError(p) \/ SentDone(p)

EnvStep ==
    \/ Crash \/ Midnight \/ UserChanges \/ CancelPending
    \/ \E j \in Jobs : \/ ClaimAges(j) \/ JobAges(j) \/ JobExpires(j)
                       \/ JobRelisted(j)

Next ==
    \/ BatchStep
    \/ \E p \in Crons : CronStep(p)
    \/ \E p \in Procs : DeliverStep(p)
    \/ EnvStep

Spec == Init /\ [][Next]_vars

\* The main loop never stops between pops; the crons are started again and
\* again; days pass; an abandoned claim grows old.
Fairness ==
    /\ WF_vars(BatchStep \/ DeliverStep("batch"))
    /\ \A p \in Crons : WF_vars(CronStep(p) \/ DeliverStep(p))
    /\ \A p \in Crons : WF_vars(CronStart(p))
    /\ \A j \in Jobs : WF_vars(ClaimAges(j))
    /\ WF_vars(Midnight)

FairSpec == Spec /\ Fairness

-----------------------------------------------------------------------------
(* What the delivery should guarantee.                                     *)

\* No job reaches the user's chat twice.
AtMostOnce == \A j \in Jobs : delivered[j] <= 1

\* No more rows count as delivered today than the user's plan allows.  (A plan
\* that changes during the day takes its count along.)
WithinDailyCap ==
    "plan" \notin Env =>
        Cardinality(InStatus({"dispatched", "sent"}) \cap today) <= DailyCap[plan]

\* A row in status failed is owed another attempt: a message that names the
\* job is still queued, in hand or, beyond its last retry, in the DLQ.
FailedHasRetry ==
    \A j \in InStatus({"failed"}) :
        \E m \in Messages : j \in JobsOf[m] /\ inbox[m] # "done"

\* Outside a delivery no row is left in status dispatched, which nothing would
\* ever take it out of.
NoneStranded ==
    \A j \in InStatus({"dispatched"}) :
        /\ j \in loc["batch"].picked
        /\ loc["batch"].pc \in {"dispatch", "send", "sent", "fail"}

\* A row that was marked sent stays as it is.
SentIsFinal == [][\A j \in InStatus({"sent"}) : row'[j] = "sent"]_row

\* The message in hand is about to go back because the circuit was open.
Refused == At("batch", "settle") /\ loc["batch"].verdict = "requeue"

\* Every message is acknowledged in the end or ends in the DLQ, unless Send goes
\* on refusing for an open circuit: that counts no retry, and a breaker whose
\* probe was lost does it for ever.
MessagesSettle ==
    <>[]~Refused =>
        \A m \in Messages : inbox[m] \in {"queue", "processing"}
                                ~> inbox[m] \in {"done", "dlq"}

\* No row stays claimed by a cron run that is gone.
ClaimsEnd == \A j \in Jobs : row[j] = "sending" ~> row[j] # "sending"

\* From some point on no cron run ends before its time, by a crash or a failed
\* statement, its deletions succeed, and the user keeps the plan.
Broken(p) ==
    /\ loc[p].pc # "idle" /\ loc'[p].pc = "idle"
    /\ ~(CronSelect(p) \/ CronCount(p) \/ CronClaim(p) \/ CronPurged(p) \/ DeliverStep(p))

Purges(p) == At(p, "purge") => \A j \in loc[p].drop \ loc'[p].drop : row'[j] = "none"

Calm == <>[][plan' = plan /\ \A p \in Crons : ~Broken(p) /\ Purges(p)]_vars

\* What is pending is picked up once that is so.
PendingGoesOut == Calm => \A j \in Jobs : row[j] = "pending" ~> row[j] # "pending"

\* What was held back from a Pro user is taken up again: the digest selects the
\* user at the chosen hour, whatever rows there are.  (A free user with missed
\* rows only is selected by nobody.)
ProMissedComesBack ==
    Calm => \A j \in Jobs : row[j] = "missed" /\ plan = "pro"
                                ~> row[j] # "missed" \/ plan = "free"
=============================================================================
