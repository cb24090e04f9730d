--------------------------- MODULE MatchPipeline ---------------------------
(* From a crawled job to the batch that announces it, for one user.        *)
(*                                                                         *)
(* Two processes share the table pending_ac_jobs.  The job consumer        *)
(* (cmd/consumer, ProcessJobUseCase) takes a job from ai-process, matches  *)
(* it with the user and upserts the row (user, job).  The ac consumer      *)
(* (cmd/ac_consumer, ProcessACBatchUseCase) leases waiting rows, queues    *)
(* them as a batch on ac-batch, later ranks the batch, publishes its best  *)
(* jobs to match-notify and marks every row of the batch processed.        *)
(* Between any two statements of one the other may run: the lease          *)
(* (queued_at) and processed_at are all that orders them.                  *)
(*                                                                         *)
(* A score is a level and stands for a row's rerank score; the similarity  *)
(* only decides whether a match is made.  Retry counts and the lists of    *)
(* the two Redis queues are ReliableQueue's: here a failed job goes back,  *)
(* a failed batch goes back or to the DLQ, and a batch whose consumer died *)
(* stays in the processing list until a restart takes it back.  A user     *)
(* with a row has a profile and an embedding (the API refuses an empty     *)
(* profile and no statement clears an embedding), so the two early returns *)
(* of execute that test for them are not reached, nor is the one for a     *)
(* batch without jobs.                                                     *)
EXTENDS Integers, Sequences, FiniteSets

CONSTANTS
    Jobs,        \* jobs of the crawler
    MaxScore,    \* scores are 1 .. MaxScore
    Threshold,   \* RERANK_THRESHOLD as a level
    Fallback,    \* RERANK_FALLBACK_ENABLED
    MinJobs,     \* AC_BATCH_MIN_JOBS
    MaxBatch,    \* AC_BATCH_MAX_JOBS
    MaxSend,     \* max_jobs_to_send
    MaxOffers,   \* bound: messages on ai-process
    MaxEarly,    \* bound: leases that end while their batch is alive
    MaxFaults    \* bound: failures and crashes

ASSUME MatchAssumption ==
    /\ IsFiniteSet(Jobs) /\ Jobs # {}
    /\ MaxScore \in Nat \ {0}
    /\ Threshold \in 1 .. MaxScore
    /\ Fallback \in BOOLEAN
    /\ {MinJobs, MaxBatch, MaxSend} \subseteq Nat \ {0}
    /\ {MaxOffers, MaxEarly, MaxFaults} \subseteq Nat

VARIABLES
    offers,    \* messages of a job waiting on ai-process
    saved,     \* jobs with a row in job_embeddings
    jc,        \* the job consumer: where it is, its job, the score it found
    rows,      \* pending_ac_jobs of the user
    older,     \* older[j]: the jobs whose row was created before that of j
    acQ,       \* ac-batch, the batch popped next first
    stuck,     \* batches left in ac-batch:processing by a dead consumer
    ac,        \* the ac consumer: where it is, its batch, what it read
    seen,      \* jobs whose latest match was weighed by a batch that published
    raced,     \* jobs matched again between a batch's read and its mark
    credit,    \* reasons a job had to be announced, less its announcements
    spent      \* budget used: offers, early lapses, faults

jobVars == <<offers, saved, jc>>
rowVars == <<rows, older>>
acVars == <<acQ, stuck, ac>>
ghosts == <<seen, raced, credit>>
vars == <<jobVars, rowVars, acVars, ghosts, spent>>

Row == [state : {"none", "waiting", "done"},
        lease : {"free", "held", "old"},
        score : 0 .. MaxScore]
NoRow == [state |-> "none", lease |-> "free", score |-> 0]
IdleJob == [pc |-> "idle", job |-> CHOOSE j \in Jobs : TRUE, score |-> 0]
Unread == [j \in Jobs |-> 0]
IdleBatch == [pc |-> "idle", jobs |-> {}, loaded |-> Unread, sel |-> {}]
Larger(a, b) == IF a >= b THEN a ELSE b
Smaller(a, b) == IF a <= b THEN a ELSE b

(* At most MaxOffers, MaxEarly, ... of a kind.                             *)
Spend(kind) == spent' = [spent EXCEPT ![kind] = @ + 1]
Left(kind, max) == spent[kind] < max

(* One more reason to announce the jobs of S, one announcement of them.    *)
Excuse(S) == credit' = [j \in Jobs |-> IF j \in S THEN credit[j] + 1 ELSE credit[j]]
Publish(S) == credit' = [j \in Jobs |-> IF j \in S THEN credit[j] - 1 ELSE credit[j]]

(* The jobs with a row.                                                    *)
Kept == {j \in Jobs : rows[j].state # "none"}

\* Mutant of Put: a second match is a second row.
MutPut(j) == [older EXCEPT ![j] = Kept]

(* created_at = NOW(): the row is the youngest, and there is one per job.  *)
Put(j) == [k \in Jobs |-> IF k = j THEN Kept \ {j} ELSE older[k] \ {j}]

---------------------------------------------------------------------------
(* The crawler saves or refreshes a job and its id reaches ai-process.     *)
Offer(j) ==
    /\ Left("offers", MaxOffers)
    /\ Spend("offers")
    /\ offers' = [offers EXCEPT ![j] = @ + 1]
    /\ UNCHANGED <<saved, jc, rowVars, acVars, ghosts>>

---------------------------------------------------------------------------
(* The job consumer.                                                       *)

JobPop(j) ==
    /\ jc.pc = "idle"
    /\ offers[j] > 0
    /\ offers' = [offers EXCEPT ![j] = @ - 1]
    /\ jc' = [pc |-> "embed", job |-> j, score |-> 0]
    /\ UNCHANGED <<saved, rowVars, acVars, ghosts, spent>>

(* A saved embedding is used again; otherwise the text is encoded, the     *)
(* job classified and both saved in one statement.                         *)
JobEmbed ==
    /\ jc.pc = "embed"
    /\ saved' = saved \cup {jc.job}
    /\ jc' = [jc EXCEPT !.pc = "filter"]
    /\ UNCHANGED <<offers, rowVars, acVars, ghosts, spent>>

(* What apply_rerank_policy may leave of the user: a score that reaches    *)
(* the threshold, or any when the user was the best of a job all of whose  *)
(* candidates stayed below it.                                             *)
Candidates == {s \in 1 .. MaxScore : Fallback \/ s >= Threshold}

(* The preference filter keeps the user or excludes the job.               *)
JobFilter ==
    /\ jc.pc = "filter"
    /\ \E next \in {"find", "ack"} : jc' = [jc EXCEPT !.pc = next]
    /\ UNCHANGED <<offers, saved, rowVars, acVars, ghosts, spent>>

(* find_users_for_job: no match when the listing is gone, the user paused  *)
(* or was notified of it or the texts are too far apart.                   *)
JobFind ==
    /\ jc.pc = "find"
    /\ \E next \in {"rerank", "ack"} : jc' = [jc EXCEPT !.pc = next]
    /\ UNCHANGED <<offers, saved, rowVars, acVars, ghosts, spent>>

(* The reranker leaves the user with a score, or out when others rank      *)
(* before.                                                                 *)
JobRerank ==
    /\ jc.pc = "rerank"
    /\ \/ \E s \in Candidates : jc' = [jc EXCEPT !.pc = "feedback", !.score = s]
       \/ jc' = [jc EXCEPT !.pc = "ack"]
    /\ UNCHANGED <<offers, saved, rowVars, acVars, ghosts, spent>>

(* adjust_candidates: the similarity, weighed by the user's votes, still   *)
(* reaches its threshold, or the votes could not be read; or the user is   *)
(* out.  The rerank score stays.                                           *)
JobFeedback ==
    /\ jc.pc = "feedback"
    /\ \/ jc' = [jc EXCEPT !.pc = "upsert"]
       \/ jc' = [jc EXCEPT !.pc = "ack", !.score = 0]
    /\ UNCHANGED <<offers, saved, rowVars, acVars, ghosts, spent>>

(* ON CONFLICT: the greater score, waiting again and free of its lease.    *)
Upserted(row, s) ==
    [state |-> "waiting", lease |-> "free", score |-> Larger(row.score, s)]

(* The batch has read the row and has not yet marked it.                   *)
UnderWork(j) == ac.pc \in {"rank", "announce", "mark"} /\ j \in ac.jobs

JobUpsert ==
    /\ jc.pc = "upsert"
    /\ LET j == jc.job IN
        /\ rows' = [rows EXCEPT ![j] = Upserted(@, jc.score)]
        /\ older' = Put(j)
        /\ seen' = seen \ {j}
        /\ raced' = IF UnderWork(j) THEN raced \cup {j} ELSE raced \ {j}
        /\ Excuse({j})
    /\ jc' = [jc EXCEPT !.pc = "ack", !.score = 0]
    /\ UNCHANGED <<offers, saved, acVars, spent>>

JobAck ==
    /\ jc.pc = "ack"
    /\ jc' = IdleJob
    /\ UNCHANGED <<offers, saved, rowVars, acVars, ghosts, spent>>

(* An exception anywhere is a nack, a crash or a lost ack a redelivery:    *)
(* the message is back, what was written stays.                            *)
JobFails ==
    /\ jc.pc # "idle"
    /\ Left("faults", MaxFaults)
    /\ Spend("faults")
    /\ offers' = [offers EXCEPT ![jc.job] = @ + 1]
    /\ jc' = IdleJob
    /\ UNCHANGED <<saved, rowVars, acVars, ghosts>>

---------------------------------------------------------------------------
(* The scheduler of the ac consumer.                                       *)

\* Mutant of Claimable: the claim does not look at the lease.
MutClaimable(j) == rows[j].state = "waiting"

\* Mutant of Claimable: a lease never ends.
MutClaimableFree(j) == rows[j].state = "waiting" /\ rows[j].lease = "free"

Claimable(j) == rows[j].state = "waiting" /\ rows[j].lease # "held"

(* ORDER BY created_at LIMIT max.                                          *)
Oldest ==
    {j \in Jobs : /\ Claimable(j)
                  /\ Cardinality({k \in older[j] : Claimable(k)}) < MaxBatch}

(* claim_unprocessed_job_ids_with_trace: all or, below the minimum, none.  *)
Schedule ==
    /\ ac.pc = "idle"
    /\ Cardinality(Oldest) >= MinJobs
    /\ rows' = [j \in Jobs |-> IF j \in Oldest THEN [rows[j] EXCEPT !.lease = "held"]
                               ELSE rows[j]]
    /\ ac' = [IdleBatch EXCEPT !.pc = "claimed", !.jobs = Oldest]
    /\ UNCHANGED <<jobVars, older, acQ, stuck, ghosts, spent>>

EnqueueBatch ==
    /\ ac.pc = "claimed"
    /\ acQ' = Append(acQ, ac.jobs)
    /\ ac' = IdleBatch
    /\ UNCHANGED <<jobVars, rowVars, stuck, ghosts, spent>>

(* The queue refuses the batch or the process dies: the rows stay leased.  *)
EnqueueFails ==
    /\ ac.pc = "claimed"
    /\ Left("faults", MaxFaults)
    /\ Spend("faults")
    /\ ac' = IdleBatch
    /\ UNCHANGED <<jobVars, rowVars, acQ, stuck, ghosts>>

(* _cleanup_old_pending_rows: processed rows past their retention, which   *)
(* is far longer than a batch lives.                                       *)
InBatch(j) ==
    \/ \E i \in DOMAIN acQ : j \in acQ[i]
    \/ ac.pc # "idle" /\ j \in ac.jobs
    \/ \E i \in DOMAIN stuck : j \in stuck[i]

Cleanup(j) ==
    /\ ac.pc = "idle"
    /\ rows[j].state = "done"
    /\ ~InBatch(j)
    /\ rows' = [rows EXCEPT ![j] = NoRow]
    /\ older' = [k \in Jobs |-> IF k = j THEN {} ELSE older[k] \ {j}]
    /\ seen' = seen \ {j}
    /\ raced' = raced \ {j}
    /\ UNCHANGED <<jobVars, acVars, credit, spent>>

(* Time passes: queued_at is older than AC_LEASE_TIMEOUT_SEC.  The lease   *)
(* of a batch that is gone ends sooner or later; one whose batch is queued *)
(* or worked on may.                                                       *)
Alive(j) ==
    \/ \E i \in DOMAIN acQ : j \in acQ[i]
    \/ ac.pc # "idle" /\ j \in ac.jobs

Lapse(j) ==
    /\ rows[j].state = "waiting"
    /\ rows[j].lease = "held"
    /\ rows' = [rows EXCEPT ![j].lease = "old"]
    /\ \/ ~Alive(j) /\ UNCHANGED spent
       \/ Alive(j) /\ Left("early", MaxEarly) /\ Spend("early")
    /\ Excuse({j} \cap {k \in Jobs : InBatch(k)})
    /\ UNCHANGED <<jobVars, older, acVars, seen, raced>>

---------------------------------------------------------------------------
(* A batch.                                                                *)

Pop ==
    /\ ac.pc = "idle"
    /\ acQ # <<>>
    /\ acQ' = Tail(acQ)
    /\ ac' = [IdleBatch EXCEPT !.pc = "load", !.jobs = Head(acQ)]
    /\ UNCHANGED <<jobVars, rowVars, stuck, ghosts, spent>>

(* get_with_scores: by id, whether or not the row still waits.             *)
Load ==
    /\ ac.pc = "load"
    /\ ac' = [ac EXCEPT !.pc = "rank",
                        !.loaded = [j \in Jobs |-> IF j \in ac.jobs THEN rows[j].score ELSE 0]]
    /\ raced' = {j \in raced : j \in ac.jobs => rows[j].state # "waiting"}
    /\ UNCHANGED <<jobVars, rowVars, acQ, stuck, seen, credit, spent>>

(* apply_rerank_policy over the batch: those that reach the threshold, or  *)
(* the best alone.                                                         *)
Best(S, score) == {j \in S : \A k \in S : score[j] >= score[k]}

Selections(S, score) ==
    LET above == {j \in S : score[j] >= Threshold}
    IN  IF above # {} THEN {above}
        ELSE IF Fallback THEN {{j} : j \in Best(S, score)} ELSE {{}}

(* sorted(...)[: max_jobs_to_send]: the final scores weigh in feedback,    *)
(* sources, age and competition, so any of the eligible may be first.      *)
Firsts(S) == {T \in SUBSET S : Cardinality(T) = Smaller(MaxSend, Cardinality(S))}

\* Mutant of Rank: the rows are marked before the batch is published.
MutRank ==
    /\ ac.pc = "rank"
    /\ \E S \in Selections(ac.jobs, ac.loaded), T \in SUBSET Jobs :
        /\ T \in Firsts(S)
        /\ ac' = [ac EXCEPT !.pc = "announce", !.loaded = Unread, !.sel = T]
        /\ rows' = [j \in Jobs |->
                       IF j \in ac.jobs /\ rows[j].state = "waiting"
                       THEN [rows[j] EXCEPT !.state = "done"] ELSE rows[j]]
    /\ UNCHANGED <<jobVars, older, acQ, stuck, ghosts, spent>>

(* save_scoring_components: the score as the batch read it, whatever the   *)
(* row holds by now.                                                       *)
Scored(row, s) == IF row.state = "none" THEN row ELSE [row EXCEPT !.score = s]

(* _rank_jobs: the eligible are scored and the first of them kept.         *)
Rank ==
    /\ ac.pc = "rank"
    /\ \E S \in Selections(ac.jobs, ac.loaded) :
        /\ \E T \in Firsts(S) : ac' = [ac EXCEPT !.pc = "announce", !.loaded = Unread, !.sel = T]
        /\ rows' = [j \in Jobs |->
                       IF j \in S THEN Scored(rows[j], ac.loaded[j]) ELSE rows[j]]
    /\ UNCHANGED <<jobVars, older, acQ, stuck, ghosts, spent>>

(* The explanations are there and the batch is pushed, unless it is empty. *)
Announce ==
    /\ ac.pc = "announce"
    /\ Publish(ac.sel)
    /\ seen' = seen \cup (ac.jobs \ raced)
    /\ ac' = [ac EXCEPT !.pc = "mark", !.sel = {}]
    /\ UNCHANGED <<jobVars, rowVars, acQ, stuck, raced, spent>>

(* mark_processed: every job of the batch that waits now.                  *)
Mark ==
    /\ ac.pc = "mark"
    /\ rows' = [j \in Jobs |->
                   IF j \in ac.jobs /\ rows[j].state = "waiting"
                   THEN [rows[j] EXCEPT !.state = "done"] ELSE rows[j]]
    /\ ac' = [ac EXCEPT !.pc = "ack"]
    /\ UNCHANGED <<jobVars, older, acQ, stuck, ghosts, spent>>

Ack ==
    /\ ac.pc = "ack"
    /\ ac' = IdleBatch
    /\ UNCHANGED <<jobVars, rowVars, acQ, stuck, ghosts, spent>>

(* An exception in execute, or a shutdown: the batch is next again or,     *)
(* after too many times, in the DLQ.                                       *)
BatchFails ==
    /\ ac.pc \in {"load", "rank", "announce", "mark"}
    /\ Left("faults", MaxFaults)
    /\ Spend("faults")
    /\ acQ' \in {<<ac.jobs>> \o acQ, acQ}
    /\ Excuse(IF ac.pc = "mark" THEN ac.jobs ELSE {})
    /\ ac' = IdleBatch
    /\ UNCHANGED <<jobVars, rowVars, stuck, seen, raced>>

(* The process dies, or the ack fails: the batch stays in processing.      *)
BatchCrash ==
    /\ ac.pc \in {"load", "rank", "announce", "mark", "ack"}
    /\ Left("faults", MaxFaults)
    /\ Spend("faults")
    /\ stuck' = Append(stuck, ac.jobs)
    /\ Excuse(ac.jobs)
    /\ ac' = IdleBatch
    /\ UNCHANGED <<jobVars, rowVars, acQ, seen, raced>>

(* A start after the reclaim threshold takes it back.                      *)
Reclaim ==
    /\ ac.pc = "idle"
    /\ stuck # <<>>
    /\ acQ' = <<Head(stuck)>> \o acQ
    /\ stuck' = Tail(stuck)
    /\ UNCHANGED <<jobVars, rowVars, ac, ghosts, spent>>

---------------------------------------------------------------------------
Init ==
    /\ offers = [j \in Jobs |-> 0]
    /\ saved = {}
    /\ jc = IdleJob
    /\ rows = [j \in Jobs |-> NoRow]
    /\ older = [j \in Jobs |-> {}]
    /\ acQ = <<>>
    /\ stuck = <<>>
    /\ ac = IdleBatch
    /\ seen = {}
    /\ raced = {}
    /\ credit = [j \in Jobs |-> 0]
    /\ spent = [k \in {"offers", "early", "faults"} |-> 0]

JobStep ==
    \/ \E j \in Jobs : JobPop(j)
    \/ JobEmbed \/ JobFilter \/ JobFind \/ JobRerank \/ JobFeedback \/ JobUpsert \/ JobAck
BatchStep == Pop \/ Load \/ Rank \/ Announce \/ Mark \/ Ack

Next ==
    \/ \E j \in Jobs : Offer(j) \/ Cleanup(j) \/ Lapse(j)
    \/ JobStep
    \/ JobFails
    \/ Schedule
    \/ EnqueueBatch
    \/ EnqueueFails
    \/ BatchStep
    \/ BatchFails
    \/ BatchCrash
    \/ Reclaim

(* Both consumers keep looping, the scheduler is due again every           *)
(* AC_BATCH_INTERVAL_SEC, and a lease nobody renews ends.  Nobody promises *)
(* an offer, a restart or a fault.                                         *)
Fairness ==
    /\ WF_vars(JobStep)
    /\ WF_vars(Schedule)
    /\ WF_vars(EnqueueBatch)
    /\ WF_vars(BatchStep)
    /\ \A j \in Jobs : WF_vars(Lapse(j) /\ ~Alive(j))

Spec == Init /\ [][Next]_vars /\ Fairness

---------------------------------------------------------------------------
(* Types, and what ties the table to the rest: the rows are ordered, one   *)
(* row a job, and every row's job has its embedding, so that a batch finds *)
(* all its jobs.                                                           *)
TypeOK ==
    /\ offers \in [Jobs -> Nat]
    /\ jc \in [pc : {"idle", "embed", "filter", "find", "rerank", "feedback", "upsert", "ack"},
               job : Jobs, score : 0 .. MaxScore]
    /\ rows \in [Jobs -> Row]
    /\ older \in [Jobs -> SUBSET Jobs]
    /\ \A j \in Jobs : older[j] \subseteq IF j \in Kept THEN Kept \ {j} ELSE {}
    /\ \A j, k \in Kept : j # k => (j \in older[k] <=> k \notin older[j])
    /\ \A j \in Jobs : \A k \in older[j] : older[k] \subseteq older[j]
    /\ \A j \in Jobs : rows[j].state # "none" => j \in saved /\ rows[j].score > 0
    /\ acQ \in Seq((SUBSET Jobs) \ {{}}) /\ stuck \in Seq((SUBSET Jobs) \ {{}})
    /\ ac.pc \in {"idle", "claimed", "load", "rank", "announce", "mark", "ack"}
    /\ ac.sel \subseteq ac.jobs /\ ac.jobs \subseteq Jobs
    /\ \A j \in ac.jobs : rows[j].state # "none"
    /\ credit \in [Jobs -> Int]
    /\ saved \subseteq Jobs /\ seen \subseteq Jobs /\ raced \subseteq Jobs

(* A row is marked processed only after a batch that had read its latest   *)
(* match published its choice, whatever failed or died in between, except  *)
(* for the match that came in between that batch's read and its mark:      *)
(* mark_processed wipes it unread.                                         *)
ProcessedWasRanked ==
    \A j \in Jobs : rows[j].state = "done" => j \in seen \cup raced

(* A job is announced once per reason: a match again, a lease that ended   *)
(* while its batch was queued, worked on or left behind, a batch that died *)
(* or failed after it published.  The lease is what keeps the scheduler    *)
(* from queueing a row twice.                                              *)
AnnouncedOnce == \A j \in Jobs : credit[j] >= 0

(* Every match that waits is taken by a batch and marked, through refused  *)
(* queues, the DLQ and consumers that die: its lease ends and the          *)
(* scheduler takes it again.                                               *)
MatchesAreRanked ==
    \A j \in Jobs : rows[j].state = "waiting" ~> rows[j].state # "waiting"
=============================================================================
