------------------------ MODULE MatchPipelineProofs ------------------------
(***************************************************************************)
(* Theorems about MatchPipeline, for any number of jobs, any sizes of a    *)
(* batch, any scores and any number of offers, early lapses and faults.    *)
(***************************************************************************)
EXTENDS MatchPipeline, FiniteSetTheorems, SequenceTheorems, TLAPS

Stages == {"idle", "claimed", "load", "rank", "announce", "mark", "ack"}
JobStages == {"idle", "embed", "filter", "find", "rerank", "feedback", "upsert",
              "ack"}

\* What a batch may be: some jobs, each with a row.
Batches == (SUBSET Kept) \ {{}}

\* The job consumer: past the embedding the job has one saved, and a score that
\* was found is a real one.
JobsTyped ==
    /\ offers \in [Jobs -> Nat]
    /\ jc \in [pc : JobStages, job : Jobs, score : 0 .. MaxScore]
    /\ saved \subseteq Jobs
    /\ jc.pc \in {"filter", "find", "rerank", "feedback", "upsert"} => jc.job \in saved
    /\ jc.pc \in {"feedback", "upsert"} => jc.score > 0

\* created_at orders the rows.
Ordered ==
    /\ older \in [Jobs -> SUBSET Jobs]
    /\ \A j \in Jobs : older[j] \subseteq IF j \in Kept THEN Kept \ {j} ELSE {}
    /\ \A j, k \in Kept : j # k => (j \in older[k] <=> k \notin older[j])
    /\ \A j \in Jobs : \A k \in older[j] : older[k] \subseteq older[j]

\* The table.
TableTyped ==
    /\ rows \in [Jobs -> Row]
    /\ Ordered
    /\ \A j \in Jobs : rows[j].state # "none" => j \in saved /\ rows[j].score > 0

\* The ac consumer and its queue: no row of a batch is cleaned up while the batch
\* lives, so that what it reads of a row is a score.
BatchesTyped ==
    /\ ac \in [pc : Stages, jobs : SUBSET Jobs, loaded : [Jobs -> 0 .. MaxScore],
               sel : SUBSET Jobs]
    /\ acQ \in Seq(Batches) /\ stuck \in Seq(Batches)
    /\ ac.jobs \subseteq Kept
    /\ ac.sel \subseteq ac.jobs
    /\ ac.pc = "idle" <=> ac.jobs = {}
    /\ ac.pc = "rank" => \A j \in ac.jobs : ac.loaded[j] > 0

GhostsTyped ==
    /\ credit \in [Jobs -> Int]
    /\ seen \subseteq Jobs /\ raced \subseteq Jobs

TypeInv == JobsTyped /\ TableTyped /\ BatchesTyped /\ GhostsTyped

---------------------------------------------------------------------------
(* Helpers.                                                                *)

LEMMA IdleTypes ==
    /\ IdleJob \in [pc : JobStages, job : Jobs, score : 0 .. MaxScore]
    /\ IdleJob.pc = "idle"
    /\ IdleBatch \in [pc : Stages, jobs : SUBSET Jobs,
                      loaded : [Jobs -> 0 .. MaxScore], sel : SUBSET Jobs]
    /\ IdleBatch.pc = "idle" /\ IdleBatch.jobs = {} /\ IdleBatch.sel = {}
<1>1. (CHOOSE j \in Jobs : TRUE) \in Jobs
  BY MatchAssumption
<1>2. 0 \in 0 .. MaxScore
  BY MatchAssumption
<1> QED
  BY <1>1, <1>2 DEF IdleJob, IdleBatch, Unread, JobStages, Stages

\* A queue of batches stays one when a batch joins it at either end, when its
\* first one is taken, and when there are more rows.
LEMMA QueueSteps ==
    ASSUME NEW S, NEW q \in Seq(S), NEW b \in S
    PROVE  Append(q, b) \in Seq(S) /\ <<b>> \o q \in Seq(S)
OBVIOUS

LEMMA QueueTail ==
    ASSUME NEW S, NEW q \in Seq(S), q # <<>>
    PROVE  Head(q) \in S /\ Tail(q) \in Seq(S)
OBVIOUS

LEMMA QueueGrows ==
    ASSUME NEW S, NEW T, NEW q \in Seq(S), \A i \in DOMAIN q : q[i] \in T
    PROVE  q \in Seq(T)
<1>1. /\ Len(q) \in Nat /\ DOMAIN q = 1 .. Len(q)
      /\ q = [i \in 1 .. Len(q) |-> q[i]]
  OBVIOUS
<1>2. q \in [1 .. Len(q) -> T]
  BY <1>1
<1> QED
  BY <1>1, <1>2, SeqDef

LEMMA BatchesGrow ==
    ASSUME BatchesTyped, Kept \subseteq Kept'
    PROVE  /\ acQ \in Seq(Batches') /\ stuck \in Seq(Batches')
           /\ Batches \subseteq Batches'
<1>1. Batches \subseteq Batches'
  BY DEF Batches
<1>2. acQ \in Seq(Batches) /\ stuck \in Seq(Batches)
  BY DEF BatchesTyped
<1>3. acQ \in Seq(Batches') /\ stuck \in Seq(Batches')
  BY <1>1, <1>2, SeqMonotonic
<1> QED
  BY <1>1, <1>3

\* A batch that is not idle is one.
LEMMA BatchInHand ==
    ASSUME BatchesTyped, ac.pc # "idle"
    PROVE  ac.jobs \in Batches
<1>1. ac.jobs \subseteq Kept /\ ac.jobs # {}
  BY DEF BatchesTyped
<1> QED
  BY <1>1 DEF Batches

---------------------------------------------------------------------------
(* The job consumer.                                                       *)

LEMMA JobsStep ==
    ASSUME TypeInv, [Next]_vars
    PROVE  JobsTyped' /\ saved \subseteq saved'
<1> USE DEF TypeInv
<1>s. \A s \in Candidates : s \in 0 .. MaxScore /\ s > 0
  BY MatchAssumption DEF Candidates
<1>z. 0 \in 0 .. MaxScore
  BY MatchAssumption
<1>1. CASE \E j \in Jobs : Offer(j)
  BY <1>1 DEF Offer, JobsTyped
<1>2. CASE \E j \in Jobs : JobPop(j)
  BY <1>2, <1>z DEF JobPop, JobsTyped, JobStages
<1>3. CASE JobEmbed
  BY <1>3 DEF JobEmbed, JobsTyped, JobStages
<1>4. CASE JobFilter \/ JobFind
  BY <1>4 DEF JobFilter, JobFind, JobsTyped, JobStages
<1>5. CASE JobRerank
  BY <1>5, <1>s DEF JobRerank, JobsTyped, JobStages
<1>6. CASE JobFeedback \/ JobUpsert
  BY <1>6, <1>z DEF JobFeedback, JobUpsert, JobsTyped, JobStages
<1>7. CASE JobAck \/ JobFails
  BY <1>7, IdleTypes DEF JobAck, JobFails, JobsTyped
<1>8. CASE UNCHANGED jobVars
  BY <1>8 DEF jobVars, JobsTyped
<1> QED
  BY <1>1, <1>2, <1>3, <1>4, <1>5, <1>6, <1>7, <1>8
     DEF Next, JobStep, BatchStep, Schedule, EnqueueBatch, EnqueueFails, Cleanup,
         Lapse, Pop, Load, Rank, Announce, Mark, Ack, BatchFails, BatchCrash,
         Reclaim, vars

---------------------------------------------------------------------------
(* The table.                                                              *)

LEMMA PutOrders ==
    ASSUME TableTyped, NEW j \in Jobs, older' = Put(j), Kept' = Kept \cup {j}
    PROVE  Ordered'
<1>k. Kept \subseteq Jobs
  BY DEF Kept
<1>1. older' \in [Jobs -> SUBSET Jobs]
  BY <1>k DEF Put, TableTyped, Ordered
<1>2. ASSUME NEW k \in Jobs, NEW x
      PROVE  x \in older'[k] <=> x # j /\ (IF k = j THEN x \in Kept ELSE x \in older[k])
  <2>1. CASE k = j
    <3>1. older'[j] = Kept \ {j}
      BY DEF Put
    <3> QED
      BY <2>1, <3>1
  <2>2. CASE k # j
    <3>1. older'[k] = older[k] \ {j}
      BY <2>2 DEF Put
    <3> QED
      BY <2>2, <3>1
  <2> QED
    BY <2>1, <2>2
<1>o. /\ \A k \in Jobs : older[k] \subseteq IF k \in Kept THEN Kept \ {k} ELSE {}
      /\ \A k, l \in Kept : k # l => (k \in older[l] <=> l \notin older[k])
      /\ \A k \in Jobs : \A l \in older[k] : older[l] \subseteq older[k]
  BY DEF TableTyped, Ordered
<1>3. \A k \in Jobs : older'[k] \subseteq IF k \in Kept' THEN Kept' \ {k} ELSE {}
  BY <1>2, <1>k, <1>o
<1>4. \A k, l \in Kept' : k # l => (k \in older'[l] <=> l \notin older'[k])
  BY <1>2, <1>k, <1>o
<1>5. ASSUME NEW k \in Jobs, NEW l \in older'[k], NEW x \in older'[l]
      PROVE  x \in older'[k]
  <2>1. l \in Jobs /\ l # j
    BY <1>1, <1>2
  <2>2. x \in older[l] /\ x # j
    BY <1>2, <2>1
  <2>3. CASE k = j
    BY <1>2, <2>1, <2>2, <2>3, <1>o
  <2>4. CASE k # j
    BY <1>2, <2>1, <2>2, <2>4, <1>o
  <2> QED
    BY <2>3, <2>4
<1> QED
  BY <1>1, <1>3, <1>4, <1>5 DEF Ordered

LEMMA CleanupOrders ==
    ASSUME TableTyped, NEW j \in Jobs, Kept' = Kept \ {j},
           older' = [k \in Jobs |-> IF k = j THEN {} ELSE older[k] \ {j}]
    PROVE  Ordered'
<1>k. Kept \subseteq Jobs
  BY DEF Kept
<1>1. older' \in [Jobs -> SUBSET Jobs]
  BY <1>k DEF TableTyped, Ordered
<1>2. \A k \in Jobs : older'[k] = IF k = j THEN {} ELSE older[k] \ {j}
  OBVIOUS
<1>3. \A k \in Jobs : older'[k] \subseteq IF k \in Kept' THEN Kept' \ {k} ELSE {}
  BY <1>2 DEF TableTyped, Ordered
<1>4. \A k, l \in Kept' : k # l => (k \in older'[l] <=> l \notin older'[k])
  BY <1>2, <1>k DEF TableTyped, Ordered
<1>5. \A k \in Jobs : \A l \in older'[k] : older'[l] \subseteq older'[k]
  BY <1>2, <1>k DEF TableTyped, Ordered
<1> QED
  BY <1>1, <1>3, <1>4, <1>5 DEF Ordered

\* A statement that leaves every row where it is, waiting or done, or makes a
\* waiting one done; a row's score stays one.
LEMMA RowsKept ==
    ASSUME TypeInv, UNCHANGED <<older, saved>>,
           rows' \in [Jobs -> Row],
           \A j \in Jobs : /\ rows'[j].state = "none" <=> rows[j].state = "none"
                           /\ rows[j].state # "none" => rows'[j].score > 0
    PROVE  TableTyped' /\ Kept' = Kept
<1>1. Kept' = Kept
  BY DEF Kept
<1>2. Ordered'
  BY <1>1 DEF TypeInv, TableTyped, Ordered
<1> QED
  BY <1>1, <1>2 DEF TypeInv, TableTyped

LEMMA SelectionParts ==
    ASSUME NEW S, NEW score, NEW T \in Selections(S, score)
    PROVE  T \subseteq S
BY DEF Selections, Best

LEMMA TableStep ==
    ASSUME TypeInv, [Next]_vars
    PROVE  /\ TableTyped'
           /\ \/ Kept \subseteq Kept'
              \/ \E j \in Jobs : Cleanup(j) /\ Kept' = Kept \ {j}
<1>r. rows \in [Jobs -> Row]
  BY DEF TypeInv, TableTyped
<1>k. Kept \subseteq Jobs
  BY DEF Kept
<1>1. CASE JobUpsert
  <2>1. /\ jc.job \in saved /\ jc.job \in Jobs
        /\ jc.score \in 0 .. MaxScore /\ jc.score > 0
    BY <1>1 DEF JobUpsert, TypeInv, JobsTyped
  <2> DEFINE j == jc.job
             new == Upserted(rows[j], jc.score)
  <2>2. rows[j] \in Row
    BY <2>1, <1>r
  <2>3. new \in Row /\ new.score > 0 /\ new.state = "waiting"
    <3>1. rows[j].score \in 0 .. MaxScore
      BY <2>2 DEF Row
    <3>2. Larger(rows[j].score, jc.score) \in 0 .. MaxScore
      BY <2>1, <3>1 DEF Larger
    <3>3. Larger(rows[j].score, jc.score) > 0
      BY <2>1, <3>1, MatchAssumption DEF Larger
    <3> QED
      BY <3>2, <3>3 DEF Upserted, Row
  <2>4. rows' = [rows EXCEPT ![j] = new] /\ older' = Put(j) /\ saved' = saved
    BY <1>1 DEF JobUpsert
  <2> HIDE DEF new, j
  <2>5. j \in Jobs /\ j \in saved
    BY <2>1 DEF j
  <2>6. /\ rows' \in [Jobs -> Row] /\ rows'[j] = new
        /\ \A k \in Jobs : k # j => rows'[k] = rows[k]
    BY <1>r, <2>3, <2>4, <2>5
  <2>7. Kept' = Kept \cup {j}
    BY <2>3, <2>5, <2>6 DEF Kept
  <2>8. Ordered'
    BY <2>4, <2>5, <2>7, PutOrders DEF TypeInv
  <2> QED
    BY <2>3, <2>4, <2>5, <2>6, <2>7, <2>8 DEF TypeInv, TableTyped
<1>2. ASSUME NEW j \in Jobs, Cleanup(j)
      PROVE  TableTyped' /\ Kept' = Kept \ {j}
  <2>1. NoRow \in Row
    BY MatchAssumption DEF NoRow, Row
  <2>2. /\ rows' = [rows EXCEPT ![j] = NoRow] /\ saved' = saved
        /\ older' = [k \in Jobs |-> IF k = j THEN {} ELSE older[k] \ {j}]
    BY <1>2 DEF Cleanup, jobVars
  <2>3. /\ rows' \in [Jobs -> Row] /\ rows'[j] = NoRow
        /\ \A k \in Jobs : k # j => rows'[k] = rows[k]
    BY <1>r, <2>1, <2>2
  <2>4. Kept' = Kept \ {j}
    BY <2>3 DEF Kept, NoRow
  <2>5. Ordered'
    BY <2>2, <2>4, CleanupOrders DEF TypeInv
  <2> QED
    BY <2>2, <2>3, <2>4, <2>5 DEF TypeInv, TableTyped, NoRow
<1>3. CASE Schedule \/ Mark \/ \E j \in Jobs : Lapse(j)
  <2>1. UNCHANGED <<older, saved>>
    BY <1>3 DEF Schedule, Mark, Lapse, jobVars
  <2>2. ASSUME NEW j \in Jobs
        PROVE  /\ rows'[j] \in Row
               /\ rows'[j].state = "none" <=> rows[j].state = "none"
               /\ rows'[j].score = rows[j].score
    <3>1. rows[j] \in Row
      BY <1>r
    <3>2. \/ rows'[j] = rows[j]
          \/ rows'[j] = [rows[j] EXCEPT !.lease = "held"]
          \/ rows'[j] = [rows[j] EXCEPT !.lease = "old"]
          \/ /\ rows[j].state = "waiting"
             /\ rows'[j] = [rows[j] EXCEPT !.state = "done"]
      BY <1>3, <1>r DEF Schedule, Mark, Lapse
    <3> QED
      BY <3>1, <3>2 DEF Row
  <2>4. rows' \in [Jobs -> Row]
    BY <1>3, <2>2, <1>r DEF Schedule, Mark, Lapse
  <2>3. \A j \in Jobs : rows[j].state # "none" => rows'[j].score > 0
    BY <2>2 DEF TypeInv, TableTyped
  <2> QED
    BY <2>1, <2>2, <2>3, <2>4, RowsKept
<1>4. CASE Rank
  <2>1. UNCHANGED <<older, saved>> /\ ac.pc = "rank"
    BY <1>4 DEF Rank, jobVars
  <2>2. PICK S \in Selections(ac.jobs, ac.loaded) :
          rows' = [j \in Jobs |->
                     IF j \in S THEN Scored(rows[j], ac.loaded[j]) ELSE rows[j]]
    BY <1>4 DEF Rank
  <2>3. S \subseteq ac.jobs
    BY SelectionParts
  <2>4. \A j \in S : ac.loaded[j] \in 0 .. MaxScore /\ ac.loaded[j] > 0
    BY <2>1, <2>3 DEF TypeInv, BatchesTyped
  <2>5. ASSUME NEW j \in Jobs
        PROVE  /\ rows'[j] \in Row
               /\ rows'[j].state = "none" <=> rows[j].state = "none"
               /\ rows[j].state # "none" => rows'[j].score > 0
    <3>1. rows[j] \in Row
      BY <1>r
    <3>2. rows[j].state # "none" => rows[j].score > 0
      BY DEF TypeInv, TableTyped
    <3>3. CASE j \in S
      <4>1. rows'[j] = Scored(rows[j], ac.loaded[j])
        BY <2>2, <3>3
      <4> QED
        BY <2>4, <3>1, <3>3, <4>1 DEF Scored, Row
    <3>4. CASE j \notin S
      BY <2>2, <3>1, <3>2, <3>4
    <3> QED
      BY <3>3, <3>4
  <2>6. rows' \in [Jobs -> Row]
    BY <2>2, <2>5
  <2> QED
    BY <2>1, <2>5, <2>6, RowsKept
<1>5. CASE UNCHANGED rowVars
  <2>1. Kept' = Kept
    BY <1>5 DEF Kept, rowVars
  <2>2. Ordered'
    BY <1>5, <2>1 DEF TypeInv, TableTyped, Ordered, rowVars
  <2> QED
    BY <1>5, <2>1, <2>2, JobsStep DEF TypeInv, TableTyped, rowVars
<1> QED
  BY <1>1, <1>2, <1>3, <1>4, <1>5
     DEF Next, JobStep, BatchStep, Offer, JobPop, JobEmbed, JobFilter, JobFind,
         JobRerank, JobFeedback, JobAck, JobFails, EnqueueBatch, EnqueueFails,
         Pop, Load, Announce, Ack, BatchFails, BatchCrash, Reclaim, vars

---------------------------------------------------------------------------
(* The batches.                                                            *)

AcType == [pc : Stages, jobs : SUBSET Jobs, loaded : [Jobs -> 0 .. MaxScore],
           sel : SUBSET Jobs]

LEMMA UnreadType == Unread \in [Jobs -> 0 .. MaxScore]
BY MatchAssumption DEF Unread

\* The same batches, while rows come but do not go.
LEMMA BatchesFrame ==
    ASSUME BatchesTyped, UNCHANGED acVars, Kept \subseteq Kept'
    PROVE  BatchesTyped'
<1>1. acQ' \in Seq(Batches') /\ stuck' \in Seq(Batches')
  BY BatchesGrow DEF acVars
<1> QED
  BY <1>1 DEF BatchesTyped, acVars

\* A row that is cleaned up is in no batch.
LEMMA CleanupBatches ==
    ASSUME BatchesTyped, NEW j \in Jobs, Cleanup(j), Kept' = Kept \ {j}
    PROVE  BatchesTyped'
<1>1. UNCHANGED acVars /\ ac.pc = "idle" /\ ~InBatch(j)
  BY DEF Cleanup
<1>2. acQ \in Seq(Batches) /\ stuck \in Seq(Batches)
  BY DEF BatchesTyped
<1>3. ASSUME NEW b \in Batches, j \notin b
      PROVE  b \in Batches'
  BY <1>3 DEF Batches
<1>4. /\ \A i \in DOMAIN acQ : acQ[i] \in Batches /\ j \notin acQ[i]
      /\ \A i \in DOMAIN stuck : stuck[i] \in Batches /\ j \notin stuck[i]
  BY <1>1, <1>2 DEF InBatch
<1>5. /\ \A i \in DOMAIN acQ : acQ[i] \in Batches'
      /\ \A i \in DOMAIN stuck : stuck[i] \in Batches'
  BY <1>3, <1>4
<1>6. acQ' \in Seq(Batches') /\ stuck' \in Seq(Batches')
  BY <1>1, <1>2, <1>5, QueueGrows DEF acVars
<1>7. ac.jobs = {} /\ ac' = ac
  BY <1>1 DEF BatchesTyped, acVars
<1> QED
  BY <1>1, <1>6, <1>7 DEF BatchesTyped

LEMMA OldestParts ==
    ASSUME TableTyped
    PROVE  Oldest \subseteq Kept
BY DEF Oldest, Claimable, Kept

\* The scheduler claims a batch, none of it or at least MinJobs.
LEMMA ScheduleBatches ==
    ASSUME BatchesTyped, TableTyped, Schedule, Kept' = Kept
    PROVE  BatchesTyped'
<1>1. Oldest # {}
  BY FS_EmptySet, MatchAssumption DEF Schedule
<1>2. Oldest \subseteq Kept /\ Kept \subseteq Jobs
  BY OldestParts DEF Kept
<1>3. /\ ac' = [IdleBatch EXCEPT !.pc = "claimed", !.jobs = Oldest]
      /\ UNCHANGED <<acQ, stuck>>
  BY DEF Schedule
<1>4. /\ ac' \in AcType /\ ac'.pc = "claimed" /\ ac'.jobs = Oldest
      /\ ac'.sel = {}
  BY <1>2, <1>3, UnreadType DEF IdleBatch, AcType, Stages
<1>5. acQ' \in Seq(Batches') /\ stuck' \in Seq(Batches')
  BY <1>3, BatchesGrow
<1> QED
  BY <1>1, <1>2, <1>4, <1>5 DEF BatchesTyped, AcType

\* Steps after which no batch is in hand.
LEMMA DropBatch ==
    ASSUME BatchesTyped, ac' = IdleBatch, Kept \subseteq Kept',
           acQ' \in Seq(Batches'), stuck' \in Seq(Batches')
    PROVE  BatchesTyped'
BY IdleTypes DEF BatchesTyped

\* The steps that take a batch, work on it or let it go.
LEMMA WorkBatches ==
    ASSUME TypeInv, Kept' = Kept,
           \/ EnqueueBatch \/ EnqueueFails \/ BatchStep \/ BatchFails
           \/ BatchCrash \/ Reclaim
    PROVE  BatchesTyped'
<1>q. /\ acQ \in Seq(Batches) /\ stuck \in Seq(Batches)
      /\ Batches' = Batches
  BY DEF TypeInv, BatchesTyped, Batches
<1>b. ac.pc # "idle" => ac.jobs \in Batches
  BY BatchInHand DEF TypeInv
<1>t. ac \in AcType /\ ac.jobs \subseteq Kept /\ ac.sel \subseteq ac.jobs
  BY DEF TypeInv, BatchesTyped, AcType
<1>1. CASE EnqueueBatch \/ EnqueueFails \/ Ack \/ BatchFails \/ BatchCrash
  <2>1. /\ ac.pc # "idle" /\ ac' = IdleBatch
        /\ \/ acQ' = Append(acQ, ac.jobs) \/ acQ' = acQ
           \/ acQ' = <<ac.jobs>> \o acQ
        /\ stuck' = Append(stuck, ac.jobs) \/ stuck' = stuck
    BY <1>1 DEF EnqueueBatch, EnqueueFails, Ack, BatchFails, BatchCrash
  <2>2. /\ Append(acQ, ac.jobs) \in Seq(Batches)
        /\ <<ac.jobs>> \o acQ \in Seq(Batches)
        /\ Append(stuck, ac.jobs) \in Seq(Batches)
    BY <2>1, <1>b, <1>q, QueueSteps
  <2>3. acQ' \in Seq(Batches') /\ stuck' \in Seq(Batches')
    BY <2>1, <2>2, <1>q
  <2> QED
    BY <2>1, <2>3, DropBatch DEF TypeInv
<1>2. CASE Pop
  <2>1. /\ acQ # <<>> /\ acQ' = Tail(acQ) /\ stuck' = stuck
        /\ ac' = [IdleBatch EXCEPT !.pc = "load", !.jobs = Head(acQ)]
    BY <1>2 DEF Pop
  <2>2. Head(acQ) \in Batches /\ Tail(acQ) \in Seq(Batches)
    BY <2>1, <1>q, QueueTail
  <2>3. Head(acQ) \subseteq Kept /\ Head(acQ) # {} /\ Kept \subseteq Jobs
    BY <2>2 DEF Batches, Kept
  <2>4. /\ ac' \in AcType /\ ac'.pc = "load" /\ ac'.jobs = Head(acQ)
        /\ ac'.sel = {}
    BY <2>1, <2>3, UnreadType DEF IdleBatch, AcType, Stages
  <2> QED
    BY <2>1, <2>2, <2>3, <2>4, <1>q DEF BatchesTyped, AcType
<1>3. CASE Reclaim
  <2>1. /\ stuck # <<>> /\ stuck' = Tail(stuck) /\ ac' = ac
        /\ acQ' = <<Head(stuck)>> \o acQ
    BY <1>3 DEF Reclaim
  <2>2. Head(stuck) \in Batches /\ Tail(stuck) \in Seq(Batches)
    BY <2>1, <1>q, QueueTail
  <2>3. <<Head(stuck)>> \o acQ \in Seq(Batches)
    BY <2>2, <1>q, QueueSteps
  <2> QED
    BY <2>1, <2>2, <2>3, <1>q DEF TypeInv, BatchesTyped
<1>4. CASE Load
  <2>1. /\ ac.pc = "load" /\ UNCHANGED <<acQ, stuck>>
        /\ ac' = [ac EXCEPT !.pc = "rank",
                     !.loaded = [j \in Jobs |->
                                    IF j \in ac.jobs THEN rows[j].score ELSE 0]]
    BY <1>4 DEF Load
  <2> DEFINE read == [j \in Jobs |-> IF j \in ac.jobs THEN rows[j].score ELSE 0]
  <2>2. read \in [Jobs -> 0 .. MaxScore]
    BY MatchAssumption DEF TypeInv, TableTyped, Row
  <2>3. \A j \in ac.jobs : read[j] > 0
    BY <1>t DEF TypeInv, TableTyped, Kept
  <2> HIDE DEF read
  <2>4. /\ ac' \in AcType /\ ac'.pc = "rank" /\ ac'.jobs = ac.jobs
        /\ ac'.sel = ac.sel /\ ac'.loaded = read
    BY <2>1, <2>2, <1>t DEF AcType, Stages, read
  <2>5. ac.jobs # {}
    BY <2>1 DEF TypeInv, BatchesTyped
  <2> QED
    BY <2>1, <2>3, <2>4, <2>5, <1>q, <1>t DEF BatchesTyped, AcType
<1>5. CASE Rank
  <2>0. PICK S \in Selections(ac.jobs, ac.loaded) :
          \E T \in Firsts(S) :
             ac' = [ac EXCEPT !.pc = "announce", !.loaded = Unread, !.sel = T]
    BY <1>5 DEF Rank
  <2>1. PICK T \in Firsts(S) :
          ac' = [ac EXCEPT !.pc = "announce", !.loaded = Unread, !.sel = T]
    BY <2>0
  <2>2. T \subseteq ac.jobs
    BY SelectionParts DEF Firsts
  <2>3. /\ ac' \in AcType /\ ac'.pc = "announce" /\ ac'.jobs = ac.jobs
        /\ ac'.sel = T
    BY <2>1, <2>2, <1>t, UnreadType DEF AcType, Stages
  <2>4. ac.jobs # {} /\ UNCHANGED <<acQ, stuck>>
    BY <1>5 DEF Rank, TypeInv, BatchesTyped
  <2> QED
    BY <2>2, <2>3, <2>4, <1>q, <1>t DEF BatchesTyped, AcType
<1>6. CASE Announce \/ Mark
  <2>1. /\ ac.pc \in {"announce", "mark"} /\ UNCHANGED <<acQ, stuck>>
        /\ \/ ac' = [ac EXCEPT !.pc = "mark", !.sel = {}]
           \/ ac' = [ac EXCEPT !.pc = "ack"]
    BY <1>6 DEF Announce, Mark
  <2>2. /\ ac' \in AcType /\ ac'.pc \in {"mark", "ack"} /\ ac'.jobs = ac.jobs
        /\ ac'.sel \subseteq ac.sel
    BY <2>1, <1>t DEF AcType, Stages
  <2>3. ac.jobs # {}
    BY <2>1 DEF TypeInv, BatchesTyped
  <2> QED
    BY <2>1, <2>2, <2>3, <1>q, <1>t DEF BatchesTyped, AcType
<1> QED
  BY <1>1, <1>2, <1>3, <1>4, <1>5, <1>6 DEF BatchStep

LEMMA BatchesStep ==
    ASSUME TypeInv, [Next]_vars
    PROVE  BatchesTyped'
<1>1. ASSUME NEW j \in Jobs, Cleanup(j)
      PROVE  BatchesTyped'
  <2>1. rows' = [rows EXCEPT ![j] = NoRow] /\ rows \in [Jobs -> Row]
    BY <1>1 DEF Cleanup, TypeInv, TableTyped
  <2>2. Kept' = Kept \ {j}
    BY <2>1 DEF Kept, NoRow
  <2> QED
    BY <1>1, <2>2, CleanupBatches DEF TypeInv
<1>2. ASSUME \A j \in Jobs : ~Cleanup(j)
      PROVE  BatchesTyped'
  <2>1. Kept \subseteq Kept'
    BY <1>2, TableStep
  <2>2. CASE UNCHANGED acVars
    BY <2>1, <2>2, BatchesFrame DEF TypeInv
  <2>3. CASE Schedule
    <3>1. rows' = [j \in Jobs |-> IF j \in Oldest THEN [rows[j] EXCEPT !.lease = "held"]
                                  ELSE rows[j]]
      BY <2>3 DEF Schedule
    <3>2. Kept' = Kept
      BY <3>1 DEF Kept, TypeInv, TableTyped, Row
    <3> QED
      BY <2>3, <3>2, ScheduleBatches DEF TypeInv
  <2>4. CASE \/ EnqueueBatch \/ EnqueueFails \/ BatchStep \/ BatchFails
             \/ BatchCrash \/ Reclaim
    <3>1. Kept' = Kept
      <4>1. CASE Mark
        BY <4>1 DEF Mark, Kept, TypeInv, TableTyped, Row
      <4>2. CASE Rank
        BY <4>2 DEF Rank, Scored, Kept, TypeInv, TableTyped, Row
      <4>3. CASE ~Mark /\ ~Rank
        BY <2>4, <4>3 DEF BatchStep, EnqueueBatch, EnqueueFails, Pop, Load,
           Announce, Ack, BatchFails, BatchCrash, Reclaim, rowVars, Kept
      <4> QED
        BY <4>1, <4>2, <4>3
    <3> QED
      BY <2>4, <3>1, WorkBatches
  <2> QED
    BY <1>2, <2>2, <2>3, <2>4 DEF Next, JobStep, Offer, Lapse, JobPop, JobEmbed,
       JobFilter, JobFind, JobRerank, JobFeedback, JobUpsert, JobAck, JobFails, vars
<1> QED
  BY <1>1, <1>2

---------------------------------------------------------------------------
(* The types.                                                              *)

LEMMA ExcuseType ==
    ASSUME GhostsTyped, NEW S, Excuse(S) \/ Publish(S)
    PROVE  credit' \in [Jobs -> Int]
BY DEF GhostsTyped, Excuse, Publish

LEMMA GhostsStep ==
    ASSUME TypeInv, [Next]_vars
    PROVE  GhostsTyped'
<1>1. CASE JobUpsert
  <2>1. credit' \in [Jobs -> Int]
    BY <1>1, ExcuseType DEF JobUpsert, TypeInv
  <2>2. jc.job \in Jobs
    BY DEF TypeInv, JobsTyped
  <2> QED
    BY <1>1, <2>1, <2>2 DEF JobUpsert, TypeInv, GhostsTyped
<1>2. CASE (\E j \in Jobs : Lapse(j)) \/ BatchFails \/ BatchCrash
  <2>1. credit' \in [Jobs -> Int]
    BY <1>2, ExcuseType DEF Lapse, BatchFails, BatchCrash, TypeInv
  <2> QED
    BY <1>2, <2>1 DEF Lapse, BatchFails, BatchCrash, TypeInv, GhostsTyped
<1>3. CASE Announce
  <2>1. credit' \in [Jobs -> Int]
    BY <1>3, ExcuseType DEF Announce, TypeInv
  <2> QED
    BY <1>3, <2>1 DEF Announce, TypeInv, GhostsTyped, BatchesTyped
<1>4. CASE Load \/ \E j \in Jobs : Cleanup(j)
  BY <1>4 DEF Load, Cleanup, TypeInv, GhostsTyped
<1>5. CASE UNCHANGED ghosts
  BY <1>5 DEF ghosts, TypeInv, GhostsTyped
<1> QED
  BY <1>1, <1>2, <1>3, <1>4, <1>5
     DEF Next, JobStep, BatchStep, Offer, JobPop, JobEmbed, JobFilter, JobFind,
         JobRerank, JobFeedback, JobAck, JobFails, Schedule, EnqueueBatch,
         EnqueueFails, Pop, Rank, Mark, Ack, Reclaim, vars

LEMMA TypeStep ==
    ASSUME TypeInv, [Next]_vars
    PROVE  TypeInv'
BY JobsStep, TableStep, BatchesStep, GhostsStep DEF TypeInv

LEMMA TypeInit ==
    ASSUME Init
    PROVE  TypeInv
<1>1. JobsTyped
  BY IdleTypes DEF Init, JobsTyped
<1>2. Kept = {}
  BY DEF Init, Kept, NoRow
<1>3. TableTyped
  <2>1. NoRow \in Row
    BY MatchAssumption DEF NoRow, Row
  <2>2. Ordered
    BY <1>2 DEF Init, Ordered
  <2> QED
    BY <2>1, <2>2 DEF Init, TableTyped, NoRow
<1>4. BatchesTyped
  BY IdleTypes DEF Init, BatchesTyped
<1>5. GhostsTyped
  BY DEF Init, GhostsTyped
<1> QED
  BY <1>1, <1>3, <1>4, <1>5 DEF TypeInv

LEMMA TypeImplies ==
    ASSUME TypeInv
    PROVE  TypeOK
<1>1. \A b \in Batches : b \in (SUBSET Jobs) \ {{}}
  BY DEF Batches, Kept
<1>2. Batches \subseteq (SUBSET Jobs) \ {{}}
  BY <1>1
<1>3. acQ \in Seq((SUBSET Jobs) \ {{}}) /\ stuck \in Seq((SUBSET Jobs) \ {{}})
  BY <1>2, SeqMonotonic DEF TypeInv, BatchesTyped
<1>4. \A j \in ac.jobs : rows[j].state # "none"
  BY DEF TypeInv, BatchesTyped, Kept
<1> QED
  BY <1>3, <1>4 DEF TypeInv, TypeOK, JobsTyped, JobStages, TableTyped, Ordered,
     BatchesTyped, Stages, GhostsTyped

\* The variables keep their types; the rows stay strictly ordered by the time of
\* their last match, one row a job; and every job of a batch, queued, in hand or
\* left behind by a dead consumer, has its row, its embedding and a score.
THEOREM TypeCorrect == Spec => []TypeOK
<1>1. Spec => []TypeInv
  BY TypeInit, TypeStep, PTL DEF Spec
<1> QED
  BY <1>1, TypeImplies, PTL

---------------------------------------------------------------------------
(* A row is marked processed only after its match was weighed.             *)

\* Between a batch's announcement and its mark, every row that the mark is going
\* to find waiting was weighed or came in between.
MarkInv ==
    ac.pc = "mark" => \A j \in ac.jobs :
                          rows[j].state = "waiting" => j \in seen \cup raced

WeighedInv == ProcessedWasRanked /\ MarkInv

\* A step that makes no row waiting or done, and forgets nothing of those that are.
LEMMA WeighedFrame ==
    ASSUME TypeInv, WeighedInv,
           \A j \in Jobs : /\ rows'[j].state # "none" => rows'[j].state = rows[j].state
                           /\ rows'[j].state # "none" => UNCHANGED <<j \in seen, j \in raced>>,
           ac' = ac \/ ac'.pc # "mark"
    PROVE  WeighedInv'
<1>1. ac.jobs \subseteq Jobs
  BY DEF TypeInv, BatchesTyped
<1> QED
  BY <1>1 DEF WeighedInv, ProcessedWasRanked, MarkInv

LEMMA WeighedStep ==
    ASSUME TypeInv, TypeInv', WeighedInv, [Next]_vars
    PROVE  WeighedInv'
<1>r. rows \in [Jobs -> Row] /\ ac.jobs \subseteq Jobs /\ ac \in AcType
  BY DEF TypeInv, TableTyped, BatchesTyped, AcType
<1>1. CASE JobUpsert
  <2>1. PICK j \in Jobs :
          /\ rows' = [rows EXCEPT ![j] = Upserted(@, jc.score)]
          /\ seen' = seen \ {j}
          /\ raced' = IF UnderWork(j) THEN raced \cup {j} ELSE raced \ {j}
          /\ ac' = ac
    BY <1>1 DEF JobUpsert, TypeInv, JobsTyped, acVars
  <2>2. rows'[j].state = "waiting"
    BY <2>1, <1>r DEF Upserted
  <2>3. \A k \in Jobs : k # j => rows'[k] = rows[k] /\ (k \in raced => k \in raced')
                                 /\ (k \in seen => k \in seen')
    BY <2>1, <1>r
  <2>4. ProcessedWasRanked'
    BY <2>2, <2>3 DEF WeighedInv, ProcessedWasRanked
  <2>5. MarkInv'
    <3>1. ac.pc = "mark" /\ j \in ac.jobs => j \in raced'
      BY <2>1 DEF UnderWork
    <3> QED
      BY <2>1, <2>3, <3>1, <1>r DEF WeighedInv, MarkInv
  <2> QED
    BY <2>4, <2>5 DEF WeighedInv
<1>2. ASSUME NEW j \in Jobs, Cleanup(j)
      PROVE  WeighedInv'
  <2>1. /\ rows'[j].state = "none" /\ ac' = ac
        /\ \A k \in Jobs : k # j => rows'[k] = rows[k]
        /\ seen' = seen \ {j} /\ raced' = raced \ {j}
    BY <1>2, <1>r DEF Cleanup, NoRow, acVars
  <2>2. /\ ProcessedWasRanked'
        /\ MarkInv'
    BY <2>1, <1>r DEF WeighedInv, ProcessedWasRanked, MarkInv
  <2> QED
    BY <2>2 DEF WeighedInv
<1>3. CASE Load
  <2>1. /\ UNCHANGED <<rows, seen>> /\ ac.pc = "load"
        /\ ac' = [ac EXCEPT !.pc = "rank",
                     !.loaded = [j \in Jobs |->
                                    IF j \in ac.jobs THEN rows[j].score ELSE 0]]
        /\ raced' = {j \in raced : j \in ac.jobs => rows[j].state # "waiting"}
    BY <1>3 DEF Load, rowVars
  <2>2. ac'.pc = "rank"
    BY <2>1, <1>r DEF AcType
  <2>3. ProcessedWasRanked'
    BY <2>1 DEF WeighedInv, ProcessedWasRanked
  <2> QED
    BY <2>2, <2>3 DEF WeighedInv, MarkInv
<1>4. CASE Announce
  <2>1. /\ UNCHANGED <<rows, raced>> /\ seen' = seen \cup (ac.jobs \ raced)
        /\ ac' = [ac EXCEPT !.pc = "mark", !.sel = {}]
    BY <1>4 DEF Announce, rowVars
  <2>2. ac'.jobs = ac.jobs
    BY <2>1, <1>r DEF AcType
  <2> QED
    BY <2>1, <2>2 DEF WeighedInv, ProcessedWasRanked, MarkInv
<1>5. CASE Mark
  <2>1. /\ UNCHANGED <<seen, raced>> /\ ac.pc = "mark"
        /\ ac' = [ac EXCEPT !.pc = "ack"]
        /\ rows' = [j \in Jobs |->
                      IF j \in ac.jobs /\ rows[j].state = "waiting"
                      THEN [rows[j] EXCEPT !.state = "done"] ELSE rows[j]]
    BY <1>5 DEF Mark, ghosts
  <2>2. ac'.pc = "ack"
    BY <2>1, <1>r DEF AcType
  <2>3. ProcessedWasRanked'
    BY <2>1 DEF WeighedInv, ProcessedWasRanked, MarkInv
  <2> QED
    BY <2>2, <2>3 DEF WeighedInv, MarkInv
<1>6. CASE Rank
  <2>1. /\ UNCHANGED <<seen, raced>>
        /\ \E S \in Selections(ac.jobs, ac.loaded) :
              /\ \E T \in Firsts(S) :
                    ac' = [ac EXCEPT !.pc = "announce", !.loaded = Unread, !.sel = T]
              /\ rows' = [j \in Jobs |->
                            IF j \in S THEN Scored(rows[j], ac.loaded[j]) ELSE rows[j]]
    BY <1>6 DEF Rank, ghosts
  <2>2. ac'.pc = "announce"
    BY <2>1, <1>r DEF AcType
  <2>3. \A j \in Jobs : rows'[j].state = rows[j].state
    BY <2>1, <1>r DEF Scored, Row
  <2> QED
    BY <2>1, <2>2, <2>3, WeighedFrame
<1>7. CASE Schedule \/ \E j \in Jobs : Lapse(j)
  <2>1. \A j \in Jobs : rows'[j].state = rows[j].state
    <3>1. CASE Schedule
      <4>1. rows' = [j \in Jobs |-> IF j \in Oldest THEN [rows[j] EXCEPT !.lease = "held"]
                                    ELSE rows[j]]
        BY <3>1 DEF Schedule
      <4> QED
        BY <4>1, <1>r DEF Row
    <3>2. ASSUME NEW k \in Jobs, Lapse(k)
          PROVE  \A j \in Jobs : rows'[j].state = rows[j].state
      <4>1. rows' = [rows EXCEPT ![k] = [@ EXCEPT !.lease = "old"]]
        BY <3>2 DEF Lapse
      <4> QED
        BY <4>1, <1>r DEF Row
    <3> QED
      BY <1>7, <3>1, <3>2
  <2>2. UNCHANGED <<seen, raced>>
    BY <1>7 DEF Schedule, Lapse, ghosts
  <2>3. ac' = ac \/ ac'.pc = "claimed"
    BY <1>7 DEF Schedule, Lapse, acVars, IdleBatch
  <2> QED
    BY <2>1, <2>2, <2>3, WeighedFrame
<1>8. CASE UNCHANGED <<rows, seen, raced>> /\ (ac' = ac \/ ac'.pc # "mark")
  BY <1>8, WeighedFrame
<1> QED
  <2>1. CASE \/ EnqueueBatch \/ EnqueueFails \/ Pop \/ Ack \/ BatchFails
             \/ BatchCrash \/ Reclaim
    <3>1. UNCHANGED <<rows, seen, raced>>
      BY <2>1 DEF EnqueueBatch, EnqueueFails, Pop, Ack, BatchFails, BatchCrash,
         Reclaim, rowVars, ghosts
    <3>2. ac' = ac \/ ac'.pc # "mark"
      BY <2>1, IdleTypes DEF EnqueueBatch, EnqueueFails, Pop, Ack, BatchFails,
         BatchCrash, Reclaim, IdleBatch
    <3> QED
      BY <3>1, <3>2, <1>8
  <2>2. CASE \/ \E j \in Jobs : Offer(j) \/ JobPop(j)
             \/ JobEmbed \/ JobFilter \/ JobFind \/ JobRerank \/ JobFeedback
             \/ JobAck \/ JobFails \/ UNCHANGED vars
    <3>1. UNCHANGED <<rows, seen, raced, ac>>
      BY <2>2 DEF Offer, JobPop, JobEmbed, JobFilter, JobFind, JobRerank,
         JobFeedback, JobAck, JobFails, vars, rowVars, acVars, ghosts
    <3> QED
      BY <3>1, <1>8
  <2> QED
    BY <2>1, <2>2, <1>1, <1>2, <1>3, <1>4, <1>5, <1>6, <1>7
       DEF Next, JobStep, BatchStep

\* However the job consumer's upserts fall between the statements of a batch, and
\* whatever fails, dies or is taken back: a row is processed only after a batch that
\* had read its latest match published its choice, unless that match came between
\* that batch's read and its mark.
THEOREM ProcessedAfterRanking == Spec => []ProcessedWasRanked
<1>1. ASSUME Init
      PROVE  WeighedInv
  BY <1>1 DEF Init, WeighedInv, ProcessedWasRanked, MarkInv, NoRow, IdleBatch
<1>2. WeighedInv => ProcessedWasRanked
  BY DEF WeighedInv
<1>3. TypeInv /\ WeighedInv /\ [Next]_vars => TypeInv' /\ WeighedInv'
  BY TypeStep, WeighedStep
<1> QED
  BY <1>1, <1>2, <1>3, TypeInit, PTL DEF Spec

---------------------------------------------------------------------------
(* A job is announced once per reason.                                     *)

\* The jobs of a queue's batches, and how many of its batches hold a job.
Holds(q, j) == \E i \in DOMAIN q : j \in q[i]
Copies(q, j) == Cardinality({i \in DOMAIN q : j \in q[i]})
One(b, j) == IF j \in b THEN 1 ELSE 0

LEMMA CopiesType ==
    ASSUME NEW S, NEW q \in Seq(S), NEW j
    PROVE  /\ IsFiniteSet({i \in DOMAIN q : j \in q[i]})
           /\ Copies(q, j) \in Nat
<1>1. IsFiniteSet(1 .. Len(q)) /\ DOMAIN q = 1 .. Len(q)
  BY FS_Interval
<1>2. IsFiniteSet({i \in DOMAIN q : j \in q[i]})
  BY <1>1, FS_Subset
<1> QED
  BY <1>2, FS_CardinalityType DEF Copies

\* A batch more at the end: its jobs have a copy more.
LEMMA CopiesAppend ==
    ASSUME NEW S, NEW q \in Seq(S), NEW b \in S, NEW j
    PROVE  /\ Copies(Append(q, b), j) = Copies(q, j) + One(b, j)
           /\ Holds(Append(q, b), j) <=> Holds(q, j) \/ j \in b
<1> DEFINE n == Len(q) + 1
           A == {i \in DOMAIN q : j \in q[i]}
           B == {i \in DOMAIN Append(q, b) : j \in Append(q, b)[i]}
<1>1. /\ DOMAIN q = 1 .. Len(q) /\ Len(q) \in Nat
      /\ DOMAIN Append(q, b) = 1 .. n
      /\ Append(q, b)[n] = b
      /\ \A i \in DOMAIN q : Append(q, b)[i] = q[i]
  OBVIOUS
<1>2. IsFiniteSet(A) /\ Cardinality(A) \in Nat
  BY CopiesType DEF Copies
<1>3. n \notin A /\ n \in DOMAIN Append(q, b)
  BY <1>1
<1>4. \A i : i \in DOMAIN Append(q, b) <=> i \in DOMAIN q \/ i = n
  BY <1>1
<1>5. CASE j \in b
  <2>1. B = A \cup {n}
    BY <1>1, <1>4, <1>5
  <2>2. Cardinality(B) = Cardinality(A) + 1
    BY <2>1, <1>2, <1>3, FS_AddElement
  <2> QED
    BY <2>2, <1>1, <1>3, <1>5 DEF Copies, One, Holds
<1>6. CASE j \notin b
  <2>1. B = A
    BY <1>1, <1>4, <1>6
  <2>2. Cardinality(B) = Cardinality(A)
    BY <2>1
  <2>3. Holds(Append(q, b), j) <=> Holds(q, j)
    BY <1>1, <1>4, <1>6 DEF Holds
  <2>4. Copies(Append(q, b), j) = Copies(q, j) /\ Copies(q, j) \in Nat
    BY <2>2, <1>2 DEF Copies
  <2>5. One(b, j) = 0
    BY <1>6 DEF One
  <2> QED
    BY <2>3, <2>4, <2>5, <1>6
<1> QED
  BY <1>5, <1>6

\* The first batch gone: its jobs have a copy less.
LEMMA CopiesTail ==
    ASSUME NEW S, NEW q \in Seq(S), q # <<>>, NEW j
    PROVE  /\ Copies(q, j) = Copies(Tail(q), j) + One(Head(q), j)
           /\ Holds(q, j) <=> Holds(Tail(q), j) \/ j \in Head(q)
<1> DEFINE t == Tail(q)
           A == {i \in DOMAIN q : j \in q[i]}
           B == {i \in DOMAIN t : j \in t[i]}
           f == [i \in B |-> i + 1]
<1>1. /\ Len(q) \in Nat /\ Len(q) > 0 /\ DOMAIN q = 1 .. Len(q)
      /\ t \in Seq(S) /\ DOMAIN t = 1 .. (Len(q) - 1)
      /\ Head(q) = q[1]
      /\ \A i \in DOMAIN t : t[i] = q[i + 1]
  OBVIOUS
<1>2. IsFiniteSet(A) /\ Cardinality(A) \in Nat
  BY CopiesType DEF Copies
<1>3. IsFiniteSet(B) /\ Cardinality(B) \in Nat
  BY <1>1, CopiesType DEF Copies
<1>4. Cardinality(A \ {1}) = Cardinality(B)
  <2>1. \A i \in B : i \in Nat /\ i + 1 \in A \ {1}
    BY <1>1
  <2>2. \A i \in A \ {1} : i - 1 \in B /\ i = (i - 1) + 1
    BY <1>1
  <2>3. f \in [B -> A \ {1}]
    BY <2>1
  <2>4. f \in Injection(B, A \ {1})
    <3>1. \A a, c \in B : f[a] = f[c] => a = c
      BY <2>1
    <3>2. DOMAIN f = B
      OBVIOUS
    <3> HIDE DEF f
    <3> QED
      BY <2>3, <3>1, <3>2 DEF Injection, IsInjective
  <2>5. f \in Surjection(B, A \ {1})
    BY <2>2, <2>3 DEF Surjection
  <2>6. ExistsBijection(B, A \ {1})
    BY <2>4, <2>5 DEF ExistsBijection, Bijection
  <2> QED
    BY <2>6, <1>3, FS_Bijection
<1>5. 1 \in A <=> j \in Head(q)
  BY <1>1
<1>6. Cardinality(A) = Cardinality(A \ {1}) + One(Head(q), j)
  <2> HIDE DEF A
  <2>1. Cardinality(A \ {1}) = IF 1 \in A THEN Cardinality(A) - 1 ELSE Cardinality(A)
    BY <1>2, FS_RemoveElement
  <2> QED
    BY <2>1, <1>2, <1>5 DEF One
<1>7. Holds(q, j) <=> Holds(t, j) \/ j \in Head(q)
  <2>1. \A i \in DOMAIN t : i + 1 \in DOMAIN q
    BY <1>1
  <2>2. \A i \in DOMAIN q : i = 1 \/ (i - 1 \in DOMAIN t /\ t[i - 1] = q[i])
    BY <1>1
  <2>3. 1 \in DOMAIN q
    BY <1>1
  <2> QED
    BY <1>1, <2>1, <2>2, <2>3 DEF Holds
<1> QED
  BY <1>4, <1>6, <1>7 DEF Copies

\* A batch more in front.
LEMMA CopiesFront ==
    ASSUME NEW S, NEW q \in Seq(S), NEW b \in S, NEW j
    PROVE  /\ Copies(<<b>> \o q, j) = Copies(q, j) + One(b, j)
           /\ Holds(<<b>> \o q, j) <=> Holds(q, j) \/ j \in b
<1> DEFINE r == <<b>> \o q
<1>1. r \in Seq(S) /\ r # <<>> /\ Head(r) = b
  OBVIOUS
<1>t. Tail(r) = q
  <2>1. /\ Len(q) \in Nat /\ Len(r) = Len(q) + 1
        /\ \A i \in 1 .. Len(q) : r[i + 1] = q[i]
    OBVIOUS
  <2>2. /\ Tail(r) \in Seq(S) /\ Len(Tail(r)) = Len(q)
        /\ \A i \in 1 .. Len(q) : Tail(r)[i] = r[i + 1]
    BY <1>1, <2>1, HeadTailProperties
  <2> QED
    BY <2>1, <2>2, SeqEqual
<1> HIDE DEF r
<1>2. /\ Copies(r, j) = Copies(q, j) + One(b, j)
      /\ Holds(r, j) <=> Holds(q, j) \/ j \in b
  BY <1>1, <1>t, CopiesTail
<1> QED
  BY <1>2 DEF r


\* A batch that may still announce the job.
Hand(j) == IF ac.pc \in {"claimed", "load", "rank", "announce"} THEN One(ac.jobs, j) ELSE 0

\* A row the scheduler may queue without a new reason: free, or leased to nobody.
Loose(j) == rows[j].state = "waiting" /\ (rows[j].lease # "held" \/ ~InBatch(j))
Owed(j) == IF Loose(j) THEN 1 ELSE 0

\* A reason for every batch that may announce the job, and for the row's next one.
Due(j) == Copies(acQ, j) + Copies(stuck, j) + Hand(j) + Owed(j)
CreditInv == \A j \in Jobs : credit[j] >= Due(j)

\* A batch that was marked leaves no row leased behind.
AckInv ==
    ac.pc = "ack" =>
        \A j \in ac.jobs : ~(rows[j].state = "waiting" /\ rows[j].lease = "held")

LEMMA AckStep ==
    ASSUME TypeInv, TypeInv', AckInv, [Next]_vars
    PROVE  AckInv'
<1>r. rows \in [Jobs -> Row] /\ ac.jobs \subseteq Jobs
  BY DEF TypeInv, TableTyped, BatchesTyped
<1>1. CASE ac' = ac /\ UNCHANGED rows
  BY <1>1 DEF AckInv
<1>2. CASE ac'.pc # "ack"
  BY <1>2 DEF AckInv
<1>3. CASE Mark
  <2>1. /\ rows' = [j \in Jobs |->
                      IF j \in ac.jobs /\ rows[j].state = "waiting"
                      THEN [rows[j] EXCEPT !.state = "done"] ELSE rows[j]]
        /\ ac' = [ac EXCEPT !.pc = "ack"]
    BY <1>3 DEF Mark
  <2>2. ac'.jobs = ac.jobs
    BY <2>1 DEF TypeInv, BatchesTyped
  <2>3. \A j \in ac.jobs : rows'[j].state # "waiting"
    BY <2>1, <1>r DEF Row
  <2> QED
    BY <2>2, <2>3 DEF AckInv
<1>4. CASE JobUpsert
  <2>1. PICK j \in Jobs : rows' = [rows EXCEPT ![j] = Upserted(@, jc.score)] /\ ac' = ac
    BY <1>4 DEF JobUpsert, TypeInv, JobsTyped, acVars
  <2>2. rows'[j].lease = "free"
    BY <2>1, <1>r DEF Upserted
  <2>3. \A k \in Jobs : k # j => rows'[k] = rows[k]
    BY <2>1, <1>r
  <2> QED
    BY <2>1, <2>2, <2>3, <1>r DEF AckInv
<1>5. ASSUME NEW j \in Jobs, Lapse(j)
      PROVE  AckInv'
  <2>1. rows' = [rows EXCEPT ![j] = [@ EXCEPT !.lease = "old"]] /\ ac' = ac
    BY <1>5 DEF Lapse, acVars
  <2>2. rows'[j].lease = "old"
    BY <2>1, <1>r DEF Row
  <2>3. \A k \in Jobs : k # j => rows'[k] = rows[k]
    BY <2>1, <1>r
  <2> QED
    BY <2>1, <2>2, <2>3, <1>r DEF AckInv
<1>6. ASSUME NEW j \in Jobs, Cleanup(j)
      PROVE  AckInv'
  <2>1. ac' = ac /\ ac.pc = "idle"
    BY <1>6 DEF Cleanup, acVars
  <2> QED
    BY <2>1 DEF AckInv
<1> QED
  <2>1. CASE \/ Schedule \/ EnqueueBatch \/ EnqueueFails \/ Pop \/ Ack \/ BatchFails
             \/ BatchCrash
    <3>1. ac'.pc # "ack"
      BY <2>1, IdleTypes DEF Schedule, EnqueueBatch, EnqueueFails, Pop, Ack, BatchFails,
         BatchCrash, IdleBatch
    <3> QED
      BY <3>1, <1>2
  <2>2. CASE Load \/ Announce
    <3>1. ac'.pc # "ack"
      BY <2>2 DEF Load, Announce, TypeInv, BatchesTyped
    <3> QED
      BY <3>1, <1>2
  <2>3. CASE Rank
    <3>1. PICK T : ac' = [ac EXCEPT !.pc = "announce", !.loaded = Unread, !.sel = T]
      BY <2>3 DEF Rank
    <3>2. ac'.pc # "ack"
      BY <3>1 DEF TypeInv, BatchesTyped
    <3> QED
      BY <3>2, <1>2
  <2>4. CASE \/ \E j \in Jobs : Offer(j) \/ JobPop(j)
             \/ JobEmbed \/ JobFilter \/ JobFind \/ JobRerank \/ JobFeedback
             \/ JobAck \/ JobFails \/ Reclaim \/ UNCHANGED vars
    <3>1. UNCHANGED <<rows, ac>>
      BY <2>4 DEF Offer, JobPop, JobEmbed, JobFilter, JobFind, JobRerank,
         JobFeedback, JobAck, JobFails, Reclaim, vars, rowVars, acVars
    <3> QED
      BY <3>1, <1>1
  <2> QED
    BY <2>1, <2>2, <2>3, <2>4, <1>3, <1>4, <1>5, <1>6
       DEF Next, JobStep, BatchStep

LEMMA CreditStep ==
    ASSUME TypeInv, TypeInv', AckInv, CreditInv, [Next]_vars
    PROVE  CreditInv'
<1> SUFFICES ASSUME NEW j \in Jobs
             PROVE  credit'[j] >= Due(j)'
  BY DEF CreditInv
<1> DEFINE q == Copies(acQ, j)
           p == Copies(stuck, j)
           qq == Copies(acQ', j)
           pp == Copies(stuck', j)
           taken == ac.pc # "idle" /\ j \in ac.jobs
           takenn == ac'.pc # "idle" /\ j \in ac'.jobs
<1>r. /\ rows \in [Jobs -> Row] /\ ac.jobs \subseteq Jobs /\ ac \in AcType
      /\ credit \in [Jobs -> Int] /\ ac.sel \subseteq ac.jobs
      /\ acQ \in Seq(Batches) /\ stuck \in Seq(Batches)
      /\ acQ' \in Seq(Batches') /\ stuck' \in Seq(Batches')
      /\ ac.pc = "idle" <=> ac.jobs = {}
  BY DEF TypeInv, TableTyped, BatchesTyped, AcType, GhostsTyped
<1>n. /\ q \in Nat /\ p \in Nat /\ qq \in Nat /\ pp \in Nat
      /\ Hand(j) \in {0, 1} /\ Hand(j)' \in {0, 1}
      /\ Owed(j) \in {0, 1} /\ Owed(j)' \in {0, 1}
  <2>1. q \in Nat /\ p \in Nat
    BY <1>r, CopiesType
  <2>2. qq \in Nat /\ pp \in Nat
    BY <1>r, CopiesType
  <2> QED
    BY <2>1, <2>2 DEF Hand, Owed, One
<1>c. credit[j] \in Int /\ credit[j] >= q + p + Hand(j) + Owed(j)
  BY <1>r DEF CreditInv, Due
<1>g. ASSUME credit'[j] >= qq + pp + Hand(j)' + Owed(j)'
      PROVE  credit'[j] >= Due(j)'
  BY <1>g DEF Due
<1>b. /\ InBatch(j) <=> Holds(acQ, j) \/ Holds(stuck, j) \/ taken
      /\ InBatch(j)' <=> Holds(acQ', j) \/ Holds(stuck', j) \/ takenn
  BY DEF InBatch, Holds
<1>h. /\ Hand(j) = IF /\ ac.pc \in {"claimed", "load", "rank", "announce"}
                      /\ j \in ac.jobs
                   THEN 1 ELSE 0
      /\ Hand(j)' = IF /\ ac'.pc \in {"claimed", "load", "rank", "announce"}
                       /\ j \in ac'.jobs
                    THEN 1 ELSE 0
  BY DEF Hand, One
<1>i. IdleBatch.pc = "idle"
  BY IdleTypes
<1> HIDE DEF q, p, qq, pp, taken, takenn
<1>q. /\ UNCHANGED acQ => qq = q /\ (Holds(acQ', j) <=> Holds(acQ, j))
      /\ UNCHANGED stuck => pp = p /\ (Holds(stuck', j) <=> Holds(stuck, j))
  BY DEF q, qq, p, pp
<1>w. ASSUME rows'[j].state = rows[j].state, rows'[j].lease = rows[j].lease,
             InBatch(j) => InBatch(j)'
      PROVE  Owed(j)' <= Owed(j)
  BY <1>w, <1>n DEF Owed, Loose
\* A step that leaves the batches, the row and the account of the job alone.
<1>1. ASSUME UNCHANGED acVars, rows'[j] = rows[j], credit'[j] = credit[j]
      PROVE  credit'[j] >= Due(j)'
  <2>1. qq = q /\ pp = p /\ (InBatch(j) <=> InBatch(j)') /\ Hand(j)' = Hand(j)
    BY <1>1, <1>q, <1>b, <1>h DEF acVars, taken, takenn
  <2> QED
    BY <2>1, <1>1, <1>w, <1>n, <1>c, <1>g
<1>2. CASE JobUpsert
  <2>1. PICK k \in Jobs :
          /\ rows' = [rows EXCEPT ![k] = Upserted(@, jc.score)]
          /\ Excuse({k}) /\ UNCHANGED acVars
    BY <1>2 DEF JobUpsert, TypeInv, JobsTyped
  <2>2. CASE k = j
    <3>1. credit'[j] = credit[j] + 1
      BY <2>1, <2>2 DEF Excuse
    <3>2. qq = q /\ pp = p /\ Hand(j)' = Hand(j)
      BY <2>1, <1>q, <1>h DEF acVars
    <3> QED
      BY <3>1, <3>2, <1>n, <1>c, <1>g
  <2>3. CASE k # j
    <3>1. credit'[j] = credit[j] /\ rows'[j] = rows[j]
      BY <2>1, <2>3, <1>r DEF Excuse
    <3> QED
      BY <3>1, <2>1, <1>1
  <2> QED
    BY <2>2, <2>3
<1>3. ASSUME NEW k \in Jobs, Cleanup(k)
      PROVE  credit'[j] >= Due(j)'
  <2>1. rows' = [rows EXCEPT ![k] = NoRow] /\ UNCHANGED <<acQ, stuck, ac, credit>>
    BY <1>3 DEF Cleanup, acVars
  <2>2. rows'[j] = rows[j] \/ rows'[j].state = "none"
    BY <2>1, <1>r DEF NoRow
  <2>3. rows'[j].state = "none" => Owed(j)' = 0
    BY DEF Owed, Loose
  <2>4. qq = q /\ pp = p /\ (InBatch(j) <=> InBatch(j)') /\ Hand(j)' = Hand(j)
    BY <2>1, <1>q, <1>b, <1>h DEF taken, takenn
  <2> QED
    BY <2>1, <2>2, <2>3, <2>4, <1>w, <1>n, <1>c, <1>g
\* A lease that ends makes the row loose: a reason more if a batch holds it.
<1>4. ASSUME NEW k \in Jobs, Lapse(k)
      PROVE  credit'[j] >= Due(j)'
  <2>1. /\ rows' = [rows EXCEPT ![k] = [@ EXCEPT !.lease = "old"]]
        /\ rows[k].state = "waiting" /\ rows[k].lease = "held"
        /\ UNCHANGED <<acQ, stuck, ac>>
        /\ Excuse({k} \cap {i \in Jobs : InBatch(i)})
    BY <1>4 DEF Lapse, acVars
  <2>2. qq = q /\ pp = p /\ (InBatch(j) <=> InBatch(j)') /\ Hand(j)' = Hand(j)
    BY <2>1, <1>q, <1>b, <1>h DEF taken, takenn
  <2>3. CASE k = j /\ InBatch(j)
    <3>1. credit'[j] = credit[j] + 1
      BY <2>1, <2>3 DEF Excuse
    <3> QED
      BY <3>1, <2>2, <1>n, <1>c, <1>g
  <2>4. CASE k = j /\ ~InBatch(j)
    <3>1. credit'[j] = credit[j]
      BY <2>1, <2>4 DEF Excuse
    <3>2. Owed(j) = 1
      BY <2>1, <2>4 DEF Owed, Loose
    <3> QED
      BY <3>1, <3>2, <2>2, <1>n, <1>c, <1>g
  <2>5. CASE k # j
    <3>1. credit'[j] = credit[j] /\ rows'[j] = rows[j]
      BY <2>1, <2>5, <1>r DEF Excuse
    <3> QED
      BY <3>1, <2>2, <1>w, <1>n, <1>c, <1>g
  <2> QED
    BY <2>3, <2>4, <2>5
\* The scheduler turns what the row is owed into a batch in hand.
<1>5. CASE Schedule
  <2>1. /\ rows' = [i \in Jobs |-> IF i \in Oldest THEN [rows[i] EXCEPT !.lease = "held"]
                                   ELSE rows[i]]
        /\ ac' = [IdleBatch EXCEPT !.pc = "claimed", !.jobs = Oldest]
        /\ ac.pc = "idle" /\ UNCHANGED <<acQ, stuck, credit>>
    BY <1>5 DEF Schedule, ghosts
  <2>2. ac'.pc = "claimed" /\ ac'.jobs = Oldest
    BY <2>1 DEF IdleBatch
  <2>3. qq = q /\ pp = p /\ Hand(j) = 0 /\ (InBatch(j) => InBatch(j)')
    BY <2>1, <1>q, <1>b, <1>h DEF taken
  <2>4. CASE j \in Oldest
    <3>1. Owed(j) = 1
      BY <2>4 DEF Oldest, Claimable, Owed, Loose
    <3>2. rows'[j].lease = "held" /\ InBatch(j)'
      BY <2>1, <2>2, <2>4, <1>r, <1>b DEF Row, takenn
    <3>3. Owed(j)' = 0
      BY <3>2 DEF Owed, Loose
    <3> QED
      BY <3>1, <3>3, <2>1, <2>3, <1>n, <1>c, <1>g
  <2>5. CASE j \notin Oldest
    <3>1. rows'[j] = rows[j] /\ Hand(j)' = 0
      BY <2>1, <2>2, <2>5, <1>h
    <3> QED
      BY <3>1, <2>1, <2>3, <1>w, <1>n, <1>c, <1>g
  <2> QED
    BY <2>4, <2>5
\* A batch in hand that is queued is a copy more.
<1>6. CASE EnqueueBatch
  <2>1. /\ acQ' = Append(acQ, ac.jobs) /\ ac' = IdleBatch /\ ac.pc = "claimed"
        /\ UNCHANGED <<rows, stuck, credit>>
    BY <1>6 DEF EnqueueBatch, rowVars, ghosts
  <2>2. ac.jobs \in Batches
    BY <2>1, BatchInHand DEF TypeInv
  <2>3. /\ qq = q + One(ac.jobs, j)
        /\ Holds(acQ', j) <=> Holds(acQ, j) \/ j \in ac.jobs
    BY <2>1, <2>2, <1>r, CopiesAppend DEF q, qq
  <2>4. pp = p /\ (InBatch(j) => InBatch(j)')
    BY <2>1, <2>3, <1>q, <1>b DEF taken
  <2>5. Hand(j) = One(ac.jobs, j) /\ Hand(j)' = 0
    BY <2>1, <1>i, <1>h DEF One
  <2> QED
    BY <2>1, <2>3, <2>4, <2>5, <1>w, <1>n, <1>c, <1>g
\* A batch that is gone without a copy pays for what its rows are owed.
<1>7. CASE EnqueueFails
  <2>1. /\ UNCHANGED <<rows, acQ, stuck, credit>> /\ ac' = IdleBatch /\ ac.pc = "claimed"
    BY <1>7 DEF EnqueueFails, rowVars, ghosts
  <2>2. qq = q /\ pp = p /\ Hand(j)' = 0
    BY <2>1, <1>q, <1>i, <1>h
  <2>3. CASE j \in ac.jobs
    <3>1. Hand(j) = 1
      BY <2>1, <2>3, <1>h
    <3> QED
      BY <3>1, <2>1, <2>2, <1>n, <1>c, <1>g
  <2>4. CASE j \notin ac.jobs
    <3>1. InBatch(j) => InBatch(j)'
      BY <2>1, <2>4, <1>q, <1>b DEF taken
    <3> QED
      BY <3>1, <2>1, <2>2, <1>w, <1>n, <1>c, <1>g
  <2> QED
    BY <2>3, <2>4
<1>8. CASE Pop
  <2>1. /\ acQ # <<>> /\ acQ' = Tail(acQ) /\ ac.pc = "idle"
        /\ ac' = [IdleBatch EXCEPT !.pc = "load", !.jobs = Head(acQ)]
        /\ UNCHANGED <<rows, stuck, credit>>
    BY <1>8 DEF Pop, rowVars, ghosts
  <2>2. ac'.pc = "load" /\ ac'.jobs = Head(acQ)
    BY <2>1 DEF IdleBatch
  <2>3. /\ q = qq + One(Head(acQ), j)
        /\ Holds(acQ, j) <=> Holds(acQ', j) \/ j \in Head(acQ)
    BY <2>1, <1>r, CopiesTail DEF q, qq
  <2>4. pp = p /\ (InBatch(j) => InBatch(j)')
    BY <2>1, <2>2, <2>3, <1>q, <1>b DEF taken, takenn
  <2>5. Hand(j) = 0 /\ Hand(j)' = One(Head(acQ), j)
    BY <2>1, <2>2, <1>h DEF One
  <2> QED
    BY <2>1, <2>3, <2>4, <2>5, <1>w, <1>n, <1>c, <1>g
<1>9. CASE Load \/ Rank
  <2>1. /\ ac'.jobs = ac.jobs /\ ac'.pc # "idle"
        /\ ac.pc \in {"load", "rank"} /\ ac'.pc \in {"rank", "announce"}
    <3>1. PICK x, T : \/ /\ ac.pc = "load"
                         /\ ac' = [ac EXCEPT !.pc = "rank", !.loaded = x]
                      \/ /\ ac.pc = "rank"
                         /\ ac' = [ac EXCEPT !.pc = "announce", !.loaded = x, !.sel = T]
      BY <1>9 DEF Load, Rank
    <3> QED
      BY <3>1, <1>r DEF AcType
  <2>2. UNCHANGED <<acQ, stuck, credit>>
    BY <1>9 DEF Load, Rank, ghosts
  <2>3. rows'[j].state = rows[j].state /\ rows'[j].lease = rows[j].lease
    <3>1. CASE Load
      BY <3>1 DEF Load, rowVars
    <3>2. CASE Rank
      <4>1. PICK S : rows' = [i \in Jobs |->
                                 IF i \in S THEN Scored(rows[i], ac.loaded[i]) ELSE rows[i]]
        BY <3>2 DEF Rank
      <4> QED
        BY <4>1, <1>r DEF Scored, Row
    <3> QED
      BY <1>9, <3>1, <3>2
  <2>4. qq = q /\ pp = p /\ Hand(j)' = Hand(j) /\ (InBatch(j) => InBatch(j)')
    BY <2>1, <2>2, <1>q, <1>b, <1>h DEF taken, takenn
  <2> QED
    BY <2>2, <2>3, <2>4, <1>w, <1>n, <1>c, <1>g
\* The announcement spends the reason the batch had.
<1>10. CASE Announce
  <2>1. /\ ac.pc = "announce" /\ ac' = [ac EXCEPT !.pc = "mark", !.sel = {}]
        /\ Publish(ac.sel) /\ UNCHANGED <<rows, acQ, stuck>>
    BY <1>10 DEF Announce, rowVars
  <2>2. ac'.jobs = ac.jobs /\ ac'.pc = "mark"
    BY <2>1, <1>r DEF AcType
  <2>3. credit'[j] >= credit[j] - One(ac.jobs, j)
    BY <2>1, <1>r DEF Publish, One
  <2>4. Hand(j) = One(ac.jobs, j) /\ Hand(j)' = 0
    BY <2>1, <2>2, <1>h DEF One
  <2>5. qq = q /\ pp = p /\ (InBatch(j) => InBatch(j)')
    BY <2>1, <2>2, <1>q, <1>b DEF taken, takenn
  <2>6. credit'[j] \in Int
    BY DEF TypeInv, GhostsTyped
  <2> QED
    BY <2>1, <2>3, <2>4, <2>5, <2>6, <1>w, <1>n, <1>c, <1>g
<1>11. CASE Mark
  <2>1. /\ ac.pc = "mark" /\ ac' = [ac EXCEPT !.pc = "ack"]
        /\ rows' = [i \in Jobs |->
                      IF i \in ac.jobs /\ rows[i].state = "waiting"
                      THEN [rows[i] EXCEPT !.state = "done"] ELSE rows[i]]
        /\ UNCHANGED <<acQ, stuck, credit>>
    BY <1>11 DEF Mark, ghosts
  <2>2. ac'.jobs = ac.jobs /\ ac'.pc = "ack"
    BY <2>1, <1>r DEF AcType
  <2>3. rows'[j] = rows[j] \/ rows'[j].state = "done"
    BY <2>1, <1>r DEF Row
  <2>4. rows'[j].state = "done" => Owed(j)' = 0
    BY DEF Owed, Loose
  <2>5. qq = q /\ pp = p /\ Hand(j)' = Hand(j) /\ (InBatch(j) => InBatch(j)')
    BY <2>1, <2>2, <1>q, <1>b, <1>h DEF taken, takenn
  <2> QED
    BY <2>1, <2>3, <2>4, <2>5, <1>w, <1>n, <1>c, <1>g
\* A row of a marked batch that waits again is loose already.
<1>12. CASE Ack
  <2>1. /\ ac.pc = "ack" /\ ac' = IdleBatch /\ UNCHANGED <<rows, acQ, stuck, credit>>
    BY <1>12 DEF Ack, rowVars, ghosts
  <2>2. qq = q /\ pp = p /\ Hand(j)' = Hand(j)
    BY <2>1, <1>q, <1>i, <1>h
  <2>3. CASE j \in ac.jobs
    <3>1. rows[j].state = "waiting" => rows[j].lease # "held"
      BY <2>1, <2>3 DEF AckInv
    <3>2. Owed(j)' = Owed(j)
      BY <3>1, <2>1 DEF Owed, Loose
    <3> QED
      BY <3>2, <2>1, <2>2, <1>n, <1>c, <1>g
  <2>4. CASE j \notin ac.jobs
    <3>1. InBatch(j) => InBatch(j)'
      BY <2>1, <2>4, <1>q, <1>b DEF taken
    <3> QED
      BY <3>1, <2>1, <2>2, <1>w, <1>n, <1>c, <1>g
  <2> QED
    BY <2>3, <2>4
\* A batch that fails after it announced its choice has a new reason to be there.
<1>13. CASE BatchFails
  <2>1. /\ ac.pc \in {"load", "rank", "announce", "mark"} /\ ac' = IdleBatch
        /\ acQ' \in {<<ac.jobs>> \o acQ, acQ}
        /\ Excuse(IF ac.pc = "mark" THEN ac.jobs ELSE {})
        /\ UNCHANGED <<rows, stuck>>
    BY <1>13 DEF BatchFails, rowVars
  <2>2. Hand(j)' = 0 /\ pp = p
    BY <2>1, <1>q, <1>i, <1>h
  <2>3. credit'[j] + Hand(j) = credit[j] + Hand(j) + IF ac.pc = "mark" THEN One(ac.jobs, j) ELSE 0
    BY <2>1, <1>n, <1>c DEF Excuse, One
  <2>4. Hand(j) = IF ac.pc = "mark" THEN 0 ELSE One(ac.jobs, j)
    BY <2>1, <1>h DEF One
  <2>5. credit'[j] \in Int /\ credit'[j] >= q + p + One(ac.jobs, j) + Owed(j)
    <3>1. credit'[j] \in Int /\ One(ac.jobs, j) \in Nat
      BY DEF TypeInv, GhostsTyped, One
    <3> QED
      BY <3>1, <2>3, <2>4, <1>n, <1>c
  <2>6. CASE acQ' = <<ac.jobs>> \o acQ
    <3>1. ac.jobs \in Batches
      BY <2>1, BatchInHand DEF TypeInv
    <3>2. /\ qq = q + One(ac.jobs, j)
          /\ Holds(acQ', j) <=> Holds(acQ, j) \/ j \in ac.jobs
      BY <2>6, <3>1, <1>r, CopiesFront DEF q, qq
    <3>3. InBatch(j) => InBatch(j)'
      BY <2>1, <3>2, <1>q, <1>b DEF taken
    <3>4. rows' = rows
      BY <2>1
    <3>5. Owed(j)' <= Owed(j)
      BY <3>3, <3>4, <1>w
    <3>6. One(ac.jobs, j) \in Nat /\ qq = q + One(ac.jobs, j)
      BY <3>2 DEF One
    <3> QED
      BY <3>5, <3>6, <2>2, <2>5, <1>n, <1>g
  <2>7. CASE acQ' = acQ
    <3>1. qq = q
      BY <2>7, <1>q
    <3>2. CASE j \in ac.jobs
      <4>1. One(ac.jobs, j) = 1
        BY <3>2 DEF One
      <4> QED
        BY <4>1, <3>1, <2>2, <2>5, <1>n, <1>g
    <3>3. CASE j \notin ac.jobs
      <4>1. InBatch(j) => InBatch(j)'
        BY <2>1, <2>7, <3>3, <1>q, <1>b DEF taken
      <4>2. One(ac.jobs, j) = 0
        BY <3>3 DEF One
      <4> QED
        BY <4>1, <4>2, <3>1, <2>1, <2>2, <2>5, <1>w, <1>n, <1>g
    <3> QED
      BY <3>2, <3>3
  <2> QED
    BY <2>1, <2>6, <2>7
<1>14. CASE BatchCrash
  <2>1. /\ stuck' = Append(stuck, ac.jobs) /\ ac' = IdleBatch /\ ac.pc # "idle"
        /\ Excuse(ac.jobs) /\ UNCHANGED <<rows, acQ>>
    BY <1>14 DEF BatchCrash, rowVars
  <2>2. ac.jobs \in Batches
    BY <2>1, BatchInHand DEF TypeInv
  <2>3. /\ pp = p + One(ac.jobs, j)
        /\ Holds(stuck', j) <=> Holds(stuck, j) \/ j \in ac.jobs
    BY <2>1, <2>2, <1>r, CopiesAppend DEF p, pp
  <2>4. qq = q /\ Hand(j)' = 0 /\ (InBatch(j) => InBatch(j)')
    BY <2>1, <2>3, <1>q, <1>i, <1>b, <1>h DEF taken
  <2>5. credit'[j] = credit[j] + One(ac.jobs, j) /\ One(ac.jobs, j) \in Nat
    BY <2>1, <1>c DEF Excuse, One
  <2> QED
    BY <2>1, <2>3, <2>4, <2>5, <1>w, <1>n, <1>c, <1>g
<1>15. CASE Reclaim
  <2>1. /\ acQ' = <<Head(stuck)>> \o acQ /\ stuck # <<>> /\ stuck' = Tail(stuck)
        /\ UNCHANGED <<rows, ac, credit>>
    BY <1>15 DEF Reclaim, rowVars, ghosts
  <2>2. Head(stuck) \in Batches
    BY <2>1, <1>r, QueueTail
  <2>3. /\ qq = q + One(Head(stuck), j)
        /\ Holds(acQ', j) <=> Holds(acQ, j) \/ j \in Head(stuck)
    BY <2>1, <2>2, <1>r, CopiesFront DEF q, qq
  <2>4. /\ p = pp + One(Head(stuck), j)
        /\ Holds(stuck, j) <=> Holds(stuck', j) \/ j \in Head(stuck)
    BY <2>1, <1>r, CopiesTail DEF p, pp
  <2>5. Hand(j)' = Hand(j) /\ (InBatch(j) => InBatch(j)')
    BY <2>1, <2>3, <2>4, <1>b, <1>h DEF taken, takenn
  <2>6. /\ One(Head(stuck), j) \in Nat
        /\ qq = q + One(Head(stuck), j) /\ p = pp + One(Head(stuck), j)
    BY <2>3, <2>4 DEF One
  <2>7. rows' = rows /\ credit' = credit
    BY <2>1
  <2>8. Owed(j)' <= Owed(j)
    BY <2>5, <2>7, <1>w
  <2>9. qq + pp = q + p
    BY <2>6, <1>n
  <2> QED
    BY <2>5, <2>7, <2>8, <2>9, <1>n, <1>c, <1>g
<1>16. CASE \/ \E k \in Jobs : Offer(k) \/ JobPop(k)
            \/ JobEmbed \/ JobFilter \/ JobFind \/ JobRerank \/ JobFeedback
            \/ JobAck \/ JobFails \/ UNCHANGED vars
  <2>1. UNCHANGED <<rows, acVars, credit>>
    BY <1>16 DEF Offer, JobPop, JobEmbed, JobFilter, JobFind, JobRerank,
       JobFeedback, JobAck, JobFails, vars, rowVars, ghosts
  <2> QED
    BY <2>1, <1>1
<1> QED
  BY <1>2, <1>3, <1>4, <1>5, <1>6, <1>7, <1>8, <1>9, <1>10, <1>11, <1>12, <1>13,
     <1>14, <1>15, <1>16 DEF Next, JobStep, BatchStep

\* A job is announced no more often than there were reasons to: a match, a lease
\* that ended while a batch still held the row, a batch that died or failed after it
\* published.  Whatever the scheduler, the batches and the job consumer do between
\* each other's statements, the lease keeps a row from being queued twice.
THEOREM AnnouncedForAReason == Spec => []AnnouncedOnce
<1>1. ASSUME Init
      PROVE  AckInv /\ CreditInv
  <2>1. /\ acQ = <<>> /\ stuck = <<>> /\ ac = IdleBatch
        /\ \A j \in Jobs : credit[j] = 0 /\ rows[j].state = "none"
    BY <1>1 DEF Init, NoRow
  <2>2. AckInv
    BY <2>1, IdleTypes DEF AckInv
  <2>3. \A j : Copies(<<>>, j) = 0
    <3>1. \A j : {i \in DOMAIN <<>> : j \in <<>>[i]} = {}
      OBVIOUS
    <3> QED
      BY <3>1, FS_EmptySet DEF Copies
  <2>4. \A j \in Jobs : Hand(j) = 0 /\ Owed(j) = 0
    BY <2>1, IdleTypes DEF Hand, Owed, Loose
  <2>5. \A j \in Jobs : Due(j) = 0
    BY <2>1, <2>3, <2>4 DEF Due
  <2> QED
    BY <2>1, <2>2, <2>5 DEF CreditInv
<1>2. ASSUME TypeInv, CreditInv
      PROVE  AnnouncedOnce
  <2> SUFFICES ASSUME NEW j \in Jobs
               PROVE  credit[j] >= 0
    BY DEF AnnouncedOnce
  <2>1. Copies(acQ, j) \in Nat /\ Copies(stuck, j) \in Nat
    BY <1>2, CopiesType DEF TypeInv, BatchesTyped
  <2>2. Hand(j) \in Nat /\ Owed(j) \in Nat
    BY DEF Hand, Owed, One
  <2>3. credit[j] \in Int /\ credit[j] >= Due(j)
    BY <1>2 DEF TypeInv, GhostsTyped, CreditInv
  <2> QED
    BY <2>1, <2>2, <2>3 DEF Due
<1>3. TypeInv /\ AckInv /\ CreditInv /\ [Next]_vars => TypeInv' /\ AckInv' /\ CreditInv'
  BY TypeStep, AckStep, CreditStep
<1> QED
  BY <1>1, <1>2, <1>3, TypeInit, PTL DEF Spec
=============================================================================
