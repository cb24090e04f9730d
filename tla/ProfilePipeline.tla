--------------------------- MODULE ProfilePipeline ---------------------------
(* From a saved profile to the jobs that are offered for it, for one user. *)
(*                                                                         *)
(* The API writes the profile and, in the same transaction, a row in the   *)
(* outbox pending_user_embeds.  Its dispatch loop leases the row, puts the *)
(* user's id on user-embed and deletes the row.  The embed consumer        *)
(* (ProcessUserEmbedUseCase) reads the profile, has it parsed, fills empty *)
(* filters from the parse, saves the embedding and puts the id on          *)
(* user-rematch.  The rematch consumer (ProcessUserRematchUseCase) looks   *)
(* for recent jobs close to the embedding, filters them and publishes a    *)
(* batch on match-notify.  Messages carry the id only: each consumer reads *)
(* what the user has at that moment, statement by statement, while the     *)
(* user goes on saving profiles and filters.                               *)
(*                                                                         *)
(* A text is what the two parsers can tell of it.  Every message is the    *)
(* same, so a queue is the number of its messages; how one is retried, put *)
(* in the DLQ or taken back after a restart is ReliableQueue's.  The table *)
(* user_profile_structured is written only and left out.                   *)
EXTENDS Integers, FiniteSets

CONSTANTS
    Tech,       \* technologies, the words of stacks, filters and listings
    Texts,      \* profile texts
    Guesses,    \* what the language model may answer for a text
    Listings,   \* recent jobs
    Similar,    \* pairs <<text, job>> closer than SIMILARITY_THRESHOLD
    Choices,    \* filters the user may save
    MaxJobs,    \* REMATCH_MAX_JOBS
    MaxSaves,   \* bound: profiles saved
    MaxEdits,   \* bound: filters saved
    MaxFaults   \* bound: failures, crashes and lost connections

Nil == 0        \* no budget, no years

(* extract_structured_profile of a text, which may tell nothing at all;    *)
(* NoText stands where there is no profile yet.                            *)
TextShape == [stack : SUBSET Tech, min : Nat, years : Nat, kind : {"any", "web", "bot"}]
NoText == [stack |-> {}, min |-> Nil, years |-> Nil, kind |-> "none"]

(* A job as the filter sees it: what its text and classification say.      *)
ListingShape == [source : {"kwork", "flru"}, kind : {"any", "web", "bot"},
                 stack : SUBSET Tech, words : SUBSET Tech, years : Nat, budget : Nat]

Preferences == [include : SUBSET Tech, exclude : SUBSET Tech, min : Nat, max : Nat,
                sources : SUBSET {"kwork", "flru"}]
NoFilter == [include |-> {}, exclude |-> {}, min |-> Nil, max |-> Nil, sources |-> {}]

Parse == [stack : SUBSET Tech, min : Nat]

ASSUME ProfileAssumption ==
    /\ Texts \subseteq TextShape
    /\ Guesses \in [Texts -> SUBSET Parse]
    /\ Listings \subseteq ListingShape
    /\ Similar \subseteq Texts \X Listings
    /\ Choices \subseteq Preferences
    /\ {MaxJobs, MaxSaves, MaxEdits, MaxFaults} \subseteq Nat

VARIABLES
    profile,    \* users.profile_text
    embedding,  \* the text users.embedding was computed from
    prefs,      \* user_preferences
    stage,      \* the user's row in pending_user_embeds
    disp,       \* the dispatch loop of the API
    embedQ,     \* messages on user-embed
    ec,         \* the embed consumer: where it is and what it read
    rematchQ,   \* messages on user-rematch
    rc,         \* the rematch consumer: where it is and what it read
    chosen,     \* ghost: the filters the user saved last
    matched,    \* ghost: the text a finished rematch went by
    dropped,    \* ghost: requests that are known to be gone
    spent       \* budget used: saves, edits, faults

userVars == <<profile, prefs>>
outboxVars == <<stage, disp>>
ghosts == <<chosen, matched, dropped>>
vars == <<userVars, embedding, outboxVars, embedQ, ec, rematchQ, rc, ghosts, spent>>

NoParse == [stack |-> {}, min |-> Nil]
IdleEmbed == [pc |-> "idle", text |-> NoText, parse |-> NoParse]
IdleRematch == [pc |-> "idle", text |-> NoText, jobs |-> {}, edited |-> FALSE]

Spend(kind) == spent' = [spent EXCEPT ![kind] = @ + 1]
Left(kind, max) == spent[kind] < max

---------------------------------------------------------------------------
(* evaluate_preference_filter for one user and one job.                    *)

Overlap(a, b) == a = {} \/ b = {} \/ a \cap b # {}
Agree(a, b) == a = "any" \/ b = "any" \/ a = b

(* The saved minimum goes before the one the profile names.                *)
Minimum(p, text) == IF p.min # Nil THEN p.min ELSE text.min

BudgetFits(job, p, text) ==
    job.budget = Nil \/ /\ job.budget >= Minimum(p, text)
                        /\ p.max = Nil \/ job.budget <= p.max

\* Mutant of WordsFit: excluded words are looked for after the required ones.
MutWordsFit(job, p) ==
    \/ p.include # {} /\ p.include \cap job.words # {}
    \/ p.include = {} /\ p.exclude \cap job.words = {}

WordsFit(job, p) ==
    /\ p.exclude \cap job.words = {}
    /\ p.include # {} => p.include \cap job.words # {}

Allows(job, p, text) ==
    /\ p.sources # {} => job.source \in p.sources
    /\ Agree(text.kind, job.kind)
    /\ Overlap(text.stack, job.stack)
    /\ text.years # Nil /\ job.years # Nil => text.years >= job.years
    /\ WordsFit(job, p)
    /\ BudgetFits(job, p, text)

---------------------------------------------------------------------------
(* The user, through the API.                                              *)

(* UpdateProfileScopedAndStage: one transaction, and the lease of an older *)
(* request is gone with it.                                                *)
SaveProfile(text) ==
    /\ Left("saves", MaxSaves)
    /\ Spend("saves")
    /\ profile' = text
    /\ stage' = "free"
    /\ dropped' = dropped \ {"embed"}
    /\ UNCHANGED <<prefs, embedding, disp, embedQ, ec, rematchQ, rc, chosen, matched>>

SaveFilters(p) ==
    /\ Left("edits", MaxEdits)
    /\ Spend("edits")
    /\ prefs' = p
    /\ chosen' = p
    /\ rc' = [rc EXCEPT !.edited = rc.pc = "publish"]
    /\ UNCHANGED <<profile, embedding, outboxVars, embedQ, ec, rematchQ, matched, dropped>>

---------------------------------------------------------------------------
(* The dispatch loop: Flush, every few seconds.                            *)

Claim ==
    /\ disp = "idle"
    /\ stage \in {"free", "lapsed"}
    /\ stage' = "leased"
    /\ disp' = "claimed"
    /\ UNCHANGED <<userVars, embedding, embedQ, ec, rematchQ, rc, ghosts, spent>>

Enqueue ==
    /\ disp = "claimed"
    /\ embedQ' = embedQ + 1
    /\ disp' = "sent"
    /\ UNCHANGED <<userVars, embedding, stage, ec, rematchQ, rc, ghosts, spent>>

EnqueueRefused ==
    /\ disp = "claimed"
    /\ Left("faults", MaxFaults)
    /\ Spend("faults")
    /\ disp' = "refused"
    /\ UNCHANGED <<userVars, embedding, stage, embedQ, ec, rematchQ, rc, ghosts>>

(* A message not yet read carries whatever profile there is by then.       *)
Ahead == embedQ > 0 \/ ec.pc = "read"

(* DeletePendingUserEmbeds, by id: a profile that was staged since the     *)
(* claim loses its request, and is not embedded when the message sent for  *)
(* its predecessor has been read already.                                  *)
Delete ==
    /\ disp = "sent"
    /\ stage' = "none"
    /\ dropped' = IF stage = "free" /\ ~Ahead THEN dropped \cup {"embed"} ELSE dropped
    /\ disp' = "idle"
    /\ UNCHANGED <<userVars, embedding, embedQ, ec, rematchQ, rc, chosen, matched, spent>>

Release ==
    /\ disp = "refused"
    /\ stage' = "free"
    /\ disp' = "idle"
    /\ UNCHANGED <<userVars, embedding, embedQ, ec, rematchQ, rc, ghosts, spent>>

(* A statement of Flush fails or the API stops: the row keeps its lease.   *)
FlushFails ==
    /\ disp # "idle"
    /\ Left("faults", MaxFaults)
    /\ Spend("faults")
    /\ disp' = "idle"
    /\ UNCHANGED <<userVars, embedding, stage, embedQ, ec, rematchQ, rc, ghosts>>

LeaseEnds ==
    /\ stage = "leased"
    /\ stage' = "lapsed"
    /\ UNCHANGED <<userVars, embedding, disp, embedQ, ec, rematchQ, rc, ghosts, spent>>

---------------------------------------------------------------------------
(* The embed consumer.                                                     *)

EmbedPop ==
    /\ ec.pc = "idle"
    /\ embedQ > 0
    /\ embedQ' = embedQ - 1
    /\ ec' = [IdleEmbed EXCEPT !.pc = "read"]
    /\ UNCHANGED <<userVars, embedding, outboxVars, rematchQ, rc, ghosts, spent>>

EmbedRead ==
    /\ ec.pc = "read"
    /\ ec' = [ec EXCEPT !.pc = "parse", !.text = profile]
    /\ UNCHANGED <<userVars, embedding, outboxVars, embedQ, rematchQ, rc, ghosts, spent>>

(* _fallback_structured_profile: nothing when the text says nothing.       *)
LocalParse(text) == [stack |-> text.stack, min |-> text.min]
Telling(text) == text.stack # {} \/ text.years # Nil \/ text.min # Nil \/ text.kind # "any"

(* GeminiProfileParser.parse: a stack without repetitions and a positive   *)
(* budget or none, whatever the model wrote.  Its None on any failure is   *)
(* the other disjunct of EmbedParse.                                       *)
ModelParses(text) ==
    {[stack |-> g.stack, min |-> IF g.min > 0 THEN g.min ELSE Nil] : g \in Guesses[text]}

(* The language model, or without one or without an answer the local       *)
(* parser.                                                                 *)
EmbedParse ==
    /\ ec.pc = "parse"
    /\ \/ \E g \in ModelParses(ec.text) : ec' = [ec EXCEPT !.pc = "fill", !.parse = g]
       \/ ec' = IF Telling(ec.text)
                THEN [ec EXCEPT !.pc = "fill", !.parse = LocalParse(ec.text)]
                ELSE [ec EXCEPT !.pc = "save"]
    /\ UNCHANGED <<userVars, embedding, outboxVars, embedQ, rematchQ, rc, ghosts, spent>>

\* Mutant of Filled: what the parse found replaces what is there.
MutFilled(p, parse) ==
    [p EXCEPT !.include = IF parse.stack # {} THEN parse.stack ELSE @,
              !.min = IF @ = Nil THEN parse.min ELSE @]

(* backfill_preferences_from_profile_parse: one statement.                 *)
Filled(p, parse) ==
    [p EXCEPT !.include = IF @ = {} THEN parse.stack ELSE @,
              !.min = IF @ = Nil THEN parse.min ELSE @]

EmbedFill ==
    /\ ec.pc = "fill"
    /\ prefs' = Filled(prefs, ec.parse)
    /\ ec' = [ec EXCEPT !.pc = "save", !.parse = NoParse]
    /\ UNCHANGED <<profile, embedding, outboxVars, embedQ, rematchQ, rc, ghosts, spent>>

(* encode takes a while; what is saved is the embedding of the text read.  *)
EmbedSave ==
    /\ ec.pc = "save"
    /\ embedding' = ec.text
    /\ ec' = [ec EXCEPT !.pc = "rematch"]
    /\ UNCHANGED <<userVars, outboxVars, embedQ, rematchQ, rc, ghosts, spent>>

EmbedRematch ==
    /\ ec.pc = "rematch"
    /\ rematchQ' = rematchQ + 1
    /\ dropped' = dropped \ {"rematch"}
    /\ ec' = [IdleEmbed EXCEPT !.pc = "ack"]
    /\ UNCHANGED <<userVars, embedding, outboxVars, embedQ, rc, chosen, matched, spent>>

EmbedAck ==
    /\ ec.pc = "ack"
    /\ ec' = IdleEmbed
    /\ UNCHANGED <<userVars, embedding, outboxVars, embedQ, rematchQ, rc, ghosts, spent>>

\* Mutant of EmbedFails: once the embedding is saved the message counts as done.
MutEmbedFails ==
    /\ ec.pc # "idle"
    /\ Left("faults", MaxFaults)
    /\ Spend("faults")
    /\ embedQ' = IF ec.pc \in {"rematch", "ack"} THEN embedQ ELSE embedQ + 1
    /\ ec' = IdleEmbed
    /\ UNCHANGED <<userVars, embedding, outboxVars, rematchQ, rc, ghosts>>

(* An exception, a lost ack, a crash: the message is back or in the DLQ.   *)
EmbedFails ==
    /\ ec.pc # "idle"
    /\ Left("faults", MaxFaults)
    /\ Spend("faults")
    /\ \/ embedQ' = embedQ + 1 /\ UNCHANGED dropped
       \/ dropped' = dropped \cup {"embed", "rematch"} /\ UNCHANGED embedQ
    /\ ec' = IdleEmbed
    /\ UNCHANGED <<userVars, embedding, outboxVars, rematchQ, rc, chosen, matched>>

---------------------------------------------------------------------------
(* The rematch consumer.                                                   *)

\* Mutant of RematchPop: a pop that timed out counts as a message.
MutRematchPop ==
    /\ rc.pc = "idle"
    /\ rematchQ' = IF rematchQ > 0 THEN rematchQ - 1 ELSE 0
    /\ rc' = [IdleRematch EXCEPT !.pc = "find"]
    /\ UNCHANGED <<userVars, embedding, outboxVars, embedQ, ec, ghosts, spent>>

RematchPop ==
    /\ rc.pc = "idle"
    /\ rematchQ > 0
    /\ rematchQ' = rematchQ - 1
    /\ rc' = [IdleRematch EXCEPT !.pc = "find"]
    /\ UNCHANGED <<userVars, embedding, outboxVars, embedQ, ec, ghosts, spent>>

(* get_embedding and find_jobs_for_user: jobs that are close, listed,      *)
(* recent, and not yet in notifications.                                   *)
RematchFind ==
    /\ rc.pc = "find"
    /\ \E found \in SUBSET {job \in Listings : <<embedding, job>> \in Similar} :
        rc' = [rc EXCEPT !.pc = "filter", !.text = embedding, !.jobs = found]
    /\ UNCHANGED <<userVars, embedding, outboxVars, embedQ, ec, rematchQ, ghosts, spent>>

(* _apply_preference_filter reads profile and filters again, after the     *)
(* search; feedback may push a job below the threshold; the first MaxJobs  *)
(* of the rest are sent, those whose job is gone left out.                 *)
RematchFilter ==
    /\ rc.pc = "filter"
    /\ \E sent \in SUBSET {job \in rc.jobs : Allows(job, prefs, profile)} :
        /\ Cardinality(sent) <= MaxJobs
        /\ rc' = [rc EXCEPT !.pc = "publish", !.jobs = sent]
    /\ UNCHANGED <<userVars, embedding, outboxVars, embedQ, ec, rematchQ, ghosts, spent>>

(* enqueue_batch, unless there is nothing to send, then the ack.           *)
RematchPublish ==
    /\ rc.pc = "publish"
    /\ matched' = rc.text
    /\ rc' = [IdleRematch EXCEPT !.pc = "ack"]
    /\ UNCHANGED <<userVars, embedding, outboxVars, embedQ, ec, rematchQ, chosen, dropped, spent>>

RematchAck ==
    /\ rc.pc = "ack"
    /\ rc' = IdleRematch
    /\ UNCHANGED <<userVars, embedding, outboxVars, embedQ, ec, rematchQ, ghosts, spent>>

RematchFails ==
    /\ rc.pc # "idle"
    /\ Left("faults", MaxFaults)
    /\ Spend("faults")
    /\ \/ rematchQ' = rematchQ + 1 /\ UNCHANGED dropped
       \/ dropped' = dropped \cup {"rematch"} /\ UNCHANGED rematchQ
    /\ rc' = IdleRematch
    /\ UNCHANGED <<userVars, embedding, outboxVars, embedQ, ec, chosen, matched>>

---------------------------------------------------------------------------
Init ==
    /\ profile = NoText
    /\ embedding = NoText
    /\ prefs = NoFilter
    /\ stage = "none"
    /\ disp = "idle"
    /\ embedQ = 0
    /\ ec = IdleEmbed
    /\ rematchQ = 0
    /\ rc = IdleRematch
    /\ chosen = NoFilter
    /\ matched = NoText
    /\ dropped = {}
    /\ spent = [k \in {"saves", "edits", "faults"} |-> 0]

DispatchStep == Claim \/ Enqueue \/ Delete \/ Release
EmbedStep == EmbedPop \/ EmbedRead \/ EmbedParse \/ EmbedFill \/ EmbedSave \/ EmbedRematch \/ EmbedAck
RematchStep == RematchPop \/ RematchFind \/ RematchFilter \/ RematchPublish \/ RematchAck

Next ==
    \/ \E text \in Texts : SaveProfile(text)
    \/ \E p \in Choices : SaveFilters(p)
    \/ DispatchStep \/ EnqueueRefused \/ FlushFails \/ LeaseEnds
    \/ EmbedStep \/ EmbedFails
    \/ RematchStep \/ RematchFails

(* The three loops go on, and a lease of 30 s ends.                        *)
Fairness ==
    /\ WF_vars(DispatchStep)
    /\ WF_vars(LeaseEnds)
    /\ WF_vars(EmbedStep)
    /\ WF_vars(RematchStep)

Spec == Init /\ [][Next]_vars /\ Fairness

---------------------------------------------------------------------------
(* Types; while the dispatch loop holds the row somebody staged it.        *)
TypeOK ==
    /\ {profile, embedding, matched} \subseteq Texts \cup {NoText}
    /\ prefs \in Preferences /\ chosen \in Preferences
    /\ stage \in {"none", "free", "leased", "lapsed"}
    /\ disp \in {"idle", "claimed", "sent", "refused"}
    /\ disp # "idle" => stage # "none"
    /\ ec.pc \in {"idle", "read", "parse", "fill", "save", "rematch", "ack"}
    /\ ec.pc \in {"parse", "fill", "save"} => ec.text \in Texts
    /\ rc.pc \in {"idle", "find", "filter", "publish", "ack"}
    /\ rc.pc \in {"find", "filter", "publish"} => embedding \in Texts
    /\ rc.jobs \subseteq Listings
    /\ embedQ \in Nat /\ rematchQ \in Nat

(* What the user chose stays: the parse of a profile, however late or      *)
(* often it comes, fills only what the user left empty, even when he chose *)
(* it after the parse began.                                               *)
ChoiceSurvivesParse ==
    /\ chosen.include # {} => prefs.include = chosen.include
    /\ chosen.min # Nil => prefs.min = chosen.min
    /\ <<prefs.exclude, prefs.max, prefs.sources>>
         = <<chosen.exclude, chosen.max, chosen.sources>>

(* No batch offers a job the user's own filters exclude, whatever the      *)
(* parse filled in between, unless he saved them after the rematch had     *)
(* read them.                                                              *)
Excluded(job, p) ==
    \/ p.sources # {} /\ job.source \notin p.sources
    \/ p.exclude \cap job.words # {}
    \/ p.include # {} /\ p.include \cap job.words = {}
    \/ job.budget # Nil /\ (job.budget < p.min \/ (p.max # Nil /\ job.budget > p.max))

OffersAreWanted ==
    rc.pc = "publish" /\ ~rc.edited => \A job \in rc.jobs : ~Excluded(job, chosen)

(* Every saved profile is embedded and a rematch that read this embedding,  *)
(* not an older one, comes to its end: through refused queues, failed       *)
(* statements, crashes and redelivery of either message, unless a newer     *)
(* profile takes its place, one of the messages ends in the DLQ, or Delete  *)
(* takes the row that was staged for it.                                    *)
ProfileIsMatched ==
    \A text \in Texts :
        profile = text ~> matched = text \/ profile # text \/ dropped # {}
=============================================================================
