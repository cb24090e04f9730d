--------------------------- MODULE GeminiAdapters ---------------------------
(***************************************************************************)
(* The two adapters that ask Gemini something for a consumer of            *)
(* ai-service: GeminiActorAgent.explain_batch behind FallbackActorAgent in *)
(* the ac consumer, and GeminiClassifier.classify in the job consumer.     *)
(* Each consumer is sequential and has an adapter, a CircuitBreaker and an *)
(* LLMCache of its own; "agent" says which of them this is.                *)
(*                                                                         *)
(* A request is a non-empty batch with its reader's profile, or a          *)
(* non-empty text.  KeyOf is the data its cache key is made of: the        *)
(* user's id with the sorted job ids, or the first 200 characters.         *)
(*                                                                         *)
(* What Gemini writes is told apart by what the adapters make of it:       *)
(*   "whole"  an object with what was asked for                            *)
(*   "blank"  as many explanations as jobs, one of them empty              *)
(*   "other"  an object of another shape, or a JSON string                 *)
(*   "list"   JSON, but no object                                          *)
(*   "text"   no JSON                                                      *)
(***************************************************************************)
EXTENDS Naturals

CONSTANTS
    Requests,
    Keys,
    KeyOf,       \* KeyOf[r]: the cache key of r
    Threshold,   \* failure_threshold of the breaker
    MaxRetries   \* of a request answered with status 429

ASSUME ConstantsAssumption ==
    /\ KeyOf \in [Requests -> Keys]
    /\ Threshold \in Nat \ {0}
    /\ MaxRetries \in Nat

VARIABLES
    agent,    \* "actor" or "classifier"
    breaker,
    cache,    \* cache[k]: the response stored under k
    call,     \* the call in progress
    answer,   \* what the last finished call returned, and to which request
    ending    \* how the last call that the breaker let through ended

vars == <<agent, breaker, cache, call, answer, ending>>

Forms == {"whole", "blank", "other", "list", "text"}
FormsOf(a) == IF a = "actor" THEN Forms ELSE Forms \ {"blank"}

Response == [of : Requests, form : Forms]
NoResponse == [of |-> {}, form |-> "none"]

Breaker == [fails : 0 .. Threshold, opened : {"no", "until", "over"}, probe : BOOLEAN]
Fresh == [fails |-> 0, opened |-> "no", probe |-> FALSE]

(***************************************************************************)
(* An answer: Gemini's response "of" a request, the rule-based             *)
(* explanations, the empty classification, or an exception.                *)
(***************************************************************************)
Rules == [of |-> {}, form |-> "rules"]
Empty == [of |-> {}, form |-> "empty"]
Raised == [of |-> {}, form |-> "raised"]

Idle == [pc |-> "idle"]

Init ==
    /\ agent \in {"actor", "classifier"}
    /\ breaker = Fresh
    /\ cache = [k \in Keys |-> NoResponse]
    /\ call = Idle
    /\ answer = [to |-> {}, is |-> Empty]
    /\ ending = "settled"

-----------------------------------------------------------------------------
(* The breaker.  Its methods hold its lock: each is one step.              *)

Admits == breaker.opened = "no" \/ (breaker.opened = "over" /\ ~breaker.probe)

Admit == breaker' = [breaker EXCEPT !.probe = @ \/ breaker.opened = "over"]

RecordSuccess == breaker' = Fresh

\* Mutant of RecordFailure: a failed probe is still in flight.
MutRecordFailure ==
    LET n == IF breaker.opened # "no" \/ breaker.probe THEN Threshold ELSE breaker.fails + 1
    IN  breaker' = [breaker EXCEPT !.fails = n,
                                   !.opened = IF n >= Threshold THEN "until" ELSE @]

RecordFailure ==
    LET n == IF breaker.opened # "no" \/ breaker.probe THEN Threshold ELSE breaker.fails + 1
    IN  breaker' = [fails  |-> n,
                    opened |-> IF n >= Threshold THEN "until" ELSE breaker.opened,
                    probe  |-> FALSE]

\* open_interval_sec has passed.
CoolDown ==
    /\ breaker.opened = "until"
    /\ breaker' = [breaker EXCEPT !.opened = "over"]
    /\ UNCHANGED <<agent, cache, call, answer, ending>>

-----------------------------------------------------------------------------
(* What the callers make of a response.                                    *)

NoAnswer == IF agent = "actor" THEN Rules ELSE Empty

\* Mutant of Accepted: the fallback takes over on a wrong number only.
MutAccepted(resp) ==
    IF resp.form \in {"whole", "blank"} THEN resp ELSE NoAnswer

(***************************************************************************)
(* FallbackActorAgent keeps the explanations when there is one for every   *)
(* job and none is empty, and else has the rules write them.  The          *)
(* classifier has no fallback: it reads what it knows out of an object and *)
(* returns {} when there is nothing.                                       *)
(***************************************************************************)
Accepted(resp) == IF resp.form = "whole" THEN resp ELSE NoAnswer

Finish(is) ==
    /\ call' = Idle
    /\ answer' = [to |-> call.req, is |-> is]

-----------------------------------------------------------------------------
(* A call.                                                                 *)

Refused(r) ==
    /\ call = Idle
    /\ ~Admits
    /\ answer' = [to |-> r, is |-> NoAnswer]
    /\ UNCHANGED <<agent, breaker, cache, call, ending>>

Begin(r) ==
    /\ call = Idle
    /\ Admits
    /\ Admit
    /\ call' = [pc |-> "cache", req |-> r]
    /\ UNCHANGED <<agent, cache, answer, ending>>

Key == KeyOf[call.req]

(***************************************************************************)
(* The actor takes a cached list of the right length, the classifier a     *)
(* cached object.  Other entries are passed over, but the classifier       *)
(* parses a cached array a second time, which is a TypeError that classify *)
(* does not catch.  None of these exits tells the breaker.                 *)
(***************************************************************************)
Usable == IF agent = "actor" THEN {"whole", "blank"} ELSE {"whole", "other"}

CacheHit ==
    /\ call.pc = "cache"
    /\ cache[Key].form \in Usable
    /\ Finish(Accepted(cache[Key]))
    /\ ending' = "cached"
    /\ UNCHANGED <<agent, breaker, cache>>

CacheRaises ==
    /\ call.pc = "cache"
    /\ agent = "classifier"
    /\ cache[Key].form = "list"
    /\ Finish(Raised)
    /\ ending' = "raised"
    /\ UNCHANGED <<agent, breaker, cache>>

\* No such entry, one of no use, or an error of Redis.
CacheMiss ==
    /\ call.pc = "cache"
    /\ call' = [pc |-> "api", req |-> call.req, tries |-> 0]
    /\ UNCHANGED <<agent, breaker, cache, answer, ending>>

\* Only the actor waits and repeats.
TooMany ==
    /\ call.pc = "api"
    /\ agent = "actor"
    /\ call.tries < MaxRetries
    /\ call' = [call EXCEPT !.tries = @ + 1]
    /\ UNCHANGED <<agent, breaker, cache, answer, ending>>

\* The raw response is stored, whatever it is worth; Redis may not take it.
Replies ==
    /\ call.pc = "api"
    /\ \E f \in FormsOf(agent) :
           LET resp == [of |-> call.req, form |-> f]
           IN  /\ \/ cache' = [cache EXCEPT ![Key] = resp]
                  \/ UNCHANGED cache
               /\ Finish(Accepted(resp))
    /\ RecordSuccess
    /\ ending' = "settled"
    /\ UNCHANGED agent

\* A reply without candidates: the classifier does not store it.
RepliesNothing ==
    /\ call.pc = "api"
    /\ agent = "classifier"
    /\ Finish(Empty)
    /\ RecordSuccess
    /\ ending' = "settled"
    /\ UNCHANGED <<agent, cache>>

\* For the actor any exception, after which the rules take over; for the classifier those it names.
Fails ==
    /\ call.pc = "api"
    /\ RecordFailure
    /\ Finish(NoAnswer)
    /\ ending' = "settled"
    /\ UNCHANGED <<agent, cache>>

(***************************************************************************)
(* The connection breaks while the body is read, or the reply has another  *)
(* structure: exceptions that classify names nowhere.                      *)
(***************************************************************************)
Escapes ==
    /\ call.pc = "api"
    /\ agent = "classifier"
    /\ Finish(Raised)
    /\ ending' = "raised"
    /\ UNCHANGED <<agent, breaker, cache>>

\* ttl_seconds after it was stored.
Expire(k) ==
    /\ cache[k] # NoResponse
    /\ cache' = [cache EXCEPT ![k] = NoResponse]
    /\ UNCHANGED <<agent, breaker, call, answer, ending>>

\* The cache is in Redis, the breaker in the process.
Restart ==
    /\ breaker' = Fresh
    /\ call' = Idle
    /\ UNCHANGED <<agent, cache, answer, ending>>

Next ==
    \/ \E r \in Requests : Refused(r) \/ Begin(r)
    \/ CacheHit \/ CacheRaises \/ CacheMiss
    \/ TooMany \/ Replies \/ RepliesNothing \/ Fails \/ Escapes
    \/ CoolDown
    \/ \E k \in Keys : Expire(k)
    \/ Restart

Spec == Init /\ [][Next]_vars

-----------------------------------------------------------------------------
TypeOK ==
    /\ agent \in {"actor", "classifier"}
    /\ breaker \in Breaker
    /\ cache \in [Keys -> Response \cup {NoResponse}]
    /\ call \in {Idle} \cup [pc : {"cache"}, req : Requests]
                \cup [pc : {"api"}, req : Requests, tries : 0 .. MaxRetries]
    /\ answer \in [to : Requests \cup {{}}, is : Response \cup {Rules, Empty, Raised}]
    /\ ending \in {"settled", "cached", "raised"}

(***************************************************************************)
(* Between calls the recovery probe is in flight only if the call that was *)
(* let through as the probe was answered from the cache or left classify   *)
(* by an exception it does not name.  Whatever else becomes of a probe,    *)
(* the breaker learns of it: while the probe is in flight every request is *)
(* refused, so a probe that is not accounted for disables the adapter      *)
(* until the process restarts.                                             *)
(***************************************************************************)
ProbeIsSettled ==
    call = Idle /\ breaker.probe => ending \in {"cached", "raised"}

(***************************************************************************)
(* What the consumer works with, when it is of Gemini's writing, answers a *)
(* request with the same cache key and is whole: an explanation for every  *)
(* job, or a classification.  It is never a list of the wrong length, an   *)
(* empty explanation, or what was stored under another key.                *)
(***************************************************************************)
AnswerFits ==
    answer.is.form \in Forms =>
        /\ KeyOf[answer.is.of] = KeyOf[answer.to]
        /\ answer.is.form = "whole"
=============================================================================
