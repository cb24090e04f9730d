------------------------ MODULE GeminiAdaptersProofs ------------------------
(***************************************************************************)
(* ProbeIsSettled and AnswerFits of GeminiAdapters for every set of        *)
(* requests, every key function and every threshold.                       *)
(***************************************************************************)
EXTENDS GeminiAdapters, TLAPS

\* The breaker opens when the count reaches the threshold.
CountInv == breaker.opened = "no" => breaker.fails < Threshold

\* A key holds what answered a request with that key.
KeysInv == \A k \in Keys : cache[k] # NoResponse => KeyOf[cache[k].of] = k

IInv == TypeOK /\ CountInv /\ KeysInv

(* What the breaker's three methods leave: the two that report an outcome  *)
(* leave no probe behind.                                                  *)
LEMMA BreakerSteps ==
    ASSUME breaker \in Breaker, CountInv
    PROVE  /\ Admit => breaker' \in Breaker /\ CountInv'
           /\ RecordSuccess => breaker' \in Breaker /\ CountInv' /\ ~breaker'.probe
           /\ RecordFailure => breaker' \in Breaker /\ CountInv' /\ ~breaker'.probe
<1>1. Threshold \in Nat \ {0}  BY ConstantsAssumption
<1>2. /\ breaker.fails \in 0 .. Threshold
      /\ breaker.opened \in {"no", "until", "over"}
      /\ breaker.probe \in BOOLEAN
  BY DEF Breaker
<1>3. Admit => breaker' \in Breaker /\ CountInv'
  BY <1>1 DEF Admit, Breaker, CountInv
<1>4. RecordSuccess => breaker' \in Breaker /\ CountInv' /\ ~breaker'.probe
  BY <1>1 DEF RecordSuccess, Fresh, Breaker, CountInv
<1>5. RecordFailure => breaker' \in Breaker /\ CountInv' /\ ~breaker'.probe
  <2> SUFFICES ASSUME RecordFailure
               PROVE  breaker' \in Breaker /\ CountInv' /\ ~breaker'.probe
    OBVIOUS
  <2>1. CASE breaker.opened # "no" \/ breaker.probe
    BY <1>1, <1>2, <2>1 DEF RecordFailure, Breaker, CountInv
  <2>2. CASE ~(breaker.opened # "no" \/ breaker.probe)
    BY <1>1, <1>2, <2>2 DEF RecordFailure, Breaker, CountInv
  <2> QED  BY <2>1, <2>2
<1> QED  BY <1>3, <1>4, <1>5

(* The calls in progress and what they are about.                          *)
LEMMA CallTyped ==
    ASSUME TypeOK, call.pc \in {"cache", "api"}
    PROVE  /\ call.req \in Requests
           /\ KeyOf[call.req] \in Keys
           /\ cache[KeyOf[call.req]] \in Response \cup {NoResponse}
           /\ call.pc = "api" => call = [pc |-> "api", req |-> call.req, tries |-> call.tries]
                                 /\ call.tries \in 0 .. MaxRetries
<1>1. call.req \in Requests  BY DEF TypeOK, Idle
<1>2. KeyOf[call.req] \in Keys  BY <1>1, ConstantsAssumption
<1>3. cache[KeyOf[call.req]] \in Response \cup {NoResponse}  BY <1>2 DEF TypeOK
<1>4. call.pc = "api" => call = [pc |-> "api", req |-> call.req, tries |-> call.tries]
                         /\ call.tries \in 0 .. MaxRetries
  BY DEF TypeOK, Idle
<1> QED  BY <1>1, <1>2, <1>3, <1>4

(* What Finish and Accepted make of a response.                            *)
LEMMA AcceptedTyped ==
    ASSUME NEW resp \in Response \cup {NoResponse}
    PROVE  /\ Accepted(resp) \in Response \cup {Rules, Empty}
           /\ NoAnswer \in {Rules, Empty}
           /\ Accepted(resp).form \in Forms =>
                  /\ Accepted(resp) = resp
                  /\ resp \in Response
                  /\ resp.form = "whole"
           /\ NoAnswer.form \notin Forms
           /\ Raised.form \notin Forms
BY DEF Accepted, NoAnswer, Rules, Empty, Raised, Response, NoResponse, Forms

(* The typing of the state and the keys of the cache are inductive.        *)
LEMMA Inductive == IInv /\ [Next]_vars => IInv'
<1> SUFFICES ASSUME IInv, [Next]_vars  PROVE IInv'
  OBVIOUS
<1> USE DEF IInv
<1>0. breaker \in Breaker /\ CountInv  BY DEF TypeOK
<1>1. ASSUME NEW r \in Requests, Refused(r)  PROVE IInv'
  <2>1. NoAnswer \in {Rules, Empty}  BY DEF NoAnswer
  <2> QED  BY <1>1, <2>1 DEF Refused, TypeOK, CountInv, KeysInv
<1>2. ASSUME NEW r \in Requests, Begin(r)  PROVE IInv'
  <2>1. breaker' \in Breaker /\ CountInv'  BY <1>0, <1>2, BreakerSteps DEF Begin
  <2>2. TypeOK'  BY <1>2, <2>1 DEF Begin, TypeOK
  <2> QED  BY <1>2, <2>1, <2>2 DEF Begin, KeysInv
<1>3. CASE CacheHit
  <2>1. call.req \in Requests /\ cache[Key] \in Response \cup {NoResponse}
    BY <1>3, CallTyped DEF CacheHit, Key
  <2>2. Accepted(cache[Key]) \in Response \cup {Rules, Empty}
    BY <2>1, AcceptedTyped
  <2>3. TypeOK'  BY <1>3, <2>1, <2>2 DEF CacheHit, Finish, TypeOK
  <2> QED  BY <1>3, <2>3 DEF CacheHit, CountInv, KeysInv
<1>4. CASE CacheRaises
  <2>1. call.req \in Requests  BY <1>4, CallTyped DEF CacheRaises
  <2>2. TypeOK'  BY <1>4, <2>1 DEF CacheRaises, Finish, TypeOK
  <2> QED  BY <1>4, <2>2 DEF CacheRaises, CountInv, KeysInv
<1>5. CASE CacheMiss
  <2>1. call.req \in Requests  BY <1>5, CallTyped DEF CacheMiss
  <2>2. 0 \in 0 .. MaxRetries  BY ConstantsAssumption
  <2>3. TypeOK'  BY <1>5, <2>1, <2>2 DEF CacheMiss, TypeOK
  <2> QED  BY <1>5, <2>3 DEF CacheMiss, CountInv, KeysInv
<1>6. CASE TooMany
  <2>1. /\ call.req \in Requests
        /\ call = [pc |-> "api", req |-> call.req, tries |-> call.tries]
        /\ call.tries \in 0 .. MaxRetries
    BY <1>6, CallTyped DEF TooMany
  <2>2. call.tries + 1 \in 0 .. MaxRetries
    BY <1>6, <2>1, ConstantsAssumption DEF TooMany
  <2>3. call' = [pc |-> "api", req |-> call.req, tries |-> call.tries + 1]
    BY <1>6, <2>1 DEF TooMany
  <2>4. TypeOK'  BY <1>6, <2>1, <2>2, <2>3 DEF TooMany, TypeOK
  <2> QED  BY <1>6, <2>4 DEF TooMany, CountInv, KeysInv
<1>7. CASE Replies
  <2>1. call.req \in Requests /\ Key \in Keys  BY <1>7, CallTyped DEF Replies, Key
  <2>2. breaker' \in Breaker /\ CountInv'  BY <1>0, <1>7, BreakerSteps DEF Replies
  <2>3. PICK f \in FormsOf(agent) :
           /\ \/ cache' = [cache EXCEPT ![Key] = [of |-> call.req, form |-> f]]
              \/ UNCHANGED cache
           /\ Finish(Accepted([of |-> call.req, form |-> f]))
    BY <1>7 DEF Replies
  <2>4. [of |-> call.req, form |-> f] \in Response
    BY <2>1 DEF Response, FormsOf, Forms
  <2>5. cache' \in [Keys -> Response \cup {NoResponse}]
    BY <2>1, <2>3, <2>4 DEF TypeOK
  <2>6. Accepted([of |-> call.req, form |-> f]) \in Response \cup {Rules, Empty}
    BY <2>4, AcceptedTyped
  <2>7. TypeOK'
    BY <1>7, <2>1, <2>2, <2>3, <2>5, <2>6 DEF Replies, Finish, TypeOK
  <2>8. KeysInv'
    BY <2>1, <2>3 DEF KeysInv, TypeOK, Key
  <2> QED  BY <2>2, <2>7, <2>8
<1>8. CASE RepliesNothing
  <2>1. call.req \in Requests  BY <1>8, CallTyped DEF RepliesNothing
  <2>2. breaker' \in Breaker /\ CountInv'  BY <1>0, <1>8, BreakerSteps DEF RepliesNothing
  <2>3. TypeOK'  BY <1>8, <2>1, <2>2 DEF RepliesNothing, Finish, TypeOK
  <2> QED  BY <1>8, <2>2, <2>3 DEF RepliesNothing, KeysInv
<1>9. CASE Fails
  <2>1. call.req \in Requests  BY <1>9, CallTyped DEF Fails
  <2>2. breaker' \in Breaker /\ CountInv'  BY <1>0, <1>9, BreakerSteps DEF Fails
  <2>3. NoAnswer \in {Rules, Empty}  BY DEF NoAnswer
  <2>4. TypeOK'  BY <1>9, <2>1, <2>2, <2>3 DEF Fails, Finish, TypeOK
  <2> QED  BY <1>9, <2>2, <2>4 DEF Fails, KeysInv
<1>10. CASE Escapes
  <2>1. call.req \in Requests  BY <1>10, CallTyped DEF Escapes
  <2>2. TypeOK'  BY <1>10, <2>1 DEF Escapes, Finish, TypeOK
  <2> QED  BY <1>10, <2>2 DEF Escapes, CountInv, KeysInv
<1>11. CASE CoolDown
  BY <1>11 DEF CoolDown, TypeOK, Breaker, CountInv, KeysInv
<1>12. ASSUME NEW k \in Keys, Expire(k)  PROVE IInv'
  <2>1. TypeOK'  BY <1>12 DEF Expire, TypeOK
  <2>2. KeysInv'  BY <1>12 DEF Expire, TypeOK, KeysInv
  <2> QED  BY <1>12, <2>1, <2>2 DEF Expire, CountInv
<1>13. CASE Restart
  <2>1. breaker' \in Breaker /\ CountInv'
    BY <1>13, ConstantsAssumption DEF Restart, Fresh, Breaker, CountInv
  <2>2. TypeOK'  BY <1>13, <2>1 DEF Restart, TypeOK
  <2> QED  BY <1>13, <2>1, <2>2 DEF Restart, KeysInv
<1>14. CASE UNCHANGED vars
  BY <1>14 DEF vars, TypeOK, CountInv, KeysInv
<1> QED
  BY <1>1, <1>2, <1>3, <1>4, <1>5, <1>6, <1>7, <1>8, <1>9, <1>10, <1>11, <1>12, <1>13, <1>14
  DEF Next

LEMMA Initial == Init => IInv /\ ProbeIsSettled /\ AnswerFits
<1> SUFFICES ASSUME Init  PROVE IInv /\ ProbeIsSettled /\ AnswerFits
  OBVIOUS
<1>1. breaker \in Breaker /\ CountInv
  BY ConstantsAssumption DEF Init, Fresh, Breaker, CountInv
<1>2. TypeOK  BY <1>1 DEF Init, TypeOK
<1>3. KeysInv  BY DEF Init, KeysInv
<1>4. ProbeIsSettled  BY DEF Init, Fresh, ProbeIsSettled
<1>5. AnswerFits  BY DEF Init, AnswerFits, Empty, Forms
<1> QED  BY <1>1, <1>2, <1>3, <1>4, <1>5 DEF IInv

LEMMA AlwaysIInv == Spec => []IInv
BY Initial, Inductive, PTL DEF Spec

-----------------------------------------------------------------------------
(* Every exit of a call tells the breaker or is recorded in "ending", and  *)
(* a refused call changes neither.                                         *)
THEOREM ProbeSettled == Spec => []ProbeIsSettled
<1>1. IInv /\ ProbeIsSettled /\ [Next]_vars => ProbeIsSettled'
  <2> SUFFICES ASSUME IInv, ProbeIsSettled, [Next]_vars, call' = Idle, breaker'.probe
               PROVE  ending' \in {"cached", "raised"}
    BY DEF ProbeIsSettled
  <2>0. breaker \in Breaker /\ CountInv  BY DEF IInv, TypeOK
  <2>1. ASSUME NEW r \in Requests, Refused(r)  PROVE ending' \in {"cached", "raised"}
    BY <2>1 DEF Refused, ProbeIsSettled
  <2>2. ASSUME NEW r \in Requests, Begin(r)  PROVE FALSE
    <3>1. call'.pc = "cache"  BY <2>2 DEF Begin
    <3> QED  BY <3>1 DEF Idle
  <2>3. CASE CacheHit \/ CacheRaises \/ Escapes
    BY <2>3 DEF CacheHit, CacheRaises, Escapes
  <2>4. CASE CacheMiss
    <3>1. call'.pc = "api"  BY <2>4 DEF CacheMiss
    <3> QED  BY <3>1 DEF Idle
  <2>5. CASE TooMany
    <3>1. call = [pc |-> "api", req |-> call.req, tries |-> call.tries]
      BY <2>5, CallTyped DEF TooMany, IInv
    <3>2. call'.pc = "api"  BY <2>5, <3>1 DEF TooMany
    <3> QED  BY <3>2 DEF Idle
  <2>6. CASE Replies \/ RepliesNothing \/ Fails
    BY <2>0, <2>6, BreakerSteps DEF Replies, RepliesNothing, Fails
  <2>7. CASE CoolDown
    <3>1. breaker'.probe = breaker.probe  BY <2>0, <2>7 DEF CoolDown, Breaker
    <3> QED  BY <2>7, <3>1 DEF CoolDown, ProbeIsSettled
  <2>8. ASSUME NEW k \in Keys, Expire(k)  PROVE ending' \in {"cached", "raised"}
    BY <2>8 DEF Expire, ProbeIsSettled
  <2>9. CASE Restart
    BY <2>9 DEF Restart, Fresh
  <2>10. CASE UNCHANGED vars
    BY <2>10 DEF vars, ProbeIsSettled
  <2> QED
    BY <2>1, <2>2, <2>3, <2>4, <2>5, <2>6, <2>7, <2>8, <2>9, <2>10 DEF Next
<1> QED  BY Initial, AlwaysIInv, <1>1, PTL DEF Spec

(* What a call returns is Gemini's own reply to it, or what KeysInv says   *)
(* of the entry under its key.                                             *)
THEOREM AnswersFit == Spec => []AnswerFits
<1>1. IInv /\ AnswerFits /\ [Next]_vars => AnswerFits'
  <2> SUFFICES ASSUME IInv, AnswerFits, [Next]_vars, answer'.is.form \in Forms
               PROVE  /\ KeyOf[answer'.is.of] = KeyOf[answer'.to]
                      /\ answer'.is.form = "whole"
    BY DEF AnswerFits
  <2> DEFINE Fits == /\ KeyOf[answer'.is.of] = KeyOf[answer'.to]
                     /\ answer'.is.form = "whole"
  <2>0. NoAnswer.form \notin Forms /\ Raised.form \notin Forms /\ Empty.form \notin Forms
    BY DEF NoAnswer, Rules, Empty, Raised, Forms
  <2>1. ASSUME UNCHANGED answer  PROVE Fits
    BY <2>1 DEF AnswerFits
  <2>2. ASSUME NEW r \in Requests, Refused(r)  PROVE Fits
    <3>1. answer'.is = NoAnswer  BY <2>2 DEF Refused
    <3> QED  BY <2>0, <3>1
  <2>3. CASE CacheHit
    <3>1. /\ Key \in Keys
          /\ cache[Key] \in Response \cup {NoResponse}
      BY <2>3, CallTyped DEF CacheHit, Key, IInv
    <3>2. answer'.to = call.req /\ answer'.is = Accepted(cache[Key])
      BY <2>3 DEF CacheHit, Finish
    <3>3. /\ answer'.is = cache[Key]
          /\ cache[Key] \in Response
          /\ cache[Key].form = "whole"
      BY <3>1, <3>2, AcceptedTyped
    <3>4. cache[Key] # NoResponse  BY <3>3 DEF NoResponse
    <3> QED  BY <3>1, <3>2, <3>3, <3>4 DEF IInv, KeysInv, Key
  <2>4. CASE Replies
    <3>1. call.req \in Requests  BY <2>4, CallTyped DEF Replies, IInv
    <3>2. PICK f \in FormsOf(agent) : Finish(Accepted([of |-> call.req, form |-> f]))
      BY <2>4 DEF Replies
    <3>3. [of |-> call.req, form |-> f] \in Response
      BY <3>1 DEF Response, FormsOf, Forms
    <3>4. answer'.to = call.req /\ answer'.is = Accepted([of |-> call.req, form |-> f])
      BY <3>2 DEF Finish
    <3>5. answer'.is = [of |-> call.req, form |-> f] /\ f = "whole"
      BY <3>3, <3>4, AcceptedTyped
    <3> QED  BY <3>4, <3>5
  <2>5. CASE CacheRaises \/ RepliesNothing \/ Fails \/ Escapes
    <3>1. answer'.is \in {NoAnswer, Raised, Empty}
      BY <2>5 DEF CacheRaises, RepliesNothing, Fails, Escapes, Finish
    <3> QED  BY <2>0, <3>1
  <2>6. \/ UNCHANGED answer
        \/ \E r \in Requests : Refused(r)
        \/ CacheHit \/ Replies
        \/ CacheRaises \/ RepliesNothing \/ Fails \/ Escapes
    BY DEF Next, Begin, CacheMiss, TooMany, CoolDown, Expire, Restart, vars
  <2> QED  BY <2>1, <2>2, <2>3, <2>4, <2>5, <2>6
<1> QED  BY Initial, AlwaysIInv, <1>1, PTL DEF Spec
=============================================================================
