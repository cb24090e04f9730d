-------------------------- MODULE TelegramBreaker --------------------------
(***************************************************************************)
(* The circuit breaker of the notifier's Telegram client and the retry     *)
(* loop of Notifier.Send around it.  The main loop and the cron jobs of    *)
(* backend-notifier call Send concurrently on one Notifier.                *)
(*                                                                         *)
(* The breaker's methods run under its mutex, so each is one step.  What   *)
(* is sent and how long a delay lasts is left out; that the open interval  *)
(* has yet to pass is what "cooling" says.                                 *)
(***************************************************************************)
EXTENDS Integers, FiniteSets

CONSTANTS
    Senders,      \* the goroutines that call Send
    MaxAttempts,  \* NOTIFIER_MAX_RETRIES: attempts of one Send
    Threshold,    \* NOTIFIER_BREAKER_FAILURE_THRESHOLD
    Cancellable   \* senders whose context may end during a Send: the cron jobs

ASSUME BreakerAssumption ==
    /\ IsFiniteSet(Senders)
    /\ MaxAttempts \in Nat \ {0}
    /\ Threshold \in Nat \ {0}
    /\ Cancellable \subseteq Senders

VARIABLES
    state,     \* of the circuit breaker
    failures,  \* Sends that failed in a row
    inFlight,  \* halfOpenInFlight
    cooling,   \* openedUntil lies in the future
    call,      \* call[s]: what s is doing
    probes,    \* senders admitted since the breaker last became half-open
    healed,    \* Telegram's outage is over
    orphaned   \* history: the recorded probe left its Send unmarked

breaker == <<state, failures, inFlight, cooling>>
breakerVars == <<breaker, call, probes, healed, orphaned>>

Call == [pc : {"idle", "before", "request", "wait"},
         attempt : 0 .. MaxAttempts - 1,
         limited : BOOLEAN,   \* an attempt was answered with status 429
         ended : BOOLEAN]     \* the caller's context has ended

NoCall == [pc |-> "idle", attempt |-> 0, limited |-> FALSE, ended |-> FALSE]

BreakerTypeOK ==
    /\ state \in {"closed", "open", "halfOpen"}
    /\ failures \in 0 .. Threshold - 1
    /\ inFlight \in BOOLEAN
    /\ cooling \in BOOLEAN
    /\ call \in [Senders -> Call]
    /\ probes \subseteq Senders
    /\ healed \in BOOLEAN
    /\ orphaned \in BOOLEAN

BreakerInit ==
    /\ state = "closed"
    /\ failures = 0
    /\ inFlight = FALSE
    /\ cooling = FALSE
    /\ call = [s \in Senders |-> NoCall]
    /\ probes = {}
    /\ healed = FALSE
    /\ orphaned = FALSE

-----------------------------------------------------------------------------
(* The methods of circuitBreaker.                                          *)

\* Mutant of Admit: the probe is not recorded.
MutAdmit(s) ==
    IF state = "closed"
    THEN UNCHANGED <<breaker, probes>>
    ELSE /\ state' = "halfOpen"
         /\ inFlight' = FALSE
         /\ probes' = IF state = "open" THEN {s} ELSE probes \cup {s}
         /\ UNCHANGED <<failures, cooling>>

\* beforeRequest lets a request through: always when closed, and as the probe
\* when half-open, which an open breaker becomes here.
Admit(s) ==
    IF state = "closed"
    THEN UNCHANGED <<breaker, probes>>
    ELSE /\ state' = "halfOpen"
         /\ inFlight' = TRUE
         /\ probes' = IF state = "open" THEN {s} ELSE probes \cup {s}
         /\ UNCHANGED <<failures, cooling>>

\* beforeRequest holds a request back.
Refuses ==
    \/ state = "open" /\ cooling
    \/ state = "halfOpen" /\ inFlight

MarkSuccess ==
    /\ state' = "closed"
    /\ failures' = 0
    /\ inFlight' = FALSE
    /\ cooling' = FALSE

\* Mutant of MarkPermanentFailure: an answer that refuses the message is not
\* taken for a sign of life.
MutMarkPermanentFailure ==
    /\ failures' = 0
    /\ UNCHANGED <<state, inFlight, cooling>>

MarkPermanentFailure ==
    /\ state' = IF state = "halfOpen" THEN "closed" ELSE state
    /\ failures' = 0
    /\ inFlight' = FALSE
    /\ UNCHANGED cooling

Open ==
    /\ state' = "open"
    /\ failures' = 0
    /\ inFlight' = FALSE
    /\ cooling' = TRUE

\* Mutant of MarkTransientFailure: ">" for ">=".
MutMarkTransientFailure(limited) ==
    IF state = "halfOpen" \/ limited \/ failures + 1 > Threshold
    THEN Open
    ELSE /\ failures' = failures + 1
         /\ inFlight' = FALSE
         /\ UNCHANGED <<state, cooling>>

\* A probe that fails opens the breaker again, a 429 opens it at once, other
\* failures when there are Threshold of them: whatever the state is.
MarkTransientFailure(limited) ==
    IF state = "halfOpen" \/ limited \/ failures + 1 >= Threshold
    THEN Open
    ELSE /\ failures' = failures + 1
         /\ inFlight' = FALSE
         /\ UNCHANGED <<state, cooling>>

-----------------------------------------------------------------------------
(* Notifier.Send.                                                          *)

Begin(s) ==
    /\ call[s].pc = "idle"
    /\ call' = [call EXCEPT ![s].pc = "before"]
    /\ UNCHANGED <<breaker, probes, healed, orphaned>>

\* beforeRequest does not look at the context.
Attempt(s) ==
    /\ call[s].pc = "before"
    /\ ~Refuses
    /\ Admit(s)
    /\ call' = [call EXCEPT ![s].pc = "request"]
    /\ UNCHANGED <<healed, orphaned>>

\* This Send was let through as the probe that the breaker has on record.
IsProbe(s) ==
    /\ state = "halfOpen" /\ inFlight
    /\ s \in probes
    /\ call[s].pc = "wait" \/ call[s].attempt > 0

\* Send returns without a word to the breaker.  If it was the recorded probe
\* the flag stays, and nobody is left to clear it.
Leave(s) ==
    /\ call' = [call EXCEPT ![s] = NoCall]
    /\ orphaned' = (orphaned \/ IsProbe(s))
    /\ UNCHANGED <<breaker, probes, healed>>

\* Send returns newCircuitOpenError, whichever attempt it is.
CircuitOpen(s) ==
    /\ call[s].pc = "before"
    /\ Refuses
    /\ Leave(s)

\* Telegram accepts the message, or refuses it for good.
Answered(s) ==
    /\ call[s].pc = "request"
    /\ MarkSuccess \/ MarkPermanentFailure
    /\ call' = [call EXCEPT ![s] = NoCall]
    /\ orphaned' = FALSE
    /\ UNCHANGED <<probes, healed>>

\* A request fails without an answer, with a server error or with a 429 while
\* Telegram is down; without an answer also when the context has ended.
RequestFails(s, limited) ==
    /\ call[s].pc = "request"
    /\ ~healed \/ (call[s].ended /\ ~limited)

\* There are attempts left.
RetryLater(s, limited) ==
    /\ RequestFails(s, limited)
    /\ call[s].attempt < MaxAttempts - 1
    /\ call' = [call EXCEPT ![s].pc = "wait", ![s].limited = @ \/ limited]
    /\ UNCHANGED <<breaker, probes, healed, orphaned>>

\* The same, at the last attempt: only now is the breaker told.
GiveUp(s, limited) ==
    /\ RequestFails(s, limited)
    /\ call[s].attempt = MaxAttempts - 1
    /\ MarkTransientFailure(limited \/ call[s].limited)
    /\ call' = [call EXCEPT ![s] = NoCall]
    /\ orphaned' = FALSE
    /\ UNCHANGED <<probes, healed>>

\* waitForRetry ends with its timer, or with the context: then Send returns.
Waited(s) ==
    /\ call[s].pc = "wait"
    /\ ~call[s].ended
    /\ call' = [call EXCEPT ![s].pc = "before", ![s].attempt = @ + 1]
    /\ UNCHANGED <<breaker, probes, healed, orphaned>>

Cancelled(s) ==
    /\ call[s].pc = "wait"
    /\ call[s].ended
    /\ Leave(s)

\* The context of a cron job ends, wherever its Send is.
CtxEnds(s) ==
    /\ s \in Cancellable
    /\ call[s].pc # "idle"
    /\ ~call[s].ended
    /\ call' = [call EXCEPT ![s].ended = TRUE]
    /\ UNCHANGED <<breaker, probes, healed, orphaned>>

\* The open interval passes.
CoolDown ==
    /\ cooling
    /\ cooling' = FALSE
    /\ UNCHANGED <<state, failures, inFlight, call, probes, healed, orphaned>>

\* Telegram answers every request from now on.
Heal ==
    /\ ~healed
    /\ healed' = TRUE
    /\ UNCHANGED <<breaker, call, probes, orphaned>>

SendStep(s) ==
    \/ Attempt(s) \/ CircuitOpen(s) \/ Answered(s) \/ Waited(s) \/ Cancelled(s)
    \/ \E limited \in BOOLEAN : RetryLater(s, limited) \/ GiveUp(s, limited)

BreakerNext ==
    \/ \E s \in Senders : Begin(s) \/ SendStep(s) \/ CtxEnds(s)
    \/ CoolDown
    \/ Heal

BreakerSpec == BreakerInit /\ [][BreakerNext]_breakerVars

\* A Send that has begun goes on: requests and waits have timeouts.  There is
\* always something to send, refused messages being queued again.  Time passes.
BreakerFairness ==
    /\ \A s \in Senders : WF_breakerVars(Begin(s)) /\ WF_breakerVars(SendStep(s))
    /\ WF_breakerVars(CoolDown)

BreakerFairSpec == BreakerSpec /\ BreakerFairness

-----------------------------------------------------------------------------
\* While the breaker is half-open no more than one sender has been let through.
OneProbe == state = "halfOpen" => Cardinality(probes) <= 1

\* When Telegram's outage is over the breaker closes, unless a probe leaves its
\* Send unmarked: because its context ended, or because its second attempt was
\* refused by the flag its first one had set.  No other order of answers,
\* stragglers, failures and cooldowns keeps the breaker from closing.
RecoversUnlessOrphaned == healed ~> state = "closed" \/ orphaned
=============================================================================
