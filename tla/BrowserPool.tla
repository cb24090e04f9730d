----------------------------- MODULE BrowserPool -----------------------------
(***************************************************************************)
(* The browsers of browser-service: a pool of Chromium instances shared by *)
(* the render requests, recreated when a render or the health check        *)
(* reports one, and rebuilt as a whole with a new Playwright driver when   *)
(* the driver's transport is closed (browser_pool.py, main.py).            *)
(*                                                                         *)
(* Everything runs on one asyncio loop: an action is what happens between  *)
(* two awaits that can be overtaken.  The pool lock is held across close() *)
(* only, so a critical section is one step.  Faults (a browser or the      *)
(* driver dying, a launch or a page failing, a browser's age reaching the  *)
(* TTL) share the budget MaxFaults.                                        *)
(*                                                                         *)
(* The list _instances is the function pool: recreating an id replaces the *)
(* instance with that id, or adds one.  An id without an instance is like  *)
(* an unhealthy one that is closed.  Whoever keeps a reference to an       *)
(* instance that leaves the pool still knows its id, and whether Chromium  *)
(* was closed or goes on running outside the pool ("leaked").              *)
(***************************************************************************)
EXTENDS Integers, FiniteSets

CONSTANTS Render,        \* the requests served at the same time
          Slot,          \* recreations running in the background
          None,          \* nobody: the recovery lock is free
          PoolSize,      \* BROWSER_POOL_SIZE
          MaxConcurrent, \* BROWSER_MAX_CONCURRENT
          MaxRetries,    \* BROWSER_MAX_RETRIES
          QueueSize,     \* BROWSER_QUEUE_SIZE
          MaxPending,    \* bound on recreations of one id waiting to begin
          MaxFaults      \* bound on the faults of a behaviour

ASSUME SizesAssumption ==
    /\ PoolSize \in Nat \ {0} /\ MaxConcurrent \in Nat \ {0}
    /\ MaxRetries \in Nat \ {0} /\ MaxPending \in Nat \ {0}
    /\ QueueSize \in Nat /\ MaxFaults \in Nat
ASSUME NamesAssumption ==
    IsFiniteSet(Render) /\ Render \cap Slot = {} /\ None \notin Render \cup Slot

Id == 0 .. PoolSize - 1
Worker == Render \cup Slot    \* who runs a recreation: a render awaits its own

VARIABLES
    pool,     \* _instances: active, healthy, and whether Chromium runs
    driver,   \* _playwright, as the number of drivers started before it
    up,       \* whether that driver's transport is open
    task,     \* the recreation each worker runs
    pending,  \* recreations created or scheduled that have not begun, per id
    rlock,    \* the holder of _recovery_lock
    req,      \* the render requests
    check,    \* the copy of the pool the health check walks: where each one is
    short,    \* history: the last rebuild of the pool failed half-way
    faults    \* faults used

vars == <<pool, driver, up, task, pending, rlock, req, check, short, faults>>

Place == {"pool", "closed", "leaked"}
NoTask == [pc |-> "none", id |-> 0, drv |-> 0, alive |-> FALSE]
Idle == [pc |-> "idle", id |-> 0, at |-> "closed", attempt |-> 0, ok |-> FALSE,
         due |-> FALSE]    \* the health check has yet to come to its browser
New == [active |-> 0, healthy |-> TRUE, alive |-> TRUE]
Gone == [active |-> 0, healthy |-> FALSE, alive |-> FALSE]

Instances == [active : 0 .. MaxConcurrent, healthy : BOOLEAN, alive : BOOLEAN]
Tasks == [pc : {"none", "launch", "insert", "recover", "factory", "build", "install"},
          id : Id, drv : Nat, alive : BOOLEAN]
Requests == [pc : {"idle", "try", "busy", "wait", "clean"}, id : Id, at : Place,
             attempt : 0 .. MaxRetries, ok : BOOLEAN, due : BOOLEAN]

TypeOK ==
    /\ pool \in [Id -> Instances]
    /\ driver \in Nat
    /\ up \in BOOLEAN
    /\ task \in [Worker -> Tasks]
    /\ pending \in [Id -> 0 .. MaxPending]
    /\ rlock \in Worker \cup {None}
    /\ req \in [Render -> Requests]
    /\ check \in [Id -> Place \cup {"done"}]
    /\ short \in BOOLEAN
    /\ faults \in 0 .. MaxFaults

Dec(n) == IF n = 0 THEN 0 ELSE n - 1    \* max(0, n - 1)

\* Recreations of one id beyond the bound are not told apart.
Inc(n) == IF n = MaxPending THEN n ELSE n + 1

Fault == faults < MaxFaults /\ faults' = faults + 1

Running(i, at) == IF at = "pool" THEN pool[i].alive ELSE at = "leaked"

\* The instances of DOMAIN to leave one of the places from: whoever refers to
\* one keeps it.  The health check passes over those that are unhealthy already;
\* a request whose browser leaves the pool knows whether it has yet to come.
Leave(to, from) ==
    /\ req' = [r \in Render |->
           LET i == req[r].id IN
           IF i \notin DOMAIN to THEN req[r]
           ELSE [req[r] EXCEPT
                    !.at = IF @ \in from THEN to[i] ELSE @,
                    !.due = IF check[i] = "pool" THEN req[r].at = "pool" /\ pool[i].healthy
                            ELSE @]]
    /\ check' = [i \in Id |-> IF i \notin DOMAIN to \/ check[i] \notin from THEN check[i]
                              ELSE IF check[i] = "pool" /\ ~pool[i].healthy THEN "done"
                              ELSE to[i]]

-----------------------------------------------------------------------------
(* Recreation: _recreate_browser, _create_browser, _recover_transport.       *)

\* The recreation of id begins: failed_playwright is read and the launch awaited.
Launching(i) == [pc |-> "launch", id |-> i, drv |-> driver, alive |-> FALSE]

Start(s, i) ==
    /\ task[s].pc = "none" /\ pending[i] > 0
    /\ pending' = [pending EXCEPT ![i] = @ - 1]
    /\ task' = [task EXCEPT ![s] = Launching(i)]
    /\ UNCHANGED <<pool, driver, up, rlock, req, check, short, faults>>

LaunchOk(w) ==
    /\ task[w].pc = "launch" /\ task[w].drv = driver /\ up
    /\ task' = [task EXCEPT ![w].pc = "insert", ![w].alive = TRUE]
    /\ UNCHANGED <<pool, driver, up, pending, rlock, req, check, short, faults>>

\* Mutant of Retry: the failed recreation is given up.
MutRetry(w) ==
    /\ task' = [task EXCEPT ![w] = NoTask]
    /\ pending' = pending

\* What an exception leaves: _recreate_browser ends, a timer starts it again.
Retry(w) ==
    /\ task' = [task EXCEPT ![w] = NoTask]
    /\ pending' = [pending EXCEPT ![task[w].id] = Inc(@)]

LaunchFails(w) ==
    /\ task[w].pc = "launch"
    /\ Fault
    /\ Retry(w)
    /\ UNCHANGED <<pool, driver, up, rlock, req, check, short>>

\* The error says the transport is closed: it is, or the new browser died.
LaunchClosed(w) ==
    /\ task[w].pc = "launch"
    /\ IF task[w].drv = driver /\ up THEN Fault ELSE UNCHANGED faults
    /\ task' = [task EXCEPT ![w].pc = "recover"]
    /\ UNCHANGED <<pool, driver, up, pending, rlock, req, check, short>>

\* The new instance takes the place of the one with its id, which is closed.
Insert(w) ==
    /\ task[w].pc = "insert"
    /\ pool' = [pool EXCEPT ![task[w].id] = [New EXCEPT !.alive = task[w].alive]]
    /\ Leave([i \in {task[w].id} |-> "closed"], {"pool"})
    /\ task' = [task EXCEPT ![w] = NoTask]
    /\ UNCHANGED <<driver, up, pending, rlock, short, faults>>

\* Another task has replaced the driver already: nothing is left to do.
RecoverSkip(w) ==
    /\ task[w].pc = "recover" /\ task[w].drv # driver
    /\ task' = [task EXCEPT ![w] = NoTask]
    /\ UNCHANGED <<pool, driver, up, pending, rlock, req, check, short, faults>>

\* The pool is emptied, its browsers closed and the driver stopped, which ends
\* every browser it launched, the ones outside the pool too.
RecoverBegin(w) ==
    /\ task[w].pc = "recover" /\ task[w].drv = driver /\ rlock = None
    /\ rlock' = w
    /\ pool' = [i \in Id |-> Gone]
    /\ Leave([i \in Id |-> "closed"], {"pool", "leaked"})
    /\ up' = FALSE
    /\ task' = [v \in Worker |-> IF v = w THEN [task[w] EXCEPT !.pc = "factory"]
                                 ELSE [task[v] EXCEPT !.alive = FALSE]]
    /\ UNCHANGED <<driver, pending, short, faults>>

RecoverFactory(w) ==
    /\ task[w].pc = "factory"
    /\ driver' = driver + 1 /\ up' = TRUE
    /\ task' = [task EXCEPT ![w].pc = "build"]
    /\ UNCHANGED <<pool, pending, rlock, req, check, short, faults>>

\* Mutant of RecoverFactoryFails: the recovery lock is kept.
MutRecoverFactoryFails(w) ==
    /\ task[w].pc = "factory"
    /\ Fault
    /\ rlock' = rlock
    /\ Retry(w)
    /\ UNCHANGED <<pool, driver, up, req, check, short>>

\* The driver does not start: _playwright stays the stopped one, so the retry
\* finds its transport closed and recovers again.
RecoverFactoryFails(w) ==
    /\ task[w].pc = "factory"
    /\ Fault
    /\ rlock' = None
    /\ Retry(w)
    /\ UNCHANGED <<pool, driver, up, req, check, short>>

RecoverBuild(w) ==
    /\ task[w].pc = "build" /\ up
    /\ task' = [task EXCEPT ![w].pc = "install", ![w].alive = TRUE]
    /\ UNCHANGED <<pool, driver, up, pending, rlock, req, check, short, faults>>

\* A launch of the rebuild fails: the pool stays as it was emptied, and only
\* this task's id is tried again.
RecoverBuildFails(w) ==
    /\ task[w].pc = "build"
    /\ IF up THEN Fault ELSE UNCHANGED faults
    /\ rlock' = None
    /\ short' = TRUE
    /\ Retry(w)
    /\ UNCHANGED <<pool, driver, up, req, check>>

\* The rebuilt list replaces whatever was put into the pool meanwhile, which is
\* not closed.
RecoverInstall(w) ==
    /\ task[w].pc = "install"
    /\ pool' = [i \in Id |-> [New EXCEPT !.alive = task[w].alive]]
    /\ Leave([i \in Id |-> IF pool[i].alive THEN "leaked" ELSE "closed"], {"pool"})
    /\ short' = FALSE
    /\ rlock' = None
    /\ task' = [task EXCEPT ![w] = NoTask]
    /\ UNCHANGED <<driver, up, pending, faults>>

Recreate(w) ==
    \/ LaunchOk(w) \/ LaunchFails(w) \/ LaunchClosed(w) \/ Insert(w)
    \/ RecoverSkip(w) \/ RecoverBegin(w) \/ RecoverFactory(w)
    \/ RecoverFactoryFails(w) \/ RecoverBuild(w) \/ RecoverBuildFails(w)
    \/ RecoverInstall(w)

-----------------------------------------------------------------------------
(* Render requests: main.py render, _render_with_pool.                       *)

Arrive(r) ==
    /\ req[r].pc = "idle"
    /\ Cardinality({q \in Render : req[q].pc # "idle"}) < QueueSize
    /\ req' = [req EXCEPT ![r] = [Idle EXCEPT !.pc = "try", !.attempt = 1]]
    /\ UNCHANGED <<pool, driver, up, task, pending, rlock, check, short, faults>>

Free(i) == pool[i].healthy /\ pool[i].active < MaxConcurrent

\* acquire: the least loaded browser, counted before the lock is given back.
Acquire(r) ==
    /\ req[r].pc = "try"
    /\ \E i \in Id :
        /\ Free(i)
        /\ \A j \in Id : Free(j) => pool[i].active <= pool[j].active
        /\ pool' = [pool EXCEPT ![i].active = @ + 1]
        /\ req' = [req EXCEPT ![r].pc = "busy", ![r].id = i, ![r].at = "pool"]
    /\ UNCHANGED <<driver, up, task, pending, rlock, check, short, faults>>

\* Mutant of NextAttempt: one attempt too many.
MutNextAttempt(r) == IF req[r].attempt > MaxRetries THEN Idle
                     ELSE [Idle EXCEPT !.pc = "try", !.attempt = req[r].attempt + 1]

\* What ends an attempt without a page: the next one, or the answer 503/504/500.
NextAttempt(r) == IF req[r].attempt = MaxRetries THEN Idle
                  ELSE [Idle EXCEPT !.pc = "try", !.attempt = req[r].attempt + 1]

Exhausted(r) ==
    /\ req[r].pc = "try"
    /\ \A i \in Id : ~Free(i)
    /\ req' = [req EXCEPT ![r] = NextAttempt(r)]
    /\ UNCHANGED <<pool, driver, up, task, pending, rlock, check, short, faults>>

PageOk(r) ==
    /\ req[r].pc = "busy" /\ Running(req[r].id, req[r].at)
    /\ req' = [req EXCEPT ![r].pc = "clean", ![r].ok = TRUE]
    /\ UNCHANGED <<pool, driver, up, task, pending, rlock, check, short, faults>>

\* mark_unhealthy on the instances e of the pool; it counts its caller down too.
Marked(e) == [i \in Id |-> IF i \in e THEN [pool[i] EXCEPT !.healthy = FALSE,
                                                         !.active = Dec(@)]
                           ELSE pool[i]]

\* The instance the request holds, if it is still in the pool.
Held(r) == {i \in Id : req[r].id = i /\ req[r].at = "pool"}

\* What the health check finds of a browser outside the pool that the request
\* has reported: an unhealthy one, which it passes over.
Reported(r) == [i \in Id |-> IF req[r].id = i /\ req[r].due /\ check[i] # "pool"
                             THEN "done" ELSE check[i]]

\* The page fails: the browser is reported and its recreation awaited.
PageFails(r) ==
    /\ req[r].pc = "busy"
    /\ IF Running(req[r].id, req[r].at) THEN Fault ELSE UNCHANGED faults
    /\ pool' = Marked(Held(r))
    /\ task' = [task EXCEPT ![r] = Launching(req[r].id)]
    /\ req' = [req EXCEPT ![r].pc = "wait"]
    /\ check' = Reported(r)
    /\ UNCHANGED <<driver, up, pending, rlock, short>>

\* Mutant of Released: a page that came gives no place back.
MutReleased(p, r) == IF req[r].ok THEN p ELSE
                     [i \in Id |-> IF i \in Held(r) THEN [p[i] EXCEPT !.active = Dec(@)]
                                   ELSE p[i]]

\* release
Released(p, r) == [i \in Id |-> IF i \in Held(r) THEN [p[i] EXCEPT !.active = Dec(@)]
                                ELSE p[i]]

\* The finally block: page.close and context.close, whose failure reports a
\* browser not reported yet, then release.
Finish(r) ==
    /\ \/ req[r].pc = "clean"
       \/ req[r].pc = "wait" /\ task[r].pc = "none"
    /\ IF req[r].ok /\ ~Running(req[r].id, req[r].at)
       THEN /\ pool' = Released(Marked(Held(r)), r)
            /\ pending' = [pending EXCEPT ![req[r].id] = Inc(@)]
            /\ check' = Reported(r)
       ELSE /\ pool' = Released(pool, r)
            /\ UNCHANGED <<pending, check>>
    /\ req' = [req EXCEPT ![r] = IF req[r].ok THEN Idle ELSE NextAttempt(r)]
    /\ UNCHANGED <<driver, up, task, rlock, short, faults>>

RenderStep(r) ==
    \/ Acquire(r) \/ Exhausted(r) \/ PageOk(r) \/ PageFails(r) \/ Finish(r)

-----------------------------------------------------------------------------
(* The health-check loop walks a copy of the pool, then reports the browsers *)
(* past their TTL.                                                           *)

Copied(i) == check[i] # "done"

HealthWake ==
    /\ \A i \in Id : ~Copied(i)
    /\ check' = [i \in Id |-> IF pool[i].healthy THEN "pool" ELSE "done"]
    /\ UNCHANGED <<pool, driver, up, task, pending, rlock, req, short, faults>>

\* The next instance of the copy: an unhealthy one is passed over, a running one
\* passes, one that is gone or fails its test page is reported.
HealthCheck ==
    /\ \E i \in Id :
        /\ Copied(i) /\ \A j \in Id : Copied(j) => i <= j
        /\ check' = [check EXCEPT ![i] = "done"]
        /\ LET here == {j \in {i} : check[j] = "pool"}
               healthy == \A j \in here : pool[j].healthy
           IN \/ /\ ~healthy \/ Running(i, check[i])
                 /\ UNCHANGED <<pool, pending, faults>>
              \/ /\ healthy
                 /\ IF Running(i, check[i]) THEN Fault ELSE UNCHANGED faults
                 /\ pool' = Marked(here)
                 /\ pending' = [pending EXCEPT ![i] = Inc(@)]
    /\ UNCHANGED <<driver, up, task, rlock, req, short>>

\* The browsers past their TTL are reported, the busy ones too.
HealthExpire ==
    /\ \A i \in Id : ~Copied(i)
    /\ Fault
    /\ \E e \in (SUBSET {i \in Id : pool[i].healthy}) \ {{}} :
        /\ pool' = Marked(e)
        /\ pending' = [i \in Id |-> IF i \in e THEN Inc(pending[i]) ELSE pending[i]]
    /\ UNCHANGED <<driver, up, task, rlock, req, check, short>>

-----------------------------------------------------------------------------
(* Faults from outside: a Chromium process dies, the driver dies with all.   *)

BrowserDies(i) ==
    /\ pool[i].alive
    /\ Fault
    /\ pool' = [pool EXCEPT ![i].alive = FALSE]
    /\ UNCHANGED <<driver, up, task, pending, rlock, req, check, short>>

DriverDies ==
    /\ up
    /\ Fault
    /\ up' = FALSE
    /\ pool' = [i \in Id |-> [pool[i] EXCEPT !.alive = FALSE]]
    /\ task' = [w \in Worker |-> [task[w] EXCEPT !.alive = FALSE]]
    /\ req' = [r \in Render |-> IF req[r].at = "leaked"
                                THEN [req[r] EXCEPT !.at = "closed"] ELSE req[r]]
    /\ check' = [i \in Id |-> IF check[i] = "leaked" THEN "closed" ELSE check[i]]
    /\ UNCHANGED <<driver, pending, rlock, short>>

-----------------------------------------------------------------------------
Init ==
    /\ pool = [i \in Id |-> New]
    /\ driver = 0 /\ up = TRUE
    /\ task = [w \in Worker |-> NoTask]
    /\ pending = [i \in Id |-> 0]
    /\ rlock = None
    /\ req = [r \in Render |-> Idle]
    /\ check = [i \in Id |-> "done"]
    /\ short = FALSE /\ faults = 0

Next ==
    \/ \E s \in Slot, i \in Id : Start(s, i)
    \/ \E w \in Worker : Recreate(w)
    \/ \E r \in Render : Arrive(r) \/ RenderStep(r)
    \/ HealthWake \/ HealthCheck \/ HealthExpire
    \/ \E i \in Id : BrowserDies(i)
    \/ DriverDies

\* The event loop runs every coroutine that can go on, every await ends (each
\* page operation has a timeout), timers fire and the health loop never ends.
\* The loop knows no limit on background recreations: that those of one id need
\* not wait for ever behind the others takes strong fairness with few slots.
Fairness ==
    /\ \A i \in Id : SF_vars(\E s \in Slot : Start(s, i))
    /\ \A w \in Worker : WF_vars(Recreate(w))
    /\ \A r \in Render : WF_vars(RenderStep(r))
    /\ WF_vars(HealthWake \/ HealthCheck)

Spec == Init /\ [][Next]_vars /\ Fairness

-----------------------------------------------------------------------------
(* Properties                                                                *)

Holders(i) == {r \in Render : /\ req[r].id = i /\ req[r].at = "pool"
                              /\ req[r].pc \in {"busy", "clean"}}

\* The count of a healthy browser is the number of requests that hold it, so
\* acquire neither overloads a browser nor loses one of its places, although
\* mark_unhealthy and the finally block both count a failed render down.
CountsRight ==
    \A i \in Id : pool[i].healthy => pool[i].active = Cardinality(Holders(i))

Coming(i) == pending[i] > 0 \/ \E w \in Worker : task[w].pc # "none" /\ task[w].id = i

\* An id without a healthy browser is always being recreated, waits for its
\* retry, or belongs to a rebuild of the whole pool, under way or due because
\* another id's recreation will find the driver stopped.  The exception is a
\* rebuild that failed half-way: then only the id that began it is tried again.
NeverForgotten ==
    \A i \in Id : \/ pool[i].healthy \/ Coming(i) \/ rlock # None \/ short
                  \/ ~up /\ \E j \in Id : Coming(j)

\* Once faults stop, every id has a running healthy browser again and again,
\* with the same exception: reports of a browser that was replaced since may
\* close its successor, but another one always follows.
ComesBack ==
    \A i \in Id : []<>(short \/ (pool[i].healthy /\ pool[i].alive))

=============================================================================
