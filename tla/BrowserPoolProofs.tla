-------------------------- MODULE BrowserPoolProofs --------------------------
(***************************************************************************)
(* What holds of the browser pool whatever the number of requests,         *)
(* browsers, background recreations and faults: its types, the count of    *)
(* requests per browser, and that no browser id is given up silently.      *)
(***************************************************************************)
EXTENDS BrowserPool, FiniteSetTheorems, TLAPS

\* Id is never empty: NoTask and Idle name the id 0.
LEMMA ZeroIsId == 0 \in Id /\ \A i \in Id : i \in Nat
  BY SizesAssumption DEF Id

LEMMA DecType == \A n \in 0 .. MaxConcurrent : Dec(n) \in 0 .. MaxConcurrent
  BY SizesAssumption DEF Dec

LEMMA IncType == \A n \in 0 .. MaxPending : Inc(n) \in 0 .. MaxPending /\ Inc(n) > 0
  BY SizesAssumption DEF Inc

\* The updates of an instance, a task and a request stay within their types.
LEMMA NewType == New \in Instances
  BY SizesAssumption DEF New, Instances

LEMMA GoneType == Gone \in Instances
  BY SizesAssumption DEF Gone, Instances

LEMMA AliveType ==
    ASSUME NEW x \in Instances, NEW b \in BOOLEAN
    PROVE  [x EXCEPT !.alive = b] \in Instances
  BY DEF Instances

LEMMA ActiveType ==
    ASSUME NEW x \in Instances, NEW n \in 0 .. MaxConcurrent
    PROVE  [x EXCEPT !.active = n] \in Instances
  BY DEF Instances

LEMMA ReportType ==
    ASSUME NEW x \in Instances, NEW n \in 0 .. MaxConcurrent
    PROVE  [x EXCEPT !.healthy = FALSE, !.active = n] \in Instances
  BY DEF Instances

LEMMA NoTaskType == NoTask \in Tasks
  BY ZeroIsId DEF NoTask, Tasks

LEMMA LaunchingType ==
    ASSUME driver \in Nat, NEW i \in Id
    PROVE  Launching(i) \in Tasks
  BY DEF Launching, Tasks

LEMMA TaskType ==
    ASSUME NEW t \in Tasks,
           NEW pc \in {"launch", "insert", "recover", "factory", "build", "install"},
           NEW b \in BOOLEAN
    PROVE  /\ [t EXCEPT !.pc = pc] \in Tasks
           /\ [t EXCEPT !.alive = b] \in Tasks
           /\ [t EXCEPT !.pc = pc, !.alive = b] \in Tasks
  BY DEF Tasks

LEMMA IdleType == Idle \in Requests
  BY ZeroIsId, SizesAssumption DEF Idle, Requests, Place

LEMMA TryType ==
    ASSUME NEW n \in 0 .. MaxRetries
    PROVE  [Idle EXCEPT !.pc = "try", !.attempt = n] \in Requests
  BY IdleType DEF Requests

LEMMA RequestType ==
    ASSUME NEW q \in Requests, NEW pc \in {"idle", "try", "busy", "wait", "clean"},
           NEW at \in Place, NEW i \in Id
    PROVE  /\ [q EXCEPT !.pc = pc] \in Requests
           /\ [q EXCEPT !.at = at] \in Requests
           /\ [q EXCEPT !.pc = pc, !.ok = TRUE] \in Requests
           /\ [q EXCEPT !.pc = pc, !.id = i, !.at = at] \in Requests
  BY DEF Requests

LEMMA ClosedType ==
    ASSUME NEW q \in Requests
    PROVE  [q EXCEPT !.at = "closed"] \in Requests
  BY DEF Requests, Place

LEMMA DueType ==
    ASSUME NEW q \in Requests, NEW at \in Place, NEW due \in BOOLEAN
    PROVE  [q EXCEPT !.at = at, !.due = due] \in Requests
  BY DEF Requests

LEMMA NextAttemptType ==
    ASSUME TypeOK, NEW r \in Render
    PROVE  NextAttempt(r) \in Requests
  <1>1. req[r].attempt \in 0 .. MaxRetries
    BY DEF TypeOK, Requests
  <1>2. CASE req[r].attempt = MaxRetries
    BY <1>2, IdleType DEF NextAttempt
  <1>3. CASE req[r].attempt # MaxRetries
    <2>1. req[r].attempt + 1 \in 0 .. MaxRetries
      BY <1>1, <1>3, SizesAssumption
    <2> QED BY <1>3, <2>1, TryType DEF NextAttempt
  <1> QED BY <1>2, <1>3

\* The operators the actions share.
LEMMA LeaveType ==
    ASSUME TypeOK, NEW to, \A i \in DOMAIN to : to[i] \in Place, NEW from, Leave(to, from)
    PROVE  req' \in [Render -> Requests] /\ check' \in [Id -> Place \cup {"done"}]
  <1>1. ASSUME NEW r \in Render
        PROVE  req'[r] \in Requests
    <2> DEFINE i == req[r].id
               at == IF req[r].at \in from THEN to[i] ELSE req[r].at
               due == IF check[i] = "pool" THEN req[r].at = "pool" /\ pool[i].healthy
                      ELSE req[r].due
    <2>1. req[r] \in Requests /\ i \in Id /\ pool[i].healthy \in BOOLEAN
      BY DEF TypeOK, Requests, Instances
    <2>2. CASE i \notin DOMAIN to
      BY <2>1, <2>2 DEF Leave
    <2>3. CASE i \in DOMAIN to
      <3>1. req'[r] = [req[r] EXCEPT !.at = at, !.due = due]
        BY <2>1, <2>3 DEF Leave
      <3>2. at \in Place
        BY <2>1, <2>3 DEF Requests
      <3>3. due \in BOOLEAN
        BY <2>1 DEF Requests
      <3> HIDE DEF at, due
      <3>4. [req[r] EXCEPT !.at = at, !.due = due] \in Requests
        BY <2>1, <3>2, <3>3, DueType
      <3> QED BY <3>1, <3>4
    <2> QED BY <2>2, <2>3
  <1>2. check' \in [Id -> Place \cup {"done"}]
    BY DEF Leave, TypeOK
  <1>3. req' \in [Render -> Requests]
    BY <1>1 DEF Leave
  <1> QED BY <1>2, <1>3

LEMMA ReportedType ==
    ASSUME TypeOK, NEW r
    PROVE  Reported(r) \in [Id -> Place \cup {"done"}]
  BY DEF Reported, TypeOK

LEMMA RetryType ==
    ASSUME TypeOK, NEW w \in Worker, Retry(w)
    PROVE  task' \in [Worker -> Tasks] /\ pending' \in [Id -> 0 .. MaxPending]
  BY IncType, NoTaskType DEF TypeOK, Retry

LEMMA ActiveRange ==
    ASSUME NEW p \in [Id -> Instances], NEW i \in Id
    PROVE  p[i] \in Instances /\ p[i].active \in 0 .. MaxConcurrent
           /\ Dec(p[i].active) \in 0 .. MaxConcurrent
  BY DecType DEF Instances

LEMMA MarkedType ==
    ASSUME TypeOK, NEW e
    PROVE  Marked(e) \in [Id -> Instances]
  BY ActiveRange, ReportType DEF TypeOK, Marked

LEMMA ReleasedType ==
    ASSUME NEW r \in Render, NEW p \in [Id -> Instances]
    PROVE  Released(p, r) \in [Id -> Instances]
  BY ActiveRange, ActiveType DEF Released

LEMMA FaultType == TypeOK /\ Fault => faults' \in 0 .. MaxFaults
  BY SizesAssumption DEF TypeOK, Fault

-----------------------------------------------------------------------------
LEMMA InitType == Init => TypeOK
  <1> SUFFICES ASSUME Init PROVE TypeOK
    OBVIOUS
  <1>1. pool \in [Id -> Instances]
    BY NewType DEF Init
  <1>2. task \in [Worker -> Tasks]
    BY NoTaskType DEF Init
  <1>3. req \in [Render -> Requests]
    BY IdleType DEF Init
  <1>4. up \in BOOLEAN /\ short \in BOOLEAN
    BY DEF Init
  <1>5. driver \in Nat /\ faults \in 0 .. MaxFaults /\ pending \in [Id -> 0 .. MaxPending]
    BY SizesAssumption DEF Init
  <1>6. rlock \in Worker \cup {None} /\ check \in [Id -> Place \cup {"done"}]
    BY DEF Init
  <1> QED BY <1>1, <1>2, <1>3, <1>4, <1>5, <1>6 DEF TypeOK

LEMMA RecreateType ==
    ASSUME TypeOK, NEW w \in Worker, Recreate(w)
    PROVE  TypeOK'
  <1>w. task[w] \in Tasks /\ task[w].id \in Id /\ task[w].alive \in BOOLEAN
    BY DEF TypeOK, Tasks
  <1>1. CASE LaunchOk(w)
    BY <1>1, <1>w, TaskType DEF LaunchOk, TypeOK
  <1>2. CASE LaunchFails(w)
    BY <1>2, RetryType, FaultType DEF LaunchFails, TypeOK
  <1>3. CASE LaunchClosed(w)
    <2>1. faults' \in 0 .. MaxFaults
      BY <1>3, FaultType DEF LaunchClosed, TypeOK
    <2> QED BY <1>3, <1>w, <2>1, TaskType DEF LaunchClosed, TypeOK
  <1>4. CASE Insert(w)
    <2>1. req' \in [Render -> Requests] /\ check' \in [Id -> Place \cup {"done"}]
      BY <1>4, LeaveType DEF Insert, Place
    <2>2. pool' \in [Id -> Instances]
      BY <1>4, <1>w, NewType, AliveType DEF Insert, TypeOK
    <2>3. task' \in [Worker -> Tasks]
      BY <1>4, NoTaskType DEF Insert, TypeOK
    <2> QED BY <1>4, <2>1, <2>2, <2>3 DEF Insert, TypeOK
  <1>5. CASE RecoverSkip(w)
    BY <1>5, NoTaskType DEF RecoverSkip, TypeOK
  <1>6. CASE RecoverBegin(w)
    <2>1. req' \in [Render -> Requests] /\ check' \in [Id -> Place \cup {"done"}]
      BY <1>6, LeaveType DEF RecoverBegin, Place
    <2>2. pool' \in [Id -> Instances]
      BY <1>6, GoneType DEF RecoverBegin
    <2>3. task' \in [Worker -> Tasks]
      BY <1>6, TaskType DEF RecoverBegin, TypeOK
    <2> QED BY <1>6, <2>1, <2>2, <2>3 DEF RecoverBegin, TypeOK
  <1>7. CASE RecoverFactory(w)
    <2>1. task' \in [Worker -> Tasks]
      BY <1>7, <1>w, TaskType DEF RecoverFactory, TypeOK
    <2>2. driver' \in Nat
      BY <1>7 DEF RecoverFactory, TypeOK
    <2>3. up' \in BOOLEAN
      BY <1>7 DEF RecoverFactory
    <2> QED BY <1>7, <2>1, <2>2, <2>3 DEF RecoverFactory, TypeOK
  <1>8. CASE RecoverFactoryFails(w)
    BY <1>8, RetryType, FaultType DEF RecoverFactoryFails, TypeOK
  <1>9. CASE RecoverBuild(w)
    BY <1>9, <1>w, TaskType DEF RecoverBuild, TypeOK
  <1>10. CASE RecoverBuildFails(w)
    <2>1. faults' \in 0 .. MaxFaults
      BY <1>10, FaultType DEF RecoverBuildFails, TypeOK
    <2> QED BY <1>10, <2>1, RetryType DEF RecoverBuildFails, TypeOK
  <1>11. CASE RecoverInstall(w)
    <2>1. req' \in [Render -> Requests] /\ check' \in [Id -> Place \cup {"done"}]
      BY <1>11, LeaveType DEF RecoverInstall, Place
    <2>2. pool' \in [Id -> Instances]
      BY <1>11, <1>w, NewType, AliveType DEF RecoverInstall
    <2>3. task' \in [Worker -> Tasks]
      BY <1>11, NoTaskType DEF RecoverInstall, TypeOK
    <2> QED BY <1>11, <2>1, <2>2, <2>3 DEF RecoverInstall, TypeOK
  <1> QED BY <1>1, <1>2, <1>3, <1>4, <1>5, <1>6, <1>7, <1>8, <1>9, <1>10, <1>11
          DEF Recreate

LEMMA RenderType ==
    ASSUME TypeOK, NEW r \in Render, Arrive(r) \/ RenderStep(r)
    PROVE  TypeOK'
  <1>r. r \in Worker /\ req[r] \in Requests /\ req[r].id \in Id
    BY DEF Worker, TypeOK, Requests
  <1>1. CASE Arrive(r)
    <2>1. 1 \in 0 .. MaxRetries
      BY SizesAssumption
    <2> QED BY <1>1, <2>1, TryType DEF Arrive, TypeOK
  <1>2. CASE Acquire(r)
    <2>1. PICK i \in Id :
            /\ Free(i)
            /\ pool' = [pool EXCEPT ![i].active = @ + 1]
            /\ req' = [req EXCEPT ![r].pc = "busy", ![r].id = i, ![r].at = "pool"]
      BY <1>2 DEF Acquire
    <2>2. pool[i].active + 1 \in 0 .. MaxConcurrent
      BY <2>1, ActiveRange, SizesAssumption DEF Free, TypeOK
    <2>3. pool' \in [Id -> Instances]
      BY <2>1, <2>2, ActiveType DEF TypeOK
    <2>4. req' \in [Render -> Requests]
      BY <2>1, <1>r, RequestType DEF TypeOK, Place
    <2> QED BY <1>2, <2>3, <2>4 DEF Acquire, TypeOK
  <1>3. CASE Exhausted(r)
    BY <1>3, NextAttemptType DEF Exhausted, TypeOK
  <1>4. CASE PageOk(r)
    BY <1>4, <1>r, RequestType DEF PageOk, TypeOK, Place
  <1>5. CASE PageFails(r)
    <2>1. faults' \in 0 .. MaxFaults
      BY <1>5, FaultType DEF PageFails, TypeOK
    <2>2. req' \in [Render -> Requests]
      BY <1>5, <1>r, RequestType DEF PageFails, TypeOK, Place
    <2>3. task' \in [Worker -> Tasks]
      BY <1>5, <1>r, LaunchingType DEF PageFails, TypeOK
    <2> QED BY <1>5, <2>1, <2>2, <2>3, MarkedType, ReportedType DEF PageFails, TypeOK
  <1>6. CASE Finish(r)
    <2>1. pool' \in [Id -> Instances]
      <3>1. CASE req[r].ok /\ ~Running(req[r].id, req[r].at)
        BY <1>6, <3>1, MarkedType, ReleasedType DEF Finish
      <3>2. CASE ~(req[r].ok /\ ~Running(req[r].id, req[r].at))
        BY <1>6, <3>2, ReleasedType DEF Finish, TypeOK
      <3> QED BY <3>1, <3>2
    <2>2. pending' \in [Id -> 0 .. MaxPending]
      BY <1>6, <1>r, IncType DEF Finish, TypeOK
    <2>3. req' \in [Render -> Requests]
      BY <1>6, IdleType, NextAttemptType DEF Finish, TypeOK
    <2>4. check' \in [Id -> Place \cup {"done"}]
      BY <1>6, ReportedType DEF Finish, TypeOK
    <2> QED BY <1>6, <2>1, <2>2, <2>3, <2>4 DEF Finish, TypeOK
  <1> QED BY <1>1, <1>2, <1>3, <1>4, <1>5, <1>6 DEF RenderStep

LEMMA HealthType ==
    ASSUME TypeOK, HealthWake \/ HealthCheck \/ HealthExpire
    PROVE  TypeOK'
  <1>1. CASE HealthWake
    BY <1>1 DEF HealthWake, TypeOK, Place
  <1>2. CASE HealthCheck
    <2>1. faults' \in 0 .. MaxFaults
      BY <1>2, FaultType DEF HealthCheck, TypeOK
    <2>2. pool' \in [Id -> Instances]
      BY <1>2, MarkedType DEF HealthCheck, TypeOK
    <2>3. pending' \in [Id -> 0 .. MaxPending]
      BY <1>2, IncType DEF HealthCheck, TypeOK
    <2>4. check' \in [Id -> Place \cup {"done"}]
      BY <1>2 DEF HealthCheck, TypeOK
    <2> QED BY <1>2, <2>1, <2>2, <2>3, <2>4 DEF HealthCheck, TypeOK
  <1>3. CASE HealthExpire
    <2>1. pending' \in [Id -> 0 .. MaxPending]
      BY <1>3, IncType DEF HealthExpire, TypeOK
    <2>2. pool' \in [Id -> Instances]
      BY <1>3, MarkedType DEF HealthExpire
    <2> QED BY <1>3, <2>1, <2>2, FaultType DEF HealthExpire, TypeOK
  <1> QED BY <1>1, <1>2, <1>3

LEMMA NextType == TypeOK /\ [Next]_vars => TypeOK'
  <1> SUFFICES ASSUME TypeOK, [Next]_vars PROVE TypeOK'
    OBVIOUS
  <1>1. ASSUME NEW s \in Slot, NEW i \in Id, Start(s, i) PROVE TypeOK'
    <2>1. pending' \in [Id -> 0 .. MaxPending]
      BY <1>1, SizesAssumption DEF Start, TypeOK
    <2>2. task' \in [Worker -> Tasks]
      BY <1>1, LaunchingType DEF Start, TypeOK, Worker
    <2> QED BY <1>1, <2>1, <2>2 DEF Start, TypeOK
  <1>2. ASSUME NEW i \in Id, BrowserDies(i) PROVE TypeOK'
    <2>1. pool' \in [Id -> Instances]
      BY <1>2, AliveType DEF BrowserDies, TypeOK
    <2> QED BY <1>2, <2>1, FaultType DEF BrowserDies, TypeOK
  <1>3. CASE DriverDies
    <2>1. pool' \in [Id -> Instances]
      BY <1>3, AliveType DEF DriverDies, TypeOK
    <2>2. task' \in [Worker -> Tasks]
      BY <1>3, TaskType DEF DriverDies, TypeOK
    <2>3. req' \in [Render -> Requests]
      <3>1. \A r \in Render : /\ req[r] \in Requests
                              /\ [req[r] EXCEPT !.at = "closed"] \in Requests
        BY ClosedType DEF TypeOK
      <3> QED BY <1>3, <3>1 DEF DriverDies
    <2>4. check' \in [Id -> Place \cup {"done"}]
      BY <1>3 DEF DriverDies, TypeOK, Place
    <2> QED BY <1>3, <2>1, <2>2, <2>3, <2>4, FaultType DEF DriverDies, TypeOK
  <1>4. CASE UNCHANGED vars
    BY <1>4 DEF vars, TypeOK
  <1> QED BY <1>1, <1>2, <1>3, <1>4, RecreateType, RenderType, HealthType DEF Next

\* Every variable keeps its type: in particular no browser ever counts more
\* requests than BROWSER_MAX_CONCURRENT, and no request makes more than
\* BROWSER_MAX_RETRIES attempts.
THEOREM TypeCorrect == Spec => []TypeOK
  BY InitType, NextType, PTL DEF Spec

-----------------------------------------------------------------------------
(* Which worker runs what.  A request's own recreation runs only while the   *)
(* request awaits it; a recovery past its first step holds the lock; and     *)
(* until its new driver runs the old one is stopped.                         *)
Recovering == {"factory", "build", "install"}

WorkInv ==
    /\ \A r \in Render : task[r].pc # "none" => req[r].pc = "wait"
    /\ \A w \in Worker : task[w].pc \in Recovering => rlock = w
    /\ \A w \in Worker : task[w].pc = "factory" => ~up

LEMMA WorkInit == Init => WorkInv
  BY DEF Init, WorkInv, NoTask, Worker, Recovering

\* Leave moves references, not the phases of the requests.
LEMMA LeaveKeeps ==
    ASSUME TypeOK, NEW to, NEW from, Leave(to, from)
    PROVE  \A r \in Render : req'[r].pc = req[r].pc /\ req'[r].id = req[r].id
  BY DEF Leave, TypeOK, Requests

LEMMA WorkStep == TypeOK /\ WorkInv /\ [Next]_vars => WorkInv'
  <1> SUFFICES ASSUME TypeOK, WorkInv, [Next]_vars PROVE WorkInv'
    OBVIOUS
  <1> USE DEF WorkInv, Recovering
  <1>d. \A w \in Worker : w # None
    BY NamesAssumption DEF Worker
  <1>e. Render \subseteq Worker /\ task \in [Worker -> Tasks] /\ req \in [Render -> Requests]
    BY DEF Worker, TypeOK
  <1>1. ASSUME NEW s \in Slot, NEW i \in Id, Start(s, i) PROVE WorkInv'
    BY <1>1, <1>e, NamesAssumption DEF Start, Launching, Worker
  <1>2. ASSUME NEW w \in Worker, Recreate(w) PROVE WorkInv'
    <2>1. CASE LaunchOk(w)
      BY <2>1, <1>e DEF LaunchOk, Tasks
    <2>2. CASE LaunchFails(w)
      BY <2>2, <1>e DEF LaunchFails, Retry, NoTask
    <2>3. CASE LaunchClosed(w)
      BY <2>3, <1>e DEF LaunchClosed, Tasks
    <2>4. CASE Insert(w)
      <3>1. Leave([i \in {task[w].id} |-> "closed"], {"pool"})
        BY <2>4 DEF Insert
      <3> QED BY <2>4, <1>e, <3>1, LeaveKeeps DEF Insert, NoTask
    <2>5. CASE RecoverSkip(w)
      BY <2>5, <1>e DEF RecoverSkip, NoTask
    <2>6. CASE RecoverBegin(w)
      <3>1. Leave([i \in Id |-> "closed"], {"pool", "leaked"})
        BY <2>6 DEF RecoverBegin
      <3>2. \A v \in Worker : task'[v].pc = IF v = w THEN "factory" ELSE task[v].pc
        BY <2>6, <1>e DEF RecoverBegin, Tasks
      <3>3. \A v \in Worker : v # w => task[v].pc \notin Recovering
        BY <2>6, <1>d DEF RecoverBegin
      <3> QED BY <2>6, <1>e, <3>1, <3>2, <3>3, LeaveKeeps DEF RecoverBegin
    <2>7. CASE RecoverFactory(w)
      <3>1. \A v \in Worker : task'[v].pc = IF v = w THEN "build" ELSE task[v].pc
        BY <2>7, <1>e DEF RecoverFactory, Tasks
      <3>2. \A v \in Worker : v # w => task[v].pc \notin Recovering
        BY <2>7 DEF RecoverFactory
      <3> QED BY <2>7, <1>e, <3>1, <3>2 DEF RecoverFactory
    <2>8. CASE RecoverFactoryFails(w)
      <3>1. \A v \in Worker : v # w => task[v].pc \notin Recovering
        BY <2>8 DEF RecoverFactoryFails
      <3> QED BY <2>8, <1>e, <3>1 DEF RecoverFactoryFails, Retry, NoTask
    <2>9. CASE RecoverBuild(w)
      BY <2>9, <1>e DEF RecoverBuild, Tasks
    <2>10. CASE RecoverBuildFails(w)
      <3>1. \A v \in Worker : v # w => task[v].pc \notin Recovering
        BY <2>10 DEF RecoverBuildFails
      <3> QED BY <2>10, <1>e, <3>1 DEF RecoverBuildFails, Retry, NoTask
    <2>11. CASE RecoverInstall(w)
      <3>1. \A v \in Worker : v # w => task[v].pc \notin Recovering
        BY <2>11 DEF RecoverInstall
      <3>2. Leave([i \in Id |-> IF pool[i].alive THEN "leaked" ELSE "closed"], {"pool"})
        BY <2>11 DEF RecoverInstall
      <3> QED BY <2>11, <1>e, <3>1, <3>2, LeaveKeeps DEF RecoverInstall, NoTask
    <2> QED BY <1>2, <2>1, <2>2, <2>3, <2>4, <2>5, <2>6, <2>7, <2>8, <2>9, <2>10, <2>11
            DEF Recreate
  <1>3. ASSUME NEW r \in Render, Arrive(r) \/ RenderStep(r) PROVE WorkInv'
    <2>1. CASE Arrive(r)
      BY <2>1, <1>e DEF Arrive
    <2>2. CASE Acquire(r)
      BY <2>2, <1>e DEF Acquire
    <2>3. CASE Exhausted(r)
      BY <2>3, <1>e DEF Exhausted
    <2>4. CASE PageOk(r)
      BY <2>4, <1>e DEF PageOk
    <2>5. CASE PageFails(r)
      BY <2>5, <1>e DEF PageFails, Launching, Requests
    <2>6. CASE Finish(r)
      <3>1. task[r].pc = "none"
        BY <2>6, <1>e DEF Finish
      <3> QED BY <2>6, <1>e, <3>1 DEF Finish
    <2> QED BY <1>3, <2>1, <2>2, <2>3, <2>4, <2>5, <2>6 DEF RenderStep
  <1>4. CASE HealthWake \/ HealthCheck \/ HealthExpire
    BY <1>4 DEF HealthWake, HealthCheck, HealthExpire
  <1>5. ASSUME NEW i \in Id, BrowserDies(i) PROVE WorkInv'
    BY <1>5 DEF BrowserDies
  <1>6. CASE DriverDies
    <2>1. \A w \in Worker : task'[w].pc = task[w].pc
      BY <1>6, <1>e DEF DriverDies, Tasks
    <2>2. \A r \in Render : req'[r].pc = req[r].pc
      BY <1>6, <1>e DEF DriverDies, Requests
    <2> QED BY <1>6, <1>e, <2>1, <2>2 DEF DriverDies
  <1>7. CASE UNCHANGED vars
    BY <1>7 DEF vars
  <1> QED BY <1>1, <1>2, <1>3, <1>4, <1>5, <1>6, <1>7 DEF Next

-----------------------------------------------------------------------------
(* NeverForgotten is not inductive: a recreation that began with an older    *)
(* driver ends without a browser (RecoverSkip), and one whose browser is     *)
(* launched already finds no driver stopped.  Seen counts the recreations    *)
(* that do bring the id back, Due those that will find the driver stopped.   *)
Seeks(w) == task[w].pc \in {"launch", "recover"} /\ task[w].drv = driver

Due == \/ \E j \in Id : pending[j] > 0
       \/ \E w \in Worker : Seeks(w)

Seen(i) == \/ pending[i] > 0
           \/ \E w \in Worker : task[w].id = i /\ (task[w].pc = "insert" \/ Seeks(w))

Kept(i) == pool[i].healthy \/ Seen(i) \/ rlock # None \/ short \/ (~up /\ Due)

Covered == \A i \in Id : Kept(i)

LEMMA CoveredInit == Init => Covered
  BY DEF Init, Covered, Kept, New

LEMMA CoveredImplies == TypeOK /\ Covered => NeverForgotten
  <1> SUFFICES ASSUME TypeOK, Covered, NEW i \in Id
               PROVE  \/ pool[i].healthy \/ Coming(i) \/ rlock # None \/ short
                      \/ ~up /\ \E j \in Id : Coming(j)
    BY DEF NeverForgotten
  <1>1. \A w \in Worker : task[w].id \in Id
    BY DEF TypeOK, Tasks
  <1>2. Seen(i) => Coming(i)
    BY DEF Seen, Seeks, Coming
  <1>3. Due => \E j \in Id : Coming(j)
    BY <1>1 DEF Due, Seeks, Coming
  <1> QED BY <1>2, <1>3 DEF Covered, Kept

\* A retry is seen again, and is due.
LEMMA RetrySeen ==
    ASSUME TypeOK, NEW w \in Worker, Retry(w)
    PROVE  /\ pending'[task[w].id] > 0
           /\ \A i \in Id : pending[i] > 0 => pending'[i] > 0
           /\ \A v \in Worker : v # w => task'[v] = task[v]
  BY IncType DEF TypeOK, Retry, Tasks

LEMMA CoveredRecreate ==
    ASSUME TypeOK, WorkInv, Covered, NEW w \in Worker, Recreate(w)
    PROVE  Covered'
  <1> SUFFICES ASSUME NEW i \in Id PROVE Kept(i)'
    BY DEF Covered
  <1>k. Kept(i)
    BY DEF Covered
  <1>t. /\ task \in [Worker -> Tasks] /\ pool \in [Id -> Instances]
        /\ task[w].id \in Id
    BY DEF TypeOK, Tasks
  <1>w. w # None
    BY NamesAssumption DEF Worker
  <1>1. CASE LaunchOk(w)
    <2>1. \A v \in Worker : task'[v].id = task[v].id /\ (v # w => task'[v] = task[v])
      BY <1>1, <1>t DEF LaunchOk, Tasks
    <2>2. task'[w].pc = "insert"
      BY <1>1, <1>t DEF LaunchOk, Tasks
    <2>3. Seen(i) => Seen(i)'
      BY <1>1, <2>1, <2>2 DEF LaunchOk, Seen, Seeks
    <2>4. up
      BY <1>1 DEF LaunchOk
    <2> QED BY <1>1, <1>k, <2>3, <2>4 DEF LaunchOk, Kept
  <1>2. CASE LaunchFails(w)
    <2>0. Retry(w)
      BY <1>2 DEF LaunchFails
    <2>1. Seen(i) => Seen(i)'
      BY <1>2, <2>0, RetrySeen DEF LaunchFails, Seen, Seeks
    <2>2. Due'
      BY <2>0, <1>t, RetrySeen DEF Due
    <2> QED BY <1>2, <1>k, <2>1, <2>2 DEF LaunchFails, Kept
  <1>3. CASE LaunchClosed(w)
    <2>1. \A v \in Worker : /\ task'[v].id = task[v].id /\ task'[v].drv = task[v].drv
                            /\ v # w => task'[v] = task[v]
      BY <1>3, <1>t DEF LaunchClosed, Tasks
    <2>2. task'[w].pc = "recover" /\ task[w].pc = "launch"
      BY <1>3, <1>t DEF LaunchClosed, Tasks
    <2>3. Seen(i) => Seen(i)'
      BY <1>3, <2>1, <2>2 DEF LaunchClosed, Seen, Seeks
    <2>4. Due => Due'
      BY <1>3, <2>1, <2>2 DEF LaunchClosed, Due, Seeks
    <2> QED BY <1>3, <1>k, <2>3, <2>4 DEF LaunchClosed, Kept
  <1>4. CASE Insert(w)
    <2>1. \A v \in Worker : v # w => task'[v] = task[v]
      BY <1>4, <1>t DEF Insert
    <2>2. pool'[task[w].id].healthy
      BY <1>4, <1>t DEF Insert, New
    <2>3. i # task[w].id => pool'[i] = pool[i]
      BY <1>4, <1>t DEF Insert
    <2>4. i # task[w].id /\ Seen(i) => Seen(i)'
      BY <1>4, <2>1 DEF Insert, Seen, Seeks
    <2>5. Due => Due'
      BY <1>4, <2>1 DEF Insert, Due, Seeks
    <2> QED BY <1>4, <1>k, <2>2, <2>3, <2>4, <2>5 DEF Insert, Kept
  <1>5. CASE RecoverSkip(w)
    <2>1. ~Seeks(w) /\ task[w].pc # "insert"
      BY <1>5 DEF RecoverSkip, Seeks
    <2>2. \A v \in Worker : v # w => task'[v] = task[v]
      BY <1>5, <1>t DEF RecoverSkip
    <2>3. (Seen(i) => Seen(i)') /\ (Due => Due')
      BY <1>5, <2>1, <2>2 DEF RecoverSkip, Seen, Due, Seeks
    <2> QED BY <1>5, <1>k, <2>3 DEF RecoverSkip, Kept
  <1>6. CASE RecoverBegin(w)
    BY <1>6, <1>w DEF RecoverBegin, Kept
  <1>7. CASE RecoverFactory(w)
    <2>1. rlock = w /\ rlock' = w
      BY <1>7 DEF RecoverFactory, WorkInv, Recovering
    <2> QED BY <2>1, <1>w DEF Kept
  <1>8. CASE RecoverFactoryFails(w)
    <2>1. ~up'
      BY <1>8 DEF RecoverFactoryFails, WorkInv
    <2>2. Due'
      BY <1>8, <1>t, RetrySeen DEF RecoverFactoryFails, Due
    <2> QED BY <2>1, <2>2 DEF Kept
  <1>9. CASE RecoverBuild(w)
    <2>1. rlock = w /\ rlock' = w
      BY <1>9 DEF RecoverBuild, WorkInv, Recovering
    <2> QED BY <2>1, <1>w DEF Kept
  <1>10. CASE RecoverBuildFails(w)
    BY <1>10 DEF RecoverBuildFails, Kept
  <1>11. CASE RecoverInstall(w)
    BY <1>11 DEF RecoverInstall, Kept, New
  <1> QED BY <1>1, <1>2, <1>3, <1>4, <1>5, <1>6, <1>7, <1>8, <1>9, <1>10, <1>11
          DEF Recreate

\* A step that only reports browsers: each one reported is pending.
LEMMA ReportKeeps ==
    ASSUME TypeOK, Covered, NEW e \in SUBSET Id, pool' = Marked(e),
           \A i \in e : pending'[i] > 0,
           \A i \in Id : pending[i] > 0 => pending'[i] > 0,
           UNCHANGED <<task, driver, up, rlock, short>>
    PROVE  Covered'
  <1> SUFFICES ASSUME NEW i \in Id PROVE Kept(i)'
    BY DEF Covered
  <1>1. Kept(i)
    BY DEF Covered
  <1>2. i \notin e => pool'[i] = pool[i]
    BY DEF Marked
  <1>3. (Seen(i) => Seen(i)') /\ (Due => Due') /\ (i \in e => Seen(i)')
    BY DEF Seen, Due, Seeks
  <1> QED BY <1>1, <1>2, <1>3 DEF Kept

\* A step that leaves the recreations and the marks alone.
LEMMA QuietKeeps ==
    ASSUME Covered, \A i \in Id : pool'[i].healthy = pool[i].healthy,
           UNCHANGED <<task, pending, driver, up, rlock, short>>
    PROVE  Covered'
  BY DEF Covered, Kept, Seen, Due, Seeks

LEMMA CoveredRender ==
    ASSUME TypeOK, WorkInv, Covered, NEW r \in Render, Arrive(r) \/ RenderStep(r)
    PROVE  Covered'
  <1>t. /\ task \in [Worker -> Tasks] /\ pool \in [Id -> Instances]
        /\ req[r].id \in Id /\ r \in Worker /\ Held(r) \subseteq Id
        /\ pending \in [Id -> 0 .. MaxPending]
    BY DEF TypeOK, Requests, Worker, Held
  <1>1. CASE Arrive(r)
    BY <1>1, QuietKeeps DEF Arrive
  <1>2. CASE Acquire(r)
    <2>1. \A i \in Id : pool'[i].healthy = pool[i].healthy
      BY <1>2, <1>t DEF Acquire, Instances
    <2> QED BY <1>2, <2>1, QuietKeeps DEF Acquire
  <1>3. CASE Exhausted(r)
    BY <1>3, QuietKeeps DEF Exhausted
  <1>4. CASE PageOk(r)
    BY <1>4, QuietKeeps DEF PageOk
  <1>5. CASE PageFails(r)
    <2> SUFFICES ASSUME NEW i \in Id PROVE Kept(i)'
      BY DEF Covered
    <2>k. Kept(i)
      BY DEF Covered
    <2>1. task[r].pc = "none"
      BY <1>5 DEF PageFails, WorkInv
    <2>2. task'[r] = Launching(req[r].id) /\ \A v \in Worker : v # r => task'[v] = task[v]
      BY <1>5, <1>t DEF PageFails
    <2>3. (Seen(i) => Seen(i)') /\ (Due => Due') /\ (i = req[r].id => Seen(i)')
      BY <1>5, <1>t, <2>1, <2>2 DEF PageFails, Seen, Due, Seeks, Launching
    <2>4. i # req[r].id => pool'[i] = pool[i]
      BY <1>5 DEF PageFails, Marked, Held
    <2> QED BY <1>5, <2>k, <2>3, <2>4 DEF PageFails, Kept
  <1>6. CASE Finish(r)
    <2>1. CASE req[r].ok /\ ~Running(req[r].id, req[r].at)
      <3> SUFFICES ASSUME NEW i \in Id PROVE Kept(i)'
        BY DEF Covered
      <3>k. Kept(i)
        BY DEF Covered
      <3>1. pending'[req[r].id] > 0 /\ \A j \in Id : pending[j] > 0 => pending'[j] > 0
        BY <1>6, <1>t, <2>1, IncType DEF Finish
      <3>2. i # req[r].id => pool'[i] = pool[i]
        BY <1>6, <2>1 DEF Finish, Marked, Released, Held
      <3>3. (Seen(i) => Seen(i)') /\ (Due => Due') /\ (i = req[r].id => Seen(i)')
        BY <1>6, <3>1 DEF Finish, Seen, Due, Seeks
      <3> QED BY <1>6, <3>k, <3>2, <3>3 DEF Finish, Kept
    <2>2. CASE ~(req[r].ok /\ ~Running(req[r].id, req[r].at))
      <3>1. \A i \in Id : pool'[i].healthy = pool[i].healthy
        BY <1>6, <1>t, <2>2 DEF Finish, Released, Instances
      <3> QED BY <1>6, <2>2, <3>1, QuietKeeps DEF Finish
    <2> QED BY <2>1, <2>2
  <1> QED BY <1>1, <1>2, <1>3, <1>4, <1>5, <1>6 DEF RenderStep

LEMMA CoveredHealth ==
    ASSUME TypeOK, Covered, HealthWake \/ HealthCheck \/ HealthExpire
    PROVE  Covered'
  <1>t. pending \in [Id -> 0 .. MaxPending]
    BY DEF TypeOK
  <1>1. CASE HealthWake
    BY <1>1, QuietKeeps DEF HealthWake
  <1>2. CASE HealthCheck
    <2>1. PICK i \in Id :
            LET here == {j \in {i} : check[j] = "pool"}
                healthy == \A j \in here : pool[j].healthy
            IN \/ /\ ~healthy \/ Running(i, check[i])
                  /\ UNCHANGED <<pool, pending, faults>>
               \/ /\ healthy
                  /\ IF Running(i, check[i]) THEN Fault ELSE UNCHANGED faults
                  /\ pool' = Marked(here)
                  /\ pending' = [pending EXCEPT ![i] = Inc(@)]
      BY <1>2 DEF HealthCheck
    <2>2. CASE UNCHANGED <<pool, pending>>
      BY <1>2, <2>2, QuietKeeps DEF HealthCheck
    <2>3. CASE /\ pool' = Marked({j \in {i} : check[j] = "pool"})
               /\ pending' = [pending EXCEPT ![i] = Inc(@)]
      <3>1. pending'[i] > 0 /\ \A j \in Id : pending[j] > 0 => pending'[j] > 0
        BY <2>3, <1>t, IncType
      <3>2. {j \in {i} : check[j] = "pool"} \in SUBSET Id
        OBVIOUS
      <3>3. UNCHANGED <<task, driver, up, rlock, short>>
        BY <1>2 DEF HealthCheck
      <3> QED BY <2>3, <3>1, <3>2, <3>3, ReportKeeps
    <2> QED BY <2>1, <2>2, <2>3
  <1>3. CASE HealthExpire
    <2>1. PICK e \in SUBSET Id :
            /\ pool' = Marked(e)
            /\ pending' = [i \in Id |-> IF i \in e THEN Inc(pending[i]) ELSE pending[i]]
      BY <1>3 DEF HealthExpire
    <2>2. (\A i \in e : pending'[i] > 0) /\ \A j \in Id : pending[j] > 0 => pending'[j] > 0
      BY <2>1, <1>t, IncType
    <2>3. UNCHANGED <<task, driver, up, rlock, short>>
      BY <1>3 DEF HealthExpire
    <2> QED BY <2>1, <2>2, <2>3, ReportKeeps
  <1> QED BY <1>1, <1>2, <1>3

LEMMA CoveredStep == TypeOK /\ WorkInv /\ Covered /\ [Next]_vars => Covered'
  <1> SUFFICES ASSUME TypeOK, WorkInv, Covered, [Next]_vars PROVE Covered'
    OBVIOUS
  <1>t. /\ task \in [Worker -> Tasks] /\ pool \in [Id -> Instances]
        /\ pending \in [Id -> 0 .. MaxPending] /\ Slot \subseteq Worker
    BY DEF TypeOK, Worker
  <1>1. ASSUME NEW s \in Slot, NEW j \in Id, Start(s, j) PROVE Covered'
    <2> SUFFICES ASSUME NEW i \in Id PROVE Kept(i)'
      BY DEF Covered
    <2>k. Kept(i)
      BY DEF Covered
    <2>1. task'[s] = Launching(j) /\ \A v \in Worker : v # s => task'[v] = task[v]
      BY <1>1, <1>t DEF Start
    <2>2. i # j => pending'[i] = pending[i]
      BY <1>1, <1>t DEF Start
    <2>3. task[s].pc = "none"
      BY <1>1 DEF Start
    <2>4. (Seen(i) => Seen(i)') /\ Due'
      BY <1>1, <1>t, <2>1, <2>2, <2>3 DEF Start, Seen, Due, Seeks, Launching
    <2> QED BY <1>1, <2>k, <2>4 DEF Start, Kept
  <1>2. ASSUME NEW i \in Id, BrowserDies(i) PROVE Covered'
    <2>1. \A j \in Id : pool'[j].healthy = pool[j].healthy
      BY <1>2, <1>t DEF BrowserDies, Instances
    <2> QED BY <1>2, <2>1, QuietKeeps DEF BrowserDies
  <1>3. CASE DriverDies
    <2> SUFFICES ASSUME NEW i \in Id PROVE Kept(i)'
      BY DEF Covered
    <2>k. Kept(i)
      BY DEF Covered
    <2>1. \A w \in Worker : /\ task'[w].pc = task[w].pc /\ task'[w].id = task[w].id
                            /\ task'[w].drv = task[w].drv
      BY <1>3, <1>t DEF DriverDies, Tasks
    <2>2. pool'[i].healthy = pool[i].healthy
      BY <1>3, <1>t DEF DriverDies, Instances
    <2>3. Seen(i) => Seen(i)'
      BY <1>3, <2>1 DEF DriverDies, Seen, Seeks
    <2>4. up
      BY <1>3 DEF DriverDies
    <2> QED BY <1>3, <2>k, <2>2, <2>3, <2>4 DEF DriverDies, Kept
  <1>4. CASE UNCHANGED vars
    BY <1>4, QuietKeeps DEF vars
  <1> QED BY <1>1, <1>2, <1>3, <1>4, CoveredRecreate, CoveredRender, CoveredHealth
          DEF Next

\* No id of the pool is given up silently: without a healthy browser it is being
\* recreated or about to be, unless a rebuild of the pool failed half-way.
THEOREM NoIdForgotten == Spec => []NeverForgotten
  <1>1. Init => TypeOK /\ WorkInv /\ Covered
    BY InitType, WorkInit, CoveredInit
  <1>2. TypeOK /\ WorkInv /\ Covered /\ [Next]_vars => (TypeOK /\ WorkInv /\ Covered)'
    BY NextType, WorkStep, CoveredStep
  <1>3. TypeOK /\ WorkInv /\ Covered => NeverForgotten
    BY CoveredImplies
  <1> QED BY <1>1, <1>2, <1>3, PTL DEF Spec

-----------------------------------------------------------------------------
(* CountsRight needs that a request whose page failed, which release will    *)
(* count down a second time, holds an unhealthy browser if any.              *)
Counts(i) == pool[i].healthy => pool[i].active = Cardinality(Holders(i))
Failed(r) == req[r].pc = "wait" /\ req[r].at = "pool" => ~pool[req[r].id].healthy
CountInv == (\A i \in Id : Counts(i)) /\ \A r \in Render : Failed(r)

LEMMA HoldersFinite == \A i \in Id : /\ IsFiniteSet(Holders(i))
                                     /\ Cardinality(Holders(i)) \in Nat
  BY FS_Subset, FS_CardinalityType, NamesAssumption DEF Holders

LEMMA CountInit == Init => CountInv
  <1> SUFFICES ASSUME Init PROVE CountInv
    OBVIOUS
  <1>1. \A i \in Id : Holders(i) = {}
    BY DEF Init, Holders, Idle
  <1> QED BY <1>1, FS_EmptySet DEF Init, CountInv, Counts, Failed, Idle, New

\* The requests stay, and the healthy browsers' counts.
LEMMA CountQuiet ==
    ASSUME CountInv,
           \A i \in Id : pool'[i].healthy => /\ pool[i].healthy
                                            /\ pool'[i].active = pool[i].active,
           \A r \in Render : /\ req'[r].pc = req[r].pc /\ req'[r].id = req[r].id
                             /\ (req'[r].at = "pool" <=> req[r].at = "pool"),
           \A r \in Render : req[r].id \in Id
    PROVE  CountInv'
  <1>1. \A i \in Id : Holders(i)' = Holders(i)
    BY DEF Holders
  <1> QED BY <1>1 DEF CountInv, Counts, Failed

\* The browsers of DOMAIN to are replaced: nobody holds the new ones.
LEMMA CountLeave ==
    ASSUME TypeOK, CountInv, NEW to, DOMAIN to \subseteq Id,
           \A i \in DOMAIN to : to[i] # "pool",
           NEW from, "pool" \in from, Leave(to, from),
           \A i \in DOMAIN to : pool'[i].active = 0,
           \A i \in Id \ DOMAIN to : pool'[i] = pool[i]
    PROVE  CountInv'
  <1>t. req \in [Render -> Requests] /\ \A r \in Render : req[r].id \in Id
    BY DEF TypeOK, Requests
  <1>1. \A r \in Render : /\ req'[r].pc = req[r].pc /\ req'[r].id = req[r].id
                          /\ req[r].id \in DOMAIN to => req'[r].at # "pool"
                          /\ req[r].id \notin DOMAIN to => req'[r].at = req[r].at
    <2> SUFFICES ASSUME NEW r \in Render
                 PROVE  /\ req'[r].pc = req[r].pc /\ req'[r].id = req[r].id
                        /\ req[r].id \in DOMAIN to => req'[r].at # "pool"
                        /\ req[r].id \notin DOMAIN to => req'[r].at = req[r].at
      OBVIOUS
    <2> DEFINE at == IF req[r].at \in from THEN to[req[r].id] ELSE req[r].at
    <2>1. CASE req[r].id \notin DOMAIN to
      BY <2>1 DEF Leave
    <2>2. CASE req[r].id \in DOMAIN to
      <3>1. PICK due : req'[r] = [req[r] EXCEPT !.at = at, !.due = due]
        BY <1>t, <2>2 DEF Leave, Requests
      <3>2. req'[r].pc = req[r].pc /\ req'[r].id = req[r].id /\ req'[r].at = at
        BY <1>t, <3>1 DEF Requests
      <3>3. at # "pool"
        BY <2>2
      <3> QED BY <2>2, <3>2, <3>3
    <2> QED BY <2>1, <2>2
  <1>2. \A i \in DOMAIN to : Holders(i)' = {}
    BY <1>1 DEF Holders
  <1>3. \A i \in Id \ DOMAIN to : Holders(i)' = Holders(i)
    BY <1>1 DEF Holders
  <1>4. \A i \in Id : Counts(i)'
    BY <1>2, <1>3, FS_EmptySet DEF CountInv, Counts
  <1>5. \A r \in Render : Failed(r)'
    BY <1>1, <1>t DEF CountInv, Failed
  <1> QED BY <1>4, <1>5 DEF CountInv

LEMMA CountRecreate ==
    ASSUME TypeOK, CountInv, NEW w \in Worker, Recreate(w)
    PROVE  CountInv'
  <1>t. /\ pool \in [Id -> Instances] /\ task[w].id \in Id
        /\ \A r \in Render : req[r].id \in Id
    BY DEF TypeOK, Tasks, Requests
  <1>1. CASE UNCHANGED <<pool, req>>
    BY <1>1, <1>t, CountQuiet
  <1>2. CASE Insert(w)
    <2> DEFINE to == [i \in {task[w].id} |-> "closed"]
    <2>1. Leave(to, {"pool"}) /\ DOMAIN to = {task[w].id} /\ \A i \in DOMAIN to : to[i] # "pool"
      BY <1>2 DEF Insert
    <2>2. \A i \in DOMAIN to : pool'[i].active = 0
      BY <1>2, <1>t DEF Insert, New
    <2>3. \A i \in Id \ DOMAIN to : pool'[i] = pool[i]
      BY <1>2, <1>t DEF Insert
    <2> HIDE DEF to
    <2> QED BY <2>1, <2>2, <2>3, <1>t, CountLeave
  <1>3. CASE RecoverBegin(w)
    <2> DEFINE to == [i \in Id |-> "closed"]
    <2>1. Leave(to, {"pool", "leaked"}) /\ DOMAIN to = Id /\ \A i \in DOMAIN to : to[i] # "pool"
      BY <1>3 DEF RecoverBegin
    <2>2. \A i \in Id : pool'[i].active = 0
      BY <1>3 DEF RecoverBegin, Gone
    <2> HIDE DEF to
    <2> QED BY <2>1, <2>2, CountLeave
  <1>4. CASE RecoverInstall(w)
    <2> DEFINE to == [i \in Id |-> IF pool[i].alive THEN "leaked" ELSE "closed"]
    <2>1. Leave(to, {"pool"}) /\ DOMAIN to = Id /\ \A i \in DOMAIN to : to[i] # "pool"
      BY <1>4 DEF RecoverInstall
    <2>2. \A i \in Id : pool'[i].active = 0
      BY <1>4 DEF RecoverInstall, New
    <2> HIDE DEF to
    <2> QED BY <2>1, <2>2, CountLeave
  <1> QED BY <1>1, <1>2, <1>3, <1>4
          DEF Recreate, LaunchOk, LaunchFails, LaunchClosed, RecoverSkip,
              RecoverFactory, RecoverFactoryFails, RecoverBuild, RecoverBuildFails

LEMMA CountRender ==
    ASSUME TypeOK, CountInv, NEW r \in Render, Arrive(r) \/ RenderStep(r)
    PROVE  CountInv'
  <1>t. /\ pool \in [Id -> Instances] /\ req \in [Render -> Requests]
        /\ \A q \in Render : req[q].id \in Id
    BY DEF TypeOK, Requests
  <1>n. \A i \in Id : pool[i].active \in Nat
    BY <1>t, SizesAssumption DEF Instances
  \* A request that neither holds a browser nor takes one.
  <1>0. ASSUME UNCHANGED pool, req[r].pc \notin {"busy", "clean"},
               NEW q, req' = [req EXCEPT ![r] = q], q.pc \in {"idle", "try"}
        PROVE  CountInv'
    <2>1. \A i \in Id : Holders(i)' = Holders(i)
      BY <1>0, <1>t DEF Holders
    <2> QED BY <2>1, <1>0, <1>t DEF CountInv, Counts, Failed
  <1>i. Idle.pc \in {"idle", "try"} /\ NextAttempt(r).pc \in {"idle", "try"}
        /\ [Idle EXCEPT !.pc = "try", !.attempt = 1].pc \in {"idle", "try"}
    BY DEF Idle, NextAttempt
  <1>1. CASE Arrive(r)
    BY <1>1, <1>0, <1>i DEF Arrive
  <1>2. CASE Acquire(r)
    <2>1. PICK i \in Id :
            /\ pool' = [pool EXCEPT ![i].active = @ + 1]
            /\ req' = [req EXCEPT ![r].pc = "busy", ![r].id = i, ![r].at = "pool"]
      BY <1>2 DEF Acquire
    <2>2. /\ req'[r].pc = "busy" /\ req'[r].id = i /\ req'[r].at = "pool"
          /\ \A q \in Render \ {r} : req'[q] = req[q]
      BY <2>1, <1>t DEF Requests
    <2>3. \A j \in Id : r \notin Holders(j)
      BY <1>2 DEF Acquire, Holders
    <2>4. Holders(i)' = Holders(i) \cup {r}
      BY <2>2 DEF Holders
    <2>5. \A j \in Id \ {i} : Holders(j)' = Holders(j)
      BY <2>2, <2>3 DEF Holders
    <2>6. Cardinality(Holders(i)') = Cardinality(Holders(i)) + 1
      BY <2>3, <2>4, HoldersFinite, FS_AddElement
    <2>7. \A j \in Id : pool'[j].healthy = pool[j].healthy /\ (j # i => pool'[j] = pool[j])
      BY <2>1, <1>t DEF Instances
    <2>8. pool'[i].active = pool[i].active + 1
      BY <2>1, <1>t DEF Instances
    <2>9. \A j \in Id : Counts(j)'
      BY <2>5, <2>6, <2>7, <2>8 DEF CountInv, Counts
    <2>10. \A q \in Render : Failed(q)'
      BY <2>2, <2>7, <1>t DEF CountInv, Failed
    <2> QED BY <2>9, <2>10 DEF CountInv
  <1>3. CASE Exhausted(r)
    BY <1>3, <1>0, <1>i DEF Exhausted
  <1>4. CASE PageOk(r)
    <2>1. /\ req'[r].pc = "clean" /\ req'[r].id = req[r].id /\ req'[r].at = req[r].at
          /\ \A q \in Render \ {r} : req'[q] = req[q]
      BY <1>4, <1>t DEF PageOk, Requests
    <2>2. \A i \in Id : Holders(i)' = Holders(i)
      BY <1>4, <2>1 DEF PageOk, Holders
    <2> QED BY <1>4, <2>1, <2>2 DEF PageOk, CountInv, Counts, Failed
  <1>5. CASE PageFails(r)
    <2>1. /\ req'[r].pc = "wait" /\ req'[r].id = req[r].id /\ req'[r].at = req[r].at
          /\ \A q \in Render \ {r} : req'[q] = req[q]
      BY <1>5, <1>t DEF PageFails, Requests
    <2>2. \A i \in Id : i \notin Held(r) => Holders(i)' = Holders(i) /\ pool'[i] = pool[i]
      <3> SUFFICES ASSUME NEW i \in Id, i \notin Held(r)
                   PROVE  Holders(i)' = Holders(i) /\ pool'[i] = pool[i]
        OBVIOUS
      <3>1. ~(req[r].id = i /\ req[r].at = "pool")
        BY DEF Held
      <3>2. Holders(i)' = Holders(i)
        BY <2>1, <3>1 DEF Holders
      <3>3. pool'[i] = pool[i]
        BY <1>5 DEF PageFails, Marked
      <3> QED BY <3>2, <3>3
    <2>3. \A i \in Held(r) : ~pool'[i].healthy
      BY <1>5, <1>t DEF PageFails, Marked, Held, Instances
    <2>4. \A i \in Id : Counts(i)'
      BY <2>2, <2>3 DEF CountInv, Counts
    <2>5. \A q \in Render : Failed(q)'
      BY <2>1, <2>2, <2>3, <1>t DEF CountInv, Failed, Held
    <2> QED BY <2>4, <2>5 DEF CountInv
  <1>6. CASE Finish(r)
    <2>1. req'[r].pc \in {"idle", "try"} /\ \A q \in Render \ {r} : req'[q] = req[q]
      BY <1>6, <1>t, <1>i DEF Finish
    <2>2. \A i \in Id : Holders(i)' = Holders(i) \ {r}
      BY <2>1 DEF Holders
    <2>3. \A i \in Id : i \notin Held(r) => r \notin Holders(i) /\ pool'[i] = pool[i]
      BY <1>6 DEF Finish, Holders, Held, Released, Marked
    <2>4. \A i \in Id : pool'[i].healthy => pool[i].healthy
      BY <1>6, <1>t DEF Finish, Released, Marked, Instances
    <2>5. ASSUME NEW i \in Held(r), pool'[i].healthy
          PROVE  pool'[i].active = Cardinality(Holders(i)')
      <3>1. i \in Id /\ req[r].id = i /\ req[r].at = "pool" /\ pool[i].healthy
        BY <2>4, <2>5 DEF Held
      <3>2. req[r].pc = "clean"
        BY <1>6, <3>1 DEF Finish, CountInv, Failed
      <3>3. r \in Holders(i)
        BY <3>1, <3>2 DEF Holders
      <3>4. Cardinality(Holders(i)') = Cardinality(Holders(i)) - 1
            /\ Cardinality(Holders(i)) > 0
        <4>1. Holders(i) # {} /\ IsFiniteSet(Holders(i))
          BY <3>1, <3>3, HoldersFinite
        <4> QED BY <3>1, <3>3, <2>2, <4>1, HoldersFinite, FS_RemoveElement, FS_EmptySet
      <3>5. ~(req[r].ok /\ ~Running(req[r].id, req[r].at))
        BY <1>6, <1>t, <2>5, <3>1 DEF Finish, Released, Marked, Instances
      <3>6. pool'[i].active = Dec(pool[i].active)
        BY <1>6, <1>t, <3>1, <3>5 DEF Finish, Released, Instances
      <3>7. pool[i].active = Cardinality(Holders(i))
        BY <3>1 DEF CountInv, Counts
      <3> QED BY <3>1, <3>4, <3>6, <3>7, <1>n, HoldersFinite DEF Dec
    <2>6. \A i \in Id : Counts(i)'
      <3> SUFFICES ASSUME NEW i \in Id, i \notin Held(r) PROVE Counts(i)'
        BY <2>5 DEF Counts
      <3>1. Holders(i)' = Holders(i)
        BY <2>2, <2>3
      <3> QED BY <3>1, <2>3 DEF CountInv, Counts
    <2>7. \A q \in Render : Failed(q)'
      BY <2>1, <2>4, <1>t DEF CountInv, Failed
    <2> QED BY <2>6, <2>7 DEF CountInv
  <1> QED BY <1>1, <1>2, <1>3, <1>4, <1>5, <1>6 DEF RenderStep

LEMMA CountHealth ==
    ASSUME TypeOK, CountInv, HealthWake \/ HealthCheck \/ HealthExpire
    PROVE  CountInv'
  <1>t. pool \in [Id -> Instances] /\ \A r \in Render : req[r].id \in Id
    BY DEF TypeOK, Requests
  <1>1. ASSUME NEW e, pool' = Marked(e)
        PROVE  \A i \in Id : pool'[i].healthy => /\ pool[i].healthy
                                                /\ pool'[i].active = pool[i].active
    BY <1>1, <1>t DEF Marked, Instances
  <1>2. \A i \in Id : pool'[i].healthy => /\ pool[i].healthy
                                         /\ pool'[i].active = pool[i].active
    BY <1>1 DEF HealthWake, HealthCheck, HealthExpire
  <1>3. UNCHANGED req
    BY DEF HealthWake, HealthCheck, HealthExpire
  <1> QED BY <1>t, <1>2, <1>3, CountQuiet

LEMMA CountStep == TypeOK /\ CountInv /\ [Next]_vars => CountInv'
  <1> SUFFICES ASSUME TypeOK, CountInv, [Next]_vars PROVE CountInv'
    OBVIOUS
  <1>t. /\ pool \in [Id -> Instances] /\ req \in [Render -> Requests]
        /\ \A r \in Render : req[r].id \in Id
    BY DEF TypeOK, Requests
  <1>1. ASSUME NEW s \in Slot, NEW i \in Id, Start(s, i) PROVE CountInv'
    BY <1>1, <1>t, CountQuiet DEF Start
  <1>2. ASSUME NEW i \in Id, BrowserDies(i) PROVE CountInv'
    <2>1. \A j \in Id : pool'[j].healthy = pool[j].healthy /\ pool'[j].active = pool[j].active
      BY <1>2, <1>t DEF BrowserDies, Instances
    <2> QED BY <1>2, <2>1, <1>t, CountQuiet DEF BrowserDies
  <1>3. CASE DriverDies
    <2>1. \A j \in Id : pool'[j].healthy = pool[j].healthy /\ pool'[j].active = pool[j].active
      BY <1>3, <1>t DEF DriverDies, Instances
    <2>2. \A r \in Render : /\ req'[r].pc = req[r].pc /\ req'[r].id = req[r].id
                            /\ (req'[r].at = "pool" <=> req[r].at = "pool")
      BY <1>3, <1>t DEF DriverDies, Requests
    <2> QED BY <2>1, <2>2, <1>t, CountQuiet
  <1>4. CASE UNCHANGED vars
    BY <1>4, <1>t, CountQuiet DEF vars
  <1> QED BY <1>1, <1>2, <1>3, <1>4, CountRecreate, CountRender, CountHealth DEF Next

\* The count acquire relies on is exact for every healthy browser, for any number
\* of requests, browsers and faults.
THEOREM CountsExact == Spec => []CountsRight
  <1>1. Init => TypeOK /\ CountInv
    BY InitType, CountInit
  <1>2. TypeOK /\ CountInv /\ [Next]_vars => (TypeOK /\ CountInv)'
    BY NextType, CountStep
  <1>3. CountInv => CountsRight
    BY DEF CountInv, Counts, CountsRight
  <1> QED BY <1>1, <1>2, <1>3, PTL DEF Spec

=============================================================================
