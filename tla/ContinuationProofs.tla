-------------------------- MODULE ContinuationProofs --------------------------
(***************************************************************************)
(* Theorems about Continuation, for any number of runs, tasks, postflights *)
(* under way, tokens and rows, and for every budget of cycles: its types,  *)
(* that an attempt is queued once, that closed rows stay closed and who    *)
(* settles a task that is over, that a lease is lost only as the code      *)
(* means it to be, and that no two rows are leased to one token.           *)
(*                                                                         *)
(* What has to be added to the invariants is who may write: the synchronous *)
(* stretch of a postflight has the process to itself, so that the room it  *)
(* found for a row, and the budget it checked before it counts a cycle,    *)
(* are still there when it writes.                                         *)
(***************************************************************************)
EXTENDS Continuation, WellFoundedInduction, TLAPS

-----------------------------------------------------------------------------
(* The inductive invariant *)

Alive(x) == x.status \in {"queued", "leased"}
Closed(x) == x.status \in {"completed", "cancelled"}

\* A row has lease columns only while it is leased.
Columns(x) ==
    IF x.status = "leased" THEN x.token \in Tokens
    ELSE x.token = Null /\ x.ttl = 0 /\ x.old = FALSE

\* No token is that of two leases.
OneLease(rows) ==
    \A i, j \in Rows : i # j /\ rows[i].status = "leased" /\ rows[j].status = "leased"
                       => rows[i].token # rows[j].token

\* A request that names a token of one lease can touch no other row
\* (claimContinuationForSession draws each token anew).
OneHolder == OneLease(row)

RowsInv == (\A i \in Rows : Columns(row[i])) /\ OneHolder /\ UniqueAttempt

\* One postflight at a time is between its writes, and none when the process is
\* not up.
OneWriter ==
    /\ \A h, k \in Handlers :
          handler[h].at \in WritePoints /\ handler[k].at \in WritePoints => h = k
    /\ up # "up" => \A h \in Handlers : handler[h] = Idle

\* What a postflight found is still so when it writes.
Founded(h) ==
    handler[h] # Idle =>
        /\ run[handler[h].run].task \in Tasks
        /\ handler[h].at = "enqueue" => Room
        /\ handler[h].at = "count" => task[run[handler[h].run].task].cycle < MaxCycles

\* A run gets its task once, before it accepts a postflight.
RunsInv == \A r \in Runs :
    /\ run[r].phase \in {"attached", "ready"} => run[r].task \in Tasks
    /\ run[r].phase \in {"none", "opened"} => run[r].task = Null

HandlersInv == OneWriter /\ (\A h \in Handlers : Founded(h)) /\ RunsInv

Inv == TypeOK /\ RowsInv /\ HandlersInv

\* ClosedForever and LeaseKept, of one step.
ClosedStep ==
    \A i \in Rows : row[i].status \in {"completed", "cancelled"} => row'[i] = row[i]

LeaseStep ==
    \A i \in Rows : row[i].status = "leased" =>
        IF row'[i].status \in {"completed", "cancelled"}
        THEN endedBy'[i] \in IF row[i].ttl = 0 THEN {"holder", "abort", "janitor"}
                             ELSE {"holder", "abort"}
        ELSE row'[i].token = row[i].token \/ row[i].ttl = 0 \/ row[i].old

USE BoundsAssumption DEF Null

-----------------------------------------------------------------------------
(* What becomes of a row *)

\* y is what x may become without being another continuation.
Heir(x, y) ==
    /\ y \in Row /\ Columns(y)
    /\ y.task = x.task /\ y.attempt = x.attempt
    /\ y.status = "absent" <=> x.status = "absent"
    /\ Alive(y) => Alive(x)
    /\ Closed(x) => y = x

Heirs(rows, rows2) ==
    /\ rows2 \in [Rows -> Row]
    /\ \A i \in Rows : Heir(rows[i], rows2[i])

\* Rows of a table that may be released, claimed or swept.
Table(rows) == rows \in [Rows -> Row] /\ \A i \in Rows : Columns(rows[i])

LEMMA HeirsTable == ASSUME NEW a, NEW b, Heirs(a, b) PROVE Table(b)
  BY DEF Heirs, Heir, Table

LEMMA HeirsSame == ASSUME NEW a, Table(a) PROVE Heirs(a, a)
  BY DEF Heirs, Heir, Table

LEMMA HeirsThen ==
    ASSUME NEW a, NEW b, NEW c, Heirs(a, b), Heirs(b, c) PROVE Heirs(a, c)
  BY DEF Heirs, Heir, Alive, Closed, Row

LEMMA Ticks == 0 \in 0..LeaseTime /\ LeaseTime \in 0..LeaseTime
  OBVIOUS

Statuses == {"absent", "queued", "leased", "completed", "cancelled"}

\* A write of a row's status and of its lease columns, and what it leaves.
Written(x, s, w, n, o) == [x EXCEPT !.status = s, !.token = w, !.ttl = n, !.old = o]

Wrote(x, y, s, w, n, o) ==
    /\ y \in Row
    /\ y.status = s /\ y.token = w /\ y.ttl = n /\ y.old = o
    /\ y.task = x.task /\ y.run = x.run /\ y.attempt = x.attempt

LEMMA RowWrite ==
    ASSUME NEW x \in Row, NEW s \in Statuses, NEW w \in Tokens \cup {Null},
           NEW n \in 0..LeaseTime, NEW o \in BOOLEAN
    PROVE  Wrote(x, Written(x, s, w, n, o), s, w, n, o)
  BY DEF Row, Statuses, Written, Wrote

\* A live row that is released is queued or closed without lease columns.
LEMMA ReleasedHeir ==
    ASSUME NEW x \in Row, Alive(x), NEW s \in {"queued", "completed", "cancelled"}
    PROVE  Heir(x, Released(x, s)) /\ Released(x, s).status = s
  <1>1. s \in Statuses /\ Null \in Tokens \cup {Null} /\ FALSE \in BOOLEAN
    BY DEF Statuses
  <1>2. Released(x, s) = Written(x, s, Null, 0, FALSE)  BY DEF Released, Written
  <1>3. Wrote(x, Written(x, s, Null, 0, FALSE), s, Null, 0, FALSE)
    BY <1>1, RowWrite, Ticks, Zenon
  <1>4. Wrote(x, Released(x, s), s, Null, 0, FALSE)  BY <1>2, <1>3, Zenon
  <1> QED  BY <1>4 DEF Wrote, Heir, Columns, Alive, Closed

LEMMA RequeuedHeirs ==
    ASSUME NEW rows, Table(rows), NEW cutoff \in BOOLEAN
    PROVE  Heirs(rows, Requeued(rows, cutoff))
  <1> DEFINE r == Requeued(rows, cutoff)
  <1>1. \A i \in Rows : Heir(rows[i], r[i])
    BY ReleasedHeir DEF Requeued, Table, Expired, Heir, Alive
  <1>2. r = [i \in Rows |-> r[i]]  BY DEF Requeued
  <1>3. \A i \in Rows : r[i] \in Row  BY <1>1 DEF Heir
  <1> QED  BY <1>1, <1>2, <1>3 DEF Heirs

LEMMA SweptHeirs ==
    ASSUME NEW rows, Table(rows), NEW ts, NEW s
    PROVE  Heirs(rows, Swept(rows, ts, s))
  <1> DEFINE r == Swept(rows, ts, s)
  <1>1. ASSUME NEW i \in Rows PROVE Heir(rows[i], r[i])
    <2>1. rows[i] \in Row /\ Columns(rows[i])  BY DEF Table
    <2>2. Heir(rows[i], rows[i])  BY <2>1 DEF Heir
    <2>3. Cancellable(rows[i]) => Alive(rows[i])  BY DEF Cancellable, Expired, Alive
    <2>4. Expired(rows[i]) => Alive(rows[i])  BY DEF Expired, Alive
    <2>5. \/ r[i] = rows[i]
          \/ Alive(rows[i]) /\ r[i] = Released(rows[i], "queued")
          \/ Alive(rows[i]) /\ r[i] = Released(rows[i], "cancelled")
      BY <2>3, <2>4 DEF Swept
    <2> QED  BY <2>1, <2>2, <2>5, ReleasedHeir
  <1>2. r = [i \in Rows |-> r[i]]  BY DEF Swept
  <1>3. \A i \in Rows : r[i] \in Row  BY <1>1 DEF Heir
  <1> QED  BY <1>1, <1>2, <1>3 DEF Heirs

\* The row a claim leases was queued, and its token is new.
LEMMA ClaimHeirs ==
    ASSUME NEW rows, Table(rows), NEW ts, NEW s, Claim(rows, ts, s)
    PROVE  Heirs(rows, row')
  <1>1. PICK i \in Rows, w \in Tokens :
           /\ rows[i].status = "queued"
           /\ row' = [rows EXCEPT ![i] = [@ EXCEPT !.status = "leased", !.token = w,
                                                   !.ttl = LeaseTime, !.old = FALSE]]
    BY DEF Claim, Claimable
  <1>2. rows \in [Rows -> Row] /\ rows[i] \in Row  BY DEF Table
  <1> DEFINE y == Written(rows[i], "leased", w, LeaseTime, FALSE)
  <1>3. Heir(rows[i], y)
    <2>1. "leased" \in Statuses /\ w \in Tokens \cup {Null} /\ FALSE \in BOOLEAN
      BY DEF Statuses
    <2>2. Wrote(rows[i], y, "leased", w, LeaseTime, FALSE)
      BY <1>2, <2>1, RowWrite, Ticks, Zenon
    <2> HIDE DEF y
    <2> QED  BY <1>1, <2>2 DEF Wrote, Heir, Columns, Alive, Closed
  <1>4. \A j \in Rows : Heir(rows[j], rows[j])  BY DEF Table, Heir
  <1>5. row' = [rows EXCEPT ![i] = y]  BY <1>1 DEF Written
  <1>6. y \in Row  BY <1>3 DEF Heir
  <1> HIDE DEF y
  <1> QED  BY <1>2, <1>3, <1>4, <1>5, <1>6 DEF Heirs

-----------------------------------------------------------------------------
(* What the row invariants and the lease rule need of it *)

\* Leases of rows2 were leases of rows, to the same token.
Fewer(rows, rows2) ==
    \A i \in Rows : rows2[i].status = "leased" =>
        rows[i].status = "leased" /\ rows2[i].token = rows[i].token

LEMMA FewerLeases == ASSUME NEW a, NEW b, OneLease(a), Fewer(a, b) PROVE OneLease(b)
  BY DEF OneLease, Fewer

LEMMA HeirsUnique == ASSUME UniqueAttempt, Heirs(row, row') PROVE UniqueAttempt'
  BY DEF UniqueAttempt, Live, Heirs, Heir, Alive

LEMMA HeirsRoom == ASSUME Heirs(row, row') PROVE Room' <=> Room
  BY DEF Room, Heirs, Heir

LEMMA HeirsClosed == ASSUME Heirs(row, row') PROVE ClosedStep
  BY DEF ClosedStep, Heirs, Heir, Closed

\* The rows of a step that leaves every continuation what it is.
LEMMA HeirsRows ==
    ASSUME TypeOK, RowsInv, Heirs(row, row'), OneLease(row')
    PROVE  RowsInv' /\ (Room' <=> Room) /\ ClosedStep /\ row' \in [Rows -> Row]
  <1>1. OneHolder'  BY DEF OneHolder
  <1>2. (\A i \in Rows : Columns(row[i]))'  BY HeirsTable DEF Table
  <1> QED  BY <1>1, <1>2, HeirsUnique, HeirsRoom, HeirsClosed DEF RowsInv, Heirs

LEMMA RowTable == ASSUME TypeOK, RowsInv PROVE Table(row) /\ OneLease(row)
  BY DEF TypeOK, RowsInv, Table, OneHolder

\* The janitor touches a lease only when it has run out.
LEMMA SweptLeases ==
    ASSUME NEW rows, Table(rows), NEW ts, NEW s
    PROVE  /\ Fewer(rows, Swept(rows, ts, s))
           /\ \A i \in Rows : rows[i].status = "leased" =>
                \/ Swept(rows, ts, s)[i] = rows[i]
                \/ /\ rows[i].ttl = 0
                   /\ Swept(rows, ts, s)[i].status \in {"queued", "cancelled"}
  <1> DEFINE r == Swept(rows, ts, s)
  <1>1. ASSUME NEW i \in Rows
        PROVE  \/ r[i] = rows[i]
               \/ /\ Cancellable(rows[i]) \/ Expired(rows[i])
                  /\ r[i].status \in {"queued", "cancelled"}
    <2>1. rows[i] \in Row  BY DEF Table
    <2>2. \/ r[i] = rows[i]
          \/ Expired(rows[i]) /\ r[i] = Released(rows[i], "queued")
          \/ Cancellable(rows[i]) /\ r[i] = Released(rows[i], "cancelled")
      BY DEF Swept
    <2>3. Expired(rows[i]) \/ Cancellable(rows[i]) => Alive(rows[i])
      BY DEF Expired, Cancellable, Alive
    <2> QED  BY <2>1, <2>2, <2>3, ReleasedHeir
  <1> HIDE DEF r
  <1>2. ASSUME NEW i \in Rows, rows[i].status = "leased"
        PROVE  r[i] = rows[i] \/ (rows[i].ttl = 0 /\ r[i].status \in {"queued", "cancelled"})
    BY <1>1, <1>2 DEF Cancellable, Expired
  <1>3. Fewer(rows, r)  BY <1>1 DEF Fewer
  <1> QED  BY <1>2, <1>3 DEF r

\* A claim takes back leases that ran out, and those of an earlier gateway.
LEMMA RequeuedLeases ==
    ASSUME NEW rows, Table(rows), NEW cutoff \in BOOLEAN
    PROVE  /\ Fewer(rows, Requeued(rows, cutoff))
           /\ \A i \in Rows :
                \/ Requeued(rows, cutoff)[i] = rows[i]
                \/ /\ rows[i].ttl = 0 \/ (cutoff /\ rows[i].old)
                   /\ Requeued(rows, cutoff)[i].status = "queued"
  <1> DEFINE r == Requeued(rows, cutoff)
  <1>1. ASSUME NEW i \in Rows
        PROVE  \/ r[i] = rows[i]
               \/ (rows[i].ttl = 0 \/ (cutoff /\ rows[i].old)) /\ r[i].status = "queued"
    <2>1. rows[i] \in Row  BY DEF Table
    <2>2. \/ r[i] = rows[i]
          \/ /\ rows[i].status = "leased" /\ (rows[i].ttl = 0 \/ (cutoff /\ rows[i].old))
             /\ r[i] = Released(rows[i], "queued")
      BY DEF Requeued, Expired
    <2> QED  BY <2>1, <2>2, ReleasedHeir DEF Alive
  <1> HIDE DEF r
  <1>2. Fewer(rows, r)  BY <1>1 DEF Fewer
  <1> QED  BY <1>1, <1>2 DEF r

\* A claim gives a queued row a token that no lease has.
LEMMA ClaimLeases ==
    ASSUME NEW rows, Table(rows), NEW ts, NEW s, Claim(rows, ts, s), OneLease(rows)
    PROVE  /\ OneLease(row')
           /\ \A i \in Rows : row'[i] = rows[i] \/ (rows[i].status = "queued" /\ row'[i].status = "leased")
  <1>1. PICK i \in Rows, w \in Tokens :
           /\ rows[i].status = "queued"
           /\ \A j \in Rows : w # rows[j].token
           /\ row' = [rows EXCEPT ![i] = [@ EXCEPT !.status = "leased", !.token = w,
                                                   !.ttl = LeaseTime, !.old = FALSE]]
    BY DEF Claim, Claimable
  <1>2. rows \in [Rows -> Row] /\ rows[i] \in Row  BY DEF Table
  <1>3. row'[i].status = "leased" /\ row'[i].token = w  BY <1>1, <1>2 DEF Row
  <1>4. \A j \in Rows \ {i} : row'[j] = rows[j]  BY <1>1, <1>2
  <1> QED  BY <1>1, <1>3, <1>4 DEF OneLease

-----------------------------------------------------------------------------
(* Actions that leave the rows alone *)

Kept == Inv' /\ ClosedStep /\ LeaseStep

LEMMA SameRows ==
    ASSUME TypeOK, RowsInv, UNCHANGED <<row, endedBy>>
    PROVE  /\ RowsInv' /\ (Room' <=> Room) /\ ClosedStep /\ LeaseStep
           /\ row' \in [Rows -> Row]
           /\ endedBy' \in [Rows -> {Null, "holder", "intruder", "abort", "janitor"}]
  BY DEF TypeOK, RowsInv, OneHolder, OneLease, UniqueAttempt, Live, Columns, Room, ClosedStep, LeaseStep

\* Others' steps do not disturb a postflight: no run changes the task it has,
\* and no cycle is counted while a postflight is about to.
LEMMA SameHandlers ==
    ASSUME TypeOK, HandlersInv, UNCHANGED <<handler, up>>, Room => Room',
           \A r \in Runs : run[r].task \in Tasks => run'[r].task = run[r].task,
           Ready \/ UNCHANGED task
    PROVE  OneWriter' /\ \A h \in Handlers : Founded(h)'
  <1>1. OneWriter'  BY DEF HandlersInv, OneWriter
  <1>2. ASSUME NEW h \in Handlers, handler[h] # Idle PROVE Founded(h)'
    <2>1. handler[h].run \in Runs /\ run[handler[h].run].task \in Tasks
      BY <1>2 DEF TypeOK, Postflight, HandlersInv, Founded
    <2>2. run'[handler'[h].run].task = run[handler[h].run].task  BY <2>1
    <2>3. handler[h].at = "count" => task' = task  BY DEF Ready, WritePoints
    <2> QED  BY <1>2, <2>1, <2>2, <2>3 DEF HandlersInv, Founded
  <1>3. ASSUME NEW h \in Handlers, handler[h] = Idle PROVE Founded(h)'
    BY <1>3 DEF Founded
  <1> QED  BY <1>1, <1>2, <1>3

LEMMA OpenRunStep == ASSUME Inv, NEW r \in Runs, OpenRun(r) PROVE Kept
  <1>1. /\ Ready /\ run[r].phase = "none" /\ session' = "working"
        /\ run' = [run EXCEPT ![r].phase = "opened", ![r].status = "running"]
        /\ UNCHANGED <<task, row, handler, endedBy, up>>
    BY DEF OpenRun
  <1>2. RowsInv' /\ (Room' <=> Room) /\ ClosedStep /\ LeaseStep  BY <1>1, SameRows DEF Inv
  <1>3. TypeOK'
    <2>1. run \in [Runs -> Run] /\ run[r] \in Run  BY DEF Inv, TypeOK
    <2>2. [run[r] EXCEPT !.phase = "opened", !.status = "running"] \in Run  BY <2>1 DEF Run
    <2>3. run' = [run EXCEPT ![r] = [run[r] EXCEPT !.phase = "opened", !.status = "running"]]
      BY <1>1, <2>1
    <2>4. run' \in [Runs -> Run]  BY <2>1, <2>2, <2>3
    <2> QED  BY <1>1, <2>4 DEF Inv, TypeOK, SessionStatus
  <1>4. RunsInv'
    <2>1. run \in [Runs -> Run] /\ run[r] \in Run  BY DEF Inv, TypeOK
    <2>2. run'[r].phase = "opened" /\ run'[r].task = run[r].task  BY <1>1, <2>1 DEF Run
    <2>3. \A q \in Runs \ {r} : run'[q] = run[q]  BY <1>1, <2>1
    <2>4. run[r].task = Null  BY <1>1 DEF Inv, HandlersInv, RunsInv
    <2> QED  BY <2>2, <2>3, <2>4 DEF Inv, HandlersInv, RunsInv
  <1>5. \A q \in Runs : run'[q].task = run[q].task  BY <1>1 DEF Inv, TypeOK, Run
  <1>6. HandlersInv'  BY <1>1, <1>2, <1>4, <1>5, SameHandlers DEF Inv, HandlersInv
  <1> QED  BY <1>2, <1>3, <1>6 DEF Kept, Inv

LEMMA StorePreflightStep == ASSUME Inv, NEW r \in Runs, StorePreflight(r) PROVE Kept
  <1>1. /\ Ready /\ run[r].phase = "attached"
        /\ run' = [run EXCEPT ![r].phase = "ready", ![r].status = "running"]
        /\ UNCHANGED <<task, row, session, handler, endedBy, up>>
    BY DEF StorePreflight
  <1>2. RowsInv' /\ (Room' <=> Room) /\ ClosedStep /\ LeaseStep  BY <1>1, SameRows DEF Inv
  <1>3. TypeOK'
    <2>1. run \in [Runs -> Run] /\ run[r] \in Run  BY DEF Inv, TypeOK
    <2>2. [run[r] EXCEPT !.phase = "ready", !.status = "running"] \in Run  BY <2>1 DEF Run
    <2>3. run' = [run EXCEPT ![r] = [run[r] EXCEPT !.phase = "ready", !.status = "running"]]
      BY <1>1, <2>1
    <2>4. run' \in [Runs -> Run]  BY <2>1, <2>2, <2>3
    <2> QED  BY <1>1, <2>4 DEF Inv, TypeOK
  <1>4. RunsInv'
    <2>1. run \in [Runs -> Run] /\ run[r] \in Run  BY DEF Inv, TypeOK
    <2>2. run'[r].phase = "ready" /\ run'[r].task = run[r].task  BY <1>1, <2>1 DEF Run
    <2>3. \A q \in Runs \ {r} : run'[q] = run[q]  BY <1>1, <2>1
    <2>4. run[r].task \in Tasks  BY <1>1 DEF Inv, HandlersInv, RunsInv
    <2> QED  BY <2>2, <2>3, <2>4 DEF Inv, HandlersInv, RunsInv
  <1>5. \A q \in Runs : run'[q].task = run[q].task  BY <1>1 DEF Inv, TypeOK, Run
  <1>6. HandlersInv'  BY <1>1, <1>2, <1>4, <1>5, SameHandlers DEF Inv, HandlersInv
  <1> QED  BY <1>2, <1>3, <1>6 DEF Kept, Inv

LEMMA ExpireRunStep == ASSUME Inv, NEW r \in Runs, ExpireRun(r) PROVE Kept
  <1>1. /\ Ready /\ run' = [run EXCEPT ![r].status = "over"]
        /\ UNCHANGED <<task, row, session, handler, endedBy, up>>
    BY DEF ExpireRun
  <1>2. RowsInv' /\ (Room' <=> Room) /\ ClosedStep /\ LeaseStep  BY <1>1, SameRows DEF Inv
  <1>3. TypeOK'  BY <1>1 DEF Inv, TypeOK, Run
  <1>4. RunsInv'  BY <1>1 DEF Inv, TypeOK, Run, HandlersInv, RunsInv
  <1>5. \A q \in Runs : run'[q].task = run[q].task  BY <1>1 DEF Inv, TypeOK, Run
  <1>6. HandlersInv'  BY <1>1, <1>2, <1>4, <1>5, SameHandlers DEF Inv, HandlersInv
  <1> QED  BY <1>2, <1>3, <1>6 DEF Kept, Inv

LEMMA AttachStep ==
    ASSUME Inv, NEW r \in Runs, Ready, run[r].phase = "opened",
           NEW ts \in [Tasks -> Task], NEW t \in Tasks, Attach(r, ts, t)
    PROVE  Kept
  <1>1. /\ task' = ts /\ session' = "working"
        /\ run' = [run EXCEPT ![r] = [phase |-> "attached", status |-> "running", task |-> t]]
        /\ UNCHANGED <<row, handler, endedBy, up>>
    BY DEF Attach
  <1>2. RowsInv' /\ (Room' <=> Room) /\ ClosedStep /\ LeaseStep  BY <1>1, SameRows DEF Inv
  <1>3. TypeOK'  BY <1>1 DEF Inv, TypeOK, Run, SessionStatus
  <1>4. RunsInv'  BY <1>1 DEF Inv, TypeOK, Run, HandlersInv, RunsInv
  <1>5. run[r].task \notin Tasks  BY TasksAssumption DEF Inv, HandlersInv, RunsInv
  <1>6. \A q \in Runs : run[q].task \in Tasks => run'[q].task = run[q].task
    BY <1>1, <1>5 DEF Inv, TypeOK
  <1>7. HandlersInv'  BY <1>1, <1>2, <1>4, <1>6, SameHandlers DEF Inv, HandlersInv
  <1> QED  BY <1>2, <1>3, <1>7 DEF Kept, Inv

LEMMA ReuseTaskStep ==
    ASSUME Inv, NEW r \in Runs, NEW blocking \in BOOLEAN, NEW continues \in BOOLEAN,
           ReuseTask(r, blocking, continues)
    PROVE  Kept
  <1>1. PICK t \in Tasks : Attach(r, [task EXCEPT ![t].active = r,
                                 ![t].status = IF blocking THEN @ ELSE "active"], t)
    BY DEF ReuseTask, LiveTasks
  <1>2. [task EXCEPT ![t].active = r, ![t].status = IF blocking THEN @ ELSE "active"]
          \in [Tasks -> Task]
    <2> DEFINE y == [task[t] EXCEPT !.active = r, !.status = IF blocking THEN @ ELSE "active"]
    <2>1. task \in [Tasks -> Task] /\ task[t] \in Task  BY DEF Inv, TypeOK
    <2>2. y \in Task  BY <2>1 DEF Task
    <2>3. [task EXCEPT ![t].active = r, ![t].status = IF blocking THEN @ ELSE "active"]
            = [task EXCEPT ![t] = y]
      BY <2>1
    <2> HIDE DEF y
    <2> QED  BY <2>1, <2>2, <2>3
  <1> QED  BY <1>1, <1>2, AttachStep DEF ReuseTask

LEMMA CreateTaskStep ==
    ASSUME Inv, NEW r \in Runs, NEW blocking \in BOOLEAN, CreateTask(r, blocking)
    PROVE  Kept
  <1>1. PICK t \in Tasks, old \in LiveTasks \cup {Null} :
          Attach(r, [u \in Tasks |->
                 CASE u = t -> [status |-> IF blocking THEN "waiting_for_user" ELSE "active",
                                cycle |-> 0, active |-> r, root |-> r]
                   [] u = old -> [task[u] EXCEPT !.status = "cancelled"]
                   [] OTHER -> task[u]], t)
    BY DEF CreateTask
  <1> DEFINE new == [status |-> IF blocking THEN "waiting_for_user" ELSE "active",
                     cycle |-> 0, active |-> r, root |-> r]
             ts == [u \in Tasks |->
                 CASE u = t -> new
                   [] u = old -> [task[u] EXCEPT !.status = "cancelled"]
                   [] OTHER -> task[u]]
  <1>2. new \in Task  BY DEF Task
  <1>3. \A u \in Tasks : task[u] \in Task /\ [task[u] EXCEPT !.status = "cancelled"] \in Task
    BY DEF Inv, TypeOK, Task
  <1>4. Attach(r, ts, t)  BY <1>1
  <1>5. ts \in [Tasks -> Task]
    <2> HIDE DEF new
    <2> QED  BY <1>2, <1>3
  <1> HIDE DEF ts
  <1> QED  BY <1>4, <1>5, AttachStep DEF CreateTask

-----------------------------------------------------------------------------
(* The steps of a postflight *)

\* The postflight that moves is the only one that may be between two writes.
LEMMA OneMoves ==
    ASSUME TypeOK, HandlersInv, NEW h \in Handlers, up = "up", UNCHANGED up,
           Ready \/ handler[h].at \in WritePoints,
           \A k \in Handlers \ {h} : handler'[k] = handler[k],
           \A r \in Runs : run[r].task \in Tasks => run'[r].task = run[r].task
    PROVE  /\ OneWriter'
           /\ \A k \in Handlers \ {h} : Founded(k)'
  <1>1. \A k \in Handlers \ {h} : handler[k].at \notin WritePoints
    BY DEF HandlersInv, OneWriter, Ready
  <1>2. OneWriter'  BY <1>1 DEF OneWriter
  <1>3. ASSUME NEW k \in Handlers \ {h}, handler[k] # Idle PROVE Founded(k)'
    <2>1. handler[k].run \in Runs /\ run[handler[k].run].task \in Tasks
      BY <1>3 DEF TypeOK, Postflight, HandlersInv, Founded
    <2>2. handler'[k].at \notin {"enqueue", "count"}  BY <1>1 DEF WritePoints
    <2> QED  BY <2>1, <2>2 DEF Founded
  <1>4. ASSUME NEW k \in Handlers \ {h}, handler[k] = Idle PROVE Founded(k)'
    BY <1>4 DEF Founded
  <1> QED  BY <1>2, <1>3, <1>4

\* Together: a step of h that leaves the runs' tasks as they are.
LEMMA HandlerStep ==
    ASSUME Inv, NEW h \in Handlers, up = "up", UNCHANGED up,
           Ready \/ handler[h].at \in WritePoints,
           NEW x, handler' = [handler EXCEPT ![h] = x], Founded(h)',
           run' \in [Runs -> Run], RunsInv',
           \A r \in Runs : run[r].task \in Tasks => run'[r].task = run[r].task
    PROVE  HandlersInv'
  <1>1. \A k \in Handlers \ {h} : handler'[k] = handler[k]  BY DEF Inv, TypeOK
  <1>2. OneWriter' /\ \A k \in Handlers \ {h} : Founded(k)'  BY <1>1, OneMoves DEF Inv
  <1> QED  BY <1>2 DEF HandlersInv

\* Where the postflight stands, and the run and the task it is about.
LEMMA Standing ==
    ASSUME Inv, NEW h \in Handlers, handler[h].at # "idle"
    PROVE  /\ handler[h] \in Postflight /\ handler[h].run \in Runs
           /\ run[handler[h].run].task \in Tasks
           /\ task[run[handler[h].run].task] \in Task
           /\ Look(run[handler[h].run].task) \in Seen
           /\ Adopted(h) \in [Tasks -> Task]
           /\ \A t \in Tasks : Adopted(h)[t].cycle = task[t].cycle
  <1>1. handler[h] # Idle  BY DEF Idle
  <1>2. handler[h] \in Postflight  BY <1>1 DEF Inv, TypeOK
  <1>3. handler[h].run \in Runs /\ run[handler[h].run].task \in Tasks
    BY <1>1, <1>2 DEF Inv, HandlersInv, Founded, Postflight
  <1>4. task[run[handler[h].run].task] \in Task  BY <1>3 DEF Inv, TypeOK
  <1>5. Look(run[handler[h].run].task) \in Seen  BY <1>4 DEF Look, Seen, Task
  <1>6. /\ Adopted(h) \in [Tasks -> Task]
        /\ \A t \in Tasks : Adopted(h)[t].cycle = task[t].cycle
    BY <1>3 DEF Adopted, Inv, TypeOK, Task
  <1> QED  BY <1>2, <1>3, <1>4, <1>5, <1>6

\* A postflight that moves to another point of the same kind of writes.
LEMMA MovedType ==
    ASSUME NEW x \in Postflight, NEW p \in AwaitPoints \cup WritePoints
    PROVE  [x EXCEPT !.at = p] \in Postflight /\ [x EXCEPT !.at = p].run = x.run
           /\ [x EXCEPT !.at = p].at = p
  BY DEF Postflight

LEMMA ReceivePostflightStep ==
    ASSUME Inv, NEW h \in Handlers, NEW r \in Runs, ReceivePostflight(h, r) PROVE Kept
  <1> DEFINE x == [at |-> "received", run |-> r, seen |-> [status |-> "absent", cycle |-> 0],
                   leased |-> FALSE,
                   outcome |-> [asks |-> FALSE, blocked |-> FALSE, reason |-> Null]]
  <1>1. /\ Ready /\ run[r].phase = "ready" /\ handler' = [handler EXCEPT ![h] = x]
        /\ UNCHANGED <<run, task, row, session, endedBy, up>>
    BY DEF ReceivePostflight
  <1>2. RowsInv' /\ (Room' <=> Room) /\ ClosedStep /\ LeaseStep  BY <1>1, SameRows DEF Inv
  <1>3. x \in Postflight
    BY DEF Postflight, AwaitPoints, Seen, Outcome
  <1>4. x.run = r /\ x.at = "received"  OBVIOUS
  <1> HIDE DEF x
  <1>5. TypeOK'  BY <1>1, <1>3 DEF Inv, TypeOK
  <1>6. handler'[h] = x  BY <1>1 DEF Inv, TypeOK
  <1>7. Founded(h)'  BY <1>1, <1>4, <1>6 DEF Founded, Inv, HandlersInv, RunsInv
  <1>8. RunsInv' /\ run' \in [Runs -> Run]  BY <1>1 DEF Inv, TypeOK, HandlersInv, RunsInv
  <1>9. HandlersInv'  BY <1>1, <1>7, <1>8, HandlerStep DEF Ready
  <1> QED  BY <1>2, <1>5, <1>9 DEF Kept, Inv

\* A step of h that writes its own record and the task, at most.
LEMMA TaskWriteStep ==
    ASSUME Inv, NEW h \in Handlers, up = "up", handler[h].at # "idle",
           Ready \/ handler[h].at \in WritePoints,
           NEW x \in Postflight, handler' = [handler EXCEPT ![h] = x],
           x.run = handler[h].run,
           x.at = "enqueue" => Room,
           x.at # "count",
           task' \in [Tasks -> Task], UNCHANGED <<run, row, session, endedBy, up>>
    PROVE  Kept
  <1>1. RowsInv' /\ (Room' <=> Room) /\ ClosedStep /\ LeaseStep  BY SameRows DEF Inv
  <1>2. TypeOK'  BY DEF Inv, TypeOK
  <1>3. handler'[h] = x  BY DEF Inv, TypeOK
  <1>4. Founded(h)'  BY <1>1, <1>3, Standing DEF Founded
  <1>5. RunsInv' /\ run' \in [Runs -> Run]  BY DEF Inv, TypeOK, HandlersInv, RunsInv
  <1>6. HandlersInv'  BY <1>4, <1>5, HandlerStep
  <1> QED  BY <1>1, <1>2, <1>6 DEF Kept, Inv

LEMMA AdoptTaskStep == ASSUME Inv, NEW h \in Handlers, AdoptTask(h) PROVE Kept
  <1> DEFINE x == [handler[h] EXCEPT !.at = "judging", !.seen = Look(run[handler[h].run].task)]
  <1>1. /\ Ready /\ up = "up" /\ handler[h].at = "received" /\ task' = Adopted(h)
        /\ handler' = [handler EXCEPT ![h] = x] /\ UNCHANGED <<run, row, session, endedBy, up>>
    BY DEF AdoptTask, Ready, Inv, TypeOK
  <1>2. /\ handler[h] \in Postflight /\ Look(run[handler[h].run].task) \in Seen
        /\ task' \in [Tasks -> Task]
    BY <1>1, Standing
  <1>3. x \in Postflight /\ x.run = handler[h].run /\ x.at = "judging"
    BY <1>2 DEF Postflight, AwaitPoints
  <1> HIDE DEF x
  <1> QED  BY <1>1, <1>2, <1>3, TaskWriteStep

LEMMA FailTurnStep == ASSUME Inv, NEW h \in Handlers, FailTurn(h) PROVE Kept
  <1> DEFINE x == [handler[h] EXCEPT !.at = "task", !.outcome.reason = "host"]
  <1>1. /\ Ready /\ up = "up" /\ handler[h].at = "received" /\ task' = Adopted(h)
        /\ handler' = [handler EXCEPT ![h] = x] /\ UNCHANGED <<run, row, session, endedBy, up>>
    <2>1. handler \in [Handlers -> Postflight \cup {Idle}]  BY DEF Inv, TypeOK
    <2>2. handler' = [handler EXCEPT ![h] = x]  BY <2>1 DEF FailTurn
    <2> QED  BY <2>2 DEF FailTurn, Ready
  <1>2. handler[h] \in Postflight /\ task' \in [Tasks -> Task]  BY <1>1, Standing
  <1>3. x \in Postflight /\ x.run = handler[h].run /\ x.at = "task"
    BY <1>2 DEF Postflight, WritePoints, Outcome
  <1> HIDE DEF x
  <1> QED  BY <1>1, <1>2, <1>3, TaskWriteStep

LEMMA JudgeTurnStep ==
    ASSUME Inv, NEW h \in Handlers, NEW o \in Outcome, JudgeTurn(h, o) PROVE Kept
  <1> DEFINE p == IF Eligible(h, o) THEN "enqueue" ELSE "task"
             x == [handler[h] EXCEPT !.outcome = o, !.at = p]
             t == run[handler[h].run].task
             y == [task[t] EXCEPT !.status = "waiting_for_user", !.active = handler[h].run]
  <1>1. Ready /\ up = "up" /\ handler[h].at = "judging" /\ (Eligible(h, o) => Room)
    BY DEF JudgeTurn, Ready
  <1>7. /\ task' = IF o.asks THEN [task EXCEPT ![t] = y] ELSE task
        /\ handler' = [handler EXCEPT ![h] = x] /\ UNCHANGED <<run, row, session, endedBy, up>>
    BY DEF JudgeTurn
  <1>2. handler[h] \in Postflight /\ handler[h].run \in Runs /\ t \in Tasks /\ task[t] \in Task
    BY <1>1, Standing
  <1>3. y \in Task  BY <1>2 DEF Task
  <1>4. task' \in [Tasks -> Task]
    <2> HIDE DEF y, t
    <2> QED  BY <1>7, <1>2, <1>3 DEF Inv, TypeOK
  <1>5. x \in Postflight /\ x.run = handler[h].run /\ x.at = p /\ p \in {"enqueue", "task"}
    BY <1>2 DEF Postflight, WritePoints
  <1>6. p = "enqueue" => Room  BY <1>1
  <1> HIDE DEF x, p
  <1> QED  BY <1>1, <1>7, <1>4, <1>5, <1>6, TaskWriteStep

-----------------------------------------------------------------------------
(* New rows *)

\* The least-number principle, from the well-foundedness of the naturals.
LEMMA Least ==
    ASSUME NEW S \in SUBSET Nat, S # {}
    PROVE  \E j \in S : \A k \in S : j <= k
  <1> DEFINE R == OpToRel(<, Nat)
  <1>1. IsWellFoundedOn(R, Nat)  BY NatLessThanWellFounded
  <1>2. \A a, b \in Nat : a < b => <<a, b>> \in R  BY DEF OpToRel
  <1> HIDE DEF R
  <1>3. PICK j \in S : \A k \in S : ~ (<<k, j>> \in R)  BY <1>1, WFMin
  <1>4. ASSUME NEW k \in S PROVE j <= k
    <2>1. j \in Nat /\ k \in Nat  OBVIOUS
    <2>2. ~(k < j)  BY <1>2, <1>3, <2>1, Zenon
    <2> QED  BY <2>1, <2>2
  <1> QED  BY <1>4

\* Insert takes a place that was free, and fills it with a queued row.
LEMMA InsertPlace ==
    ASSUME TypeOK, Room, NEW t \in Tasks, NEW r \in Runs \cup {Null}, NEW n \in 0..MaxCycles
    PROVE  \E i \in Rows :
              /\ row[i].status = "absent"
              /\ Insert(row, t, r, n) \in [Rows -> Row]
              /\ \A j \in Rows \ {i} : Insert(row, t, r, n)[j] = row[j]
              /\ Insert(row, t, r, n)[i].status = "queued"
              /\ Insert(row, t, r, n)[i].task = t /\ Insert(row, t, r, n)[i].attempt = n
              /\ Columns(Insert(row, t, r, n)[i])
  <1> DEFINE free == {j \in Rows : row[j].status = "absent"}
             First(j) == j \in Rows /\ row[j].status = "absent"
                         /\ \A k \in Rows : row[k].status = "absent" => j <= k
             i == CHOOSE j \in Rows : row[j].status = "absent"
                         /\ \A k \in Rows : row[k].status = "absent" => j <= k
             y == [Absent EXCEPT !.status = "queued", !.task = t, !.run = r, !.attempt = n]
  <1>1. \E j \in Rows : First(j)
    <2>1. free \in SUBSET Nat /\ free # {}  BY DEF Rows, Room
    <2>2. PICK j \in free : \A k \in free : j <= k
      <3> HIDE DEF free
      <3> QED  BY <2>1, Least
    <2> QED  BY <2>2
  <1>2. First(i)
    <2>1. i = CHOOSE j \in Rows : First(j)  OBVIOUS
    <2> HIDE DEF i, First
    <2>2. i \in Rows /\ First(i)  BY <1>1, <2>1
    <2> QED  BY <2>2
  <1>3. Insert(row, t, r, n) = [row EXCEPT ![i] = y]  BY DEF Insert
  <1>4. y \in Row /\ y.status = "queued" /\ y.task = t /\ y.attempt = n /\ Columns(y)
    BY Ticks DEF Row, Absent, Columns
  <1> HIDE DEF i, y
  <1> QED  BY <1>2, <1>3, <1>4 DEF TypeOK

LEMMA InsertRows ==
    ASSUME TypeOK, RowsInv, Room, NEW t \in Tasks, NEW r \in Runs \cup {Null},
           NEW n \in 0..MaxCycles, Queued(t, n) = {}, row' = Insert(row, t, r, n)
    PROVE  RowsInv' /\ ClosedStep /\ LeaseStep /\ row' \in [Rows -> Row]
  <1>1. PICK i \in Rows :
           /\ row[i].status = "absent" /\ row' \in [Rows -> Row]
           /\ \A j \in Rows \ {i} : row'[j] = row[j]
           /\ row'[i].status = "queued" /\ row'[i].task = t /\ row'[i].attempt = n
           /\ Columns(row'[i])
    BY InsertPlace
  <1>2. \A j \in Rows : ~(Live(j) /\ row[j].task = t /\ row[j].attempt = n)  BY DEF Queued
  <1>3. (\A j \in Rows : Columns(row[j]))'  BY <1>1 DEF RowsInv, Columns
  <1>4. OneHolder'  BY <1>1 DEF RowsInv, OneHolder, OneLease
  <1>5. UniqueAttempt'
    <2>1. \A j \in Rows \ {i} : Live(j)' <=> Live(j)  BY <1>1 DEF Live
    <2> QED  BY <1>1, <1>2, <2>1 DEF RowsInv, UniqueAttempt
  <1>6. ClosedStep /\ LeaseStep  BY <1>1 DEF ClosedStep, LeaseStep
  <1> QED  BY <1>1, <1>3, <1>4, <1>5, <1>6 DEF RowsInv

LEMMA ScheduleContinuationStep ==
    ASSUME Inv, NEW h \in Handlers, ScheduleContinuation(h) PROVE Kept
  <1> DEFINE r == handler[h].run
             t == run[r].task
  <1>1. /\ up = "up" /\ handler[h].at = "enqueue" /\ task' = [task EXCEPT ![t].active = r]
        /\ UNCHANGED <<run, session, endedBy, up>>
    BY DEF ScheduleContinuation
  <1>2. /\ handler[h] \in Postflight /\ r \in Runs /\ t \in Tasks /\ task[t] \in Task
    <2>1. handler[h].at # "idle"  BY <1>1
    <2> QED  BY <2>1, Standing
  <1>3. task' = Adopted(h)  BY <1>1 DEF Adopted
  <1>4. task' \in [Tasks -> Task] /\ \A u \in Tasks : task'[u].cycle = task[u].cycle
    <2>1. handler[h].at # "idle"  BY <1>1
    <2>2. \A u \in Tasks : Adopted(h)[u].cycle = task[u].cycle  BY <2>1, Standing
    <2>3. Adopted(h) \in [Tasks -> Task]  BY <2>1, Standing
    <2> QED  BY <1>3, <2>2, <2>3, Zenon
  <1>5. Room  BY <1>1 DEF Inv, HandlersInv, Founded, Idle
  <1>6. RunsInv' /\ run' \in [Runs -> Run]  BY <1>1 DEF Inv, TypeOK, HandlersInv, RunsInv
  <1>7. CASE BudgetSpent(t)
    <2>1. handler' = [handler EXCEPT ![h] = Idle] /\ UNCHANGED row
      BY <1>7 DEF ScheduleContinuation
    <2>2. RowsInv' /\ ClosedStep /\ LeaseStep  BY <1>1, <2>1, SameRows DEF Inv
    <2>3. TypeOK'  BY <1>1, <1>4, <2>1 DEF Inv, TypeOK
    <2>4. Founded(h)'  BY <2>1 DEF Founded, Inv, TypeOK
    <2>5. HandlersInv'  BY <1>1, <1>6, <2>1, <2>4, HandlerStep DEF WritePoints
    <2> QED  BY <2>2, <2>3, <2>5 DEF Kept, Inv
  <1>8. CASE ~BudgetSpent(t)
    <2> DEFINE n == task[t].cycle + 1
               x == [handler[h] EXCEPT !.at = "count"]
    <2>1. handler' = [handler EXCEPT ![h].at = "count"] /\ EnqueueContinuation(t, r, n)
      BY <1>8 DEF ScheduleContinuation, Move
    <2>2. n \in 0..MaxCycles /\ task[t].cycle < MaxCycles
      BY <1>2, <1>8 DEF BudgetSpent, Task
    <2>3. RowsInv' /\ ClosedStep /\ LeaseStep /\ row' \in [Rows -> Row]
      <3>1. CASE UNCHANGED row  BY <1>1, <3>1, SameRows DEF Inv
      <3>2. CASE Queued(t, n) = {} /\ row' = Insert(row, t, r, n)
        BY <1>2, <1>5, <2>2, <3>2, InsertRows DEF Inv
      <3> QED  BY <2>1, <3>1, <3>2 DEF EnqueueContinuation
    <2>4. x \in Postflight /\ x.run = r /\ x.at = "count"
      BY <1>2, MovedType DEF WritePoints
    <2>5. handler' = [handler EXCEPT ![h] = x]  BY <2>1
    <2> HIDE DEF x
    <2>6. TypeOK'  BY <1>1, <1>4, <2>3, <2>4, <2>5 DEF Inv, TypeOK
    <2>7. handler'[h] = x  BY <2>5 DEF Inv, TypeOK
    <2>8. Founded(h)'  BY <1>1, <1>2, <1>4, <2>2, <2>4, <2>7 DEF Founded
    <2>9. HandlersInv'  BY <1>1, <1>6, <2>5, <2>8, HandlerStep DEF WritePoints
    <2> QED  BY <2>3, <2>6, <2>9 DEF Kept, Inv
  <1> QED  BY <1>7, <1>8

LEMMA CountCycleStep == ASSUME Inv, NEW h \in Handlers, CountCycle(h) PROVE Kept
  <1> DEFINE t == run[handler[h].run].task
             x == [handler[h] EXCEPT !.at = "lease"]
             y == [task[t] EXCEPT !.cycle = @ + 1]
  <1>1. /\ up = "up" /\ handler[h].at = "count" /\ task' = [task EXCEPT ![t] = y]
        /\ handler' = [handler EXCEPT ![h] = x] /\ UNCHANGED <<run, row, session, endedBy, up>>
    BY DEF CountCycle, Move
  <1>2. handler[h] \in Postflight /\ t \in Tasks /\ task[t] \in Task  BY <1>1, Standing
  <1>3. task[t].cycle < MaxCycles  BY <1>1 DEF Inv, HandlersInv, Founded, Idle
  <1>4. y \in Task
    <2> DEFINE n == task[t].cycle
    <2>1. n \in 0..MaxCycles /\ task[t] \in Task  BY <1>2 DEF Task
    <2>2. n + 1 \in 0..MaxCycles  BY <1>3, <2>1
    <2>3. y = [task[t] EXCEPT !.cycle = n + 1]  OBVIOUS
    <2> HIDE DEF n, t, y
    <2> QED  BY <2>1, <2>2, <2>3 DEF Task
  <1>5. x \in Postflight /\ x.run = handler[h].run /\ x.at = "lease"
    BY <1>2, MovedType DEF WritePoints
  <1>6. task' \in [Tasks -> Task]
    <2> HIDE DEF t, y
    <2> QED  BY <1>1, <1>2, <1>4 DEF Inv, TypeOK
  <1>7. handler[h].at \in WritePoints  BY <1>1 DEF WritePoints
  <1> HIDE DEF x, t, y
  <1> QED  BY <1>1, <1>5, <1>6, <1>7, TaskWriteStep

LEMMA LeaseContinuationStep ==
    ASSUME Inv, NEW h \in Handlers, LeaseContinuation(h) PROVE Kept
  <1> DEFINE rows == Requeued(row, FALSE)
  <1>1. /\ up = "up" /\ handler[h].at = "lease" /\ handler[h].at \in WritePoints
        /\ UNCHANGED <<run, task, session, endedBy, up>>
    BY DEF LeaseContinuation, WritePoints
  <1>2. Table(row) /\ OneLease(row) /\ FALSE \in BOOLEAN  BY RowTable DEF Inv
  <1>3. Heirs(row, rows) /\ Table(rows)  BY <1>2, RequeuedHeirs, HeirsTable
  <1>4. /\ Fewer(row, rows)
        /\ \A i \in Rows : rows[i] = row[i] \/ (row[i].ttl = 0 /\ rows[i].status = "queued")
    BY <1>2, RequeuedLeases
  <1>5. OneLease(rows)  BY <1>2, <1>4, FewerLeases
  <1>6. handler[h] \in Postflight  BY <1>1, Standing
  <1>7. RunsInv' /\ run' \in [Runs -> Run]  BY <1>1 DEF Inv, TypeOK, HandlersInv, RunsInv
  <1> HIDE DEF rows
  <1>8. CASE Claim(rows, task, session) /\ handler' = [handler EXCEPT ![h].at = "task", ![h].leased = TRUE]
    <2> DEFINE x == [handler[h] EXCEPT !.at = "task", !.leased = TRUE]
    <2>1. Heirs(rows, row')  BY <1>3, <1>8, ClaimHeirs
    <2>2. Heirs(row, row')  BY <1>3, <2>1, HeirsThen
    <2>3. /\ OneLease(row')
          /\ \A i \in Rows : row'[i] = rows[i]
                             \/ (rows[i].status = "queued" /\ row'[i].status = "leased")
      BY <1>3, <1>5, <1>8, ClaimLeases
    <2>4. RowsInv' /\ (Room' <=> Room) /\ ClosedStep /\ row' \in [Rows -> Row]
      BY <2>2, <2>3, HeirsRows DEF Inv
    <2>5. LeaseStep  BY <1>4, <2>3 DEF LeaseStep
    <2>6. x \in Postflight /\ x.run = handler[h].run /\ x.at = "task"
      BY <1>6 DEF Postflight, WritePoints
    <2>7. handler' = [handler EXCEPT ![h] = x]  BY <1>8
    <2> HIDE DEF x
    <2>8. TypeOK'  BY <1>1, <2>4, <2>6, <2>7 DEF Inv, TypeOK
    <2>9. handler'[h] = x  BY <2>7 DEF Inv, TypeOK
    <2>10. Founded(h)'  BY <1>1, <2>6, <2>9, Standing DEF Founded
    <2>11. HandlersInv'  BY <1>1, <1>7, <2>7, <2>10, HandlerStep
    <2> QED  BY <2>4, <2>5, <2>8, <2>11 DEF Kept, Inv
  <1>9. CASE row' = rows /\ handler' = [handler EXCEPT ![h] = Idle]
    <2>1. RowsInv' /\ (Room' <=> Room) /\ ClosedStep /\ row' \in [Rows -> Row]
      BY <1>3, <1>5, <1>9, HeirsRows DEF Inv
    <2>2. LeaseStep  BY <1>4, <1>9 DEF LeaseStep
    <2>3. TypeOK'  BY <1>1, <1>9, <2>1 DEF Inv, TypeOK
    <2>4. Founded(h)'  BY <1>9 DEF Founded, Inv, TypeOK
    <2>5. HandlersInv'  BY <1>1, <1>7, <1>9, <2>4, HandlerStep
    <2> QED  BY <2>1, <2>2, <2>3, <2>5 DEF Kept, Inv
  <1> QED  BY <1>8, <1>9 DEF LeaseContinuation, rows

LEMMA SettleTaskStep == ASSUME Inv, NEW h \in Handlers, SettleTask(h) PROVE Kept
  <1> DEFINE t == run[handler[h].run].task
             x == [handler[h] EXCEPT !.at = "run"]
             Ends(s) == [task EXCEPT ![t].status = s, ![t].active = handler[h].run]
  <1>1. /\ up = "up" /\ handler[h].at = "task"
        /\ handler' = [handler EXCEPT ![h] = x] /\ UNCHANGED <<run, row, session, endedBy, up>>
    BY DEF SettleTask, Move
  <1>2. task' = Ends("failed") \/ task' = Ends("completed") \/ task' = task
    BY DEF SettleTask
  <1>3. /\ handler[h] \in Postflight /\ handler[h].run \in Runs /\ t \in Tasks
        /\ task[t] \in Task
    BY <1>1, Standing
  <1>4. ASSUME NEW s \in {"failed", "completed"} PROVE Ends(s) \in [Tasks -> Task]
    <2> DEFINE y == [task[t] EXCEPT !.status = s, !.active = handler[h].run]
    <2>1. y \in Task  BY <1>3 DEF Task
    <2>2. task \in [Tasks -> Task]  BY DEF Inv, TypeOK
    <2>3. Ends(s) = [task EXCEPT ![t] = y]  BY <1>3, <2>2
    <2> HIDE DEF y, t, Ends
    <2> QED  BY <1>3, <2>1, <2>2, <2>3
  <1>5. task' \in [Tasks -> Task]
    <2> HIDE DEF Ends
    <2> QED  BY <1>2, <1>4 DEF Inv, TypeOK
  <1>6. x \in Postflight /\ x.run = handler[h].run /\ x.at = "run"
    BY <1>3, MovedType DEF WritePoints
  <1>7. handler[h].at \in WritePoints  BY <1>1 DEF WritePoints
  <1> HIDE DEF x, t, Ends
  <1> QED  BY <1>1, <1>5, <1>6, <1>7, TaskWriteStep

LEMMA SettleRunStep == ASSUME Inv, NEW h \in Handlers, SettleRun(h) PROVE Kept
  <1> DEFINE r == handler[h].run
             x == [handler[h] EXCEPT !.at = "session"]
             y == [run[r] EXCEPT !.phase = IF handler[h].outcome.reason = "host" THEN "ready" ELSE "closed",
                                 !.status = IF TurnFails(h) \/ handler[h].outcome.blocked
                                            THEN "over" ELSE "done"]
  <1>1. /\ up = "up" /\ handler[h].at = "run" /\ handler[h].at \in WritePoints
        /\ handler' = [handler EXCEPT ![h] = x] /\ UNCHANGED <<task, row, session, endedBy, up>>
    BY DEF SettleRun, Move, WritePoints
  <1>2. run' = [run EXCEPT ![r] = y]  BY DEF SettleRun
  <1>3. /\ handler[h] \in Postflight /\ r \in Runs /\ run[r].task \in Tasks
    BY <1>1, Standing
  <1>4. y \in Run /\ y.task = run[r].task /\ y.phase \in {"ready", "closed"}
    <2> DEFINE phase == IF handler[h].outcome.reason = "host" THEN "ready" ELSE "closed"
               status == IF TurnFails(h) \/ handler[h].outcome.blocked THEN "over" ELSE "done"
    <2>1. phase \in {"ready", "closed"} /\ status \in {"over", "done"}  OBVIOUS
    <2>2. run[r] \in Run  BY <1>3 DEF Inv, TypeOK
    <2>3. y = [run[r] EXCEPT !.phase = phase, !.status = status]  OBVIOUS
    <2> HIDE DEF phase, status
    <2> QED  BY <2>1, <2>2, <2>3 DEF Run
  <1> HIDE DEF y
  <1>5. /\ run' \in [Runs -> Run] /\ \A q \in Runs : run'[q].task = run[q].task
    BY <1>2, <1>3, <1>4 DEF Inv, TypeOK
  <1>6. RunsInv'  BY <1>2, <1>3, <1>4 DEF Inv, TypeOK, HandlersInv, RunsInv
  <1>7. RowsInv' /\ ClosedStep /\ LeaseStep  BY <1>1, SameRows DEF Inv
  <1>8. x \in Postflight /\ x.run = r /\ x.at = "session"
    BY <1>3, MovedType DEF WritePoints
  <1> HIDE DEF x
  <1>9. TypeOK'  BY <1>1, <1>5, <1>8 DEF Inv, TypeOK
  <1>10. handler'[h] = x  BY <1>1 DEF Inv, TypeOK
  <1>11. Founded(h)'  BY <1>3, <1>5, <1>8, <1>10 DEF Founded
  <1>12. HandlersInv'  BY <1>1, <1>5, <1>6, <1>11, HandlerStep
  <1> QED  BY <1>7, <1>9, <1>12 DEF Kept, Inv

LEMMA SettleSessionStep == ASSUME Inv, NEW h \in Handlers, SettleSession(h) PROVE Kept
  <1>1. /\ up = "up" /\ handler[h].at \in WritePoints /\ session' \in SessionStatus
        /\ handler' = [handler EXCEPT ![h] = Idle] /\ UNCHANGED <<run, task, row, endedBy, up>>
    BY DEF SettleSession, WritePoints, SessionStatus
  <1>2. RowsInv' /\ ClosedStep /\ LeaseStep  BY <1>1, SameRows DEF Inv
  <1>3. TypeOK'  BY <1>1 DEF Inv, TypeOK
  <1>4. Founded(h)'  BY <1>1 DEF Founded, Inv, TypeOK
  <1>5. RunsInv' /\ run' \in [Runs -> Run]  BY <1>1 DEF Inv, TypeOK, HandlersInv, RunsInv
  <1>6. HandlersInv'  BY <1>1, <1>4, <1>5, HandlerStep
  <1> QED  BY <1>2, <1>3, <1>6 DEF Kept, Inv

-----------------------------------------------------------------------------
(* The janitor, and the claim of the endpoint *)

\* The parents after a sweep; whoever lost a row lost it to the janitor.
LEMMA SweptParents ==
    ASSUME TypeOK, NEW rows, SweepParents(rows)
    PROVE  /\ task' \in [Tasks -> Task] /\ session' \in SessionStatus
           /\ endedBy' \in [Rows -> {Null, "holder", "intruder", "abort", "janitor"}]
           /\ \A i \in Rows : rows[i].status = "cancelled" /\ row[i].status # "cancelled"
                              => endedBy'[i] = "janitor"
           /\ \A t \in Tasks : task'[t].cycle = task[t].cycle
  <1>1. \A t \in Tasks : /\ task[t] \in Task
                         /\ [task[t] EXCEPT !.status = "cancelled"] \in Task
                         /\ [task[t] EXCEPT !.status = "cancelled"].cycle = task[t].cycle
    BY DEF TypeOK, Task
  <1>2. task' = Orphaned(rows, task, session)  BY DEF SweepParents
  <1>3. /\ task' \in [Tasks -> Task]
        /\ \A t \in Tasks : task'[t].cycle = task[t].cycle
    BY <1>1, <1>2 DEF Orphaned
  <1>4. session' \in SessionStatus  BY DEF SweepParents, TypeOK, SessionStatus
  <1>5. endedBy' = [i \in Rows |-> IF rows[i].status = "cancelled" /\ row[i].status # "cancelled"
                                   THEN "janitor" ELSE endedBy[i]]
    BY DEF SweepParents
  <1>6. endedBy' \in [Rows -> {Null, "holder", "intruder", "abort", "janitor"}]
    BY <1>5 DEF TypeOK
  <1> QED  BY <1>3, <1>4, <1>5, <1>6

\* A lease that the sweep closes had run out.
LEMMA SweptRow ==
    ASSUME Inv, NEW swept, swept = Swept(row, task, session), SweepParents(swept)
    PROVE  /\ Heirs(row, swept) /\ Table(swept) /\ OneLease(swept) /\ Table(row)
           /\ \A i \in Rows : row[i].status = "leased" =>
                 \/ swept[i] = row[i]
                 \/ row[i].ttl = 0 /\ swept[i].status = "queued"
                 \/ row[i].ttl = 0 /\ swept[i].status = "cancelled" /\ endedBy'[i] = "janitor"
  <1>1. Table(row) /\ OneLease(row)  BY RowTable DEF Inv
  <1>2. Heirs(row, swept) /\ Table(swept)  BY <1>1, SweptHeirs, HeirsTable
  <1>3. /\ Fewer(row, swept)
        /\ \A i \in Rows : row[i].status = "leased" =>
              swept[i] = row[i] \/ (row[i].ttl = 0 /\ swept[i].status \in {"queued", "cancelled"})
    BY <1>1, SweptLeases
  <1>4. OneLease(swept)  BY <1>1, <1>3, FewerLeases
  <1>5. \A i \in Rows : swept[i].status = "cancelled" /\ row[i].status # "cancelled"
                        => endedBy'[i] = "janitor"
    BY SweptParents DEF Inv
  <1> QED  BY <1>1, <1>2, <1>3, <1>4, <1>5

LEMMA JanitorRows ==
    ASSUME Inv, row' = Swept(row, task, session), SweepParents(row')
    PROVE  RowsInv' /\ (Room' <=> Room) /\ ClosedStep /\ LeaseStep /\ row' \in [Rows -> Row]
  <1>1. /\ Heirs(row, row') /\ OneLease(row')
        /\ \A i \in Rows : row[i].status = "leased" =>
              \/ row'[i] = row[i]
              \/ row[i].ttl = 0 /\ row'[i].status = "queued"
              \/ row[i].ttl = 0 /\ row'[i].status = "cancelled" /\ endedBy'[i] = "janitor"
    BY SweptRow
  <1>2. LeaseStep  BY <1>1 DEF LeaseStep
  <1> QED  BY <1>1, <1>2, HeirsRows DEF Inv

LEMMA RunJanitorStep == ASSUME Inv, RunJanitor PROVE Kept
  <1>1. /\ Ready /\ row' = Swept(row, task, session) /\ SweepParents(row')
        /\ UNCHANGED <<run, handler, up>>
    BY DEF RunJanitor
  <1>2. RowsInv' /\ (Room' <=> Room) /\ ClosedStep /\ LeaseStep /\ row' \in [Rows -> Row]
    BY <1>1, JanitorRows
  <1>3. TypeOK'  BY <1>1, <1>2, SweptParents DEF Inv, TypeOK
  <1>4. RunsInv'  BY <1>1 DEF Inv, HandlersInv, RunsInv
  <1>5. HandlersInv'  BY <1>1, <1>2, <1>4, SameHandlers DEF Inv, HandlersInv
  <1> QED  BY <1>2, <1>3, <1>5 DEF Kept, Inv

LEMMA PollContinuationStep ==
    ASSUME Inv, NEW cutoff \in BOOLEAN, PollContinuation(cutoff) PROVE Kept
  <1> DEFINE swept == Swept(row, task, session)
             rows  == Requeued(swept, cutoff)
  <1>1. /\ Ready /\ SweepParents(swept) /\ UNCHANGED <<run, handler, up>>
        /\ Claim(rows, task', session') \/ row' = rows
    BY DEF PollContinuation
  <1>2. /\ Heirs(row, swept) /\ Table(swept) /\ OneLease(swept)
        /\ \A i \in Rows : row[i].status = "leased" =>
              \/ swept[i] = row[i]
              \/ row[i].ttl = 0 /\ swept[i].status = "queued"
              \/ row[i].ttl = 0 /\ swept[i].status = "cancelled" /\ endedBy'[i] = "janitor"
    BY <1>1, SweptRow
  <1> HIDE DEF swept
  <1>3. /\ Fewer(swept, rows)
        /\ \A i \in Rows :
              \/ rows[i] = swept[i]
              \/ (swept[i].ttl = 0 \/ swept[i].old) /\ rows[i].status = "queued"
    BY <1>2, RequeuedLeases
  <1>4. Heirs(swept, rows)  BY <1>2, RequeuedHeirs
  <1> HIDE DEF rows
  <1>5. Table(rows) /\ Heirs(row, rows)  BY <1>2, <1>4, HeirsTable, HeirsThen
  <1>6. OneLease(rows)  BY <1>2, <1>3, FewerLeases
  <1>7. /\ Heirs(rows, row') /\ OneLease(row')
        /\ \A i \in Rows : row'[i] = rows[i] \/ (rows[i].status = "queued" /\ row'[i].status = "leased")
    <2>1. CASE Claim(rows, task', session')
      <3>1. Heirs(rows, row')  BY <1>5, <2>1, ClaimHeirs
      <3> QED  BY <3>1, <1>5, <1>6, <2>1, ClaimLeases
    <2>2. CASE row' = rows  BY <1>5, <1>6, <2>2, HeirsSame
    <2> QED  BY <1>1, <2>1, <2>2
  <1>8. Heirs(row, row')  BY <1>5, <1>7, HeirsThen
  <1>9. RowsInv' /\ (Room' <=> Room) /\ ClosedStep /\ row' \in [Rows -> Row]
    BY <1>7, <1>8, HeirsRows DEF Inv
  <1>10. LeaseStep
    <2> SUFFICES ASSUME NEW i \in Rows, row[i].status = "leased"
                 PROVE  IF row'[i].status \in {"completed", "cancelled"}
                        THEN endedBy'[i] \in IF row[i].ttl = 0 THEN {"holder", "abort", "janitor"}
                                             ELSE {"holder", "abort"}
                        ELSE row'[i].token = row[i].token \/ row[i].ttl = 0 \/ row[i].old
      BY DEF LeaseStep
    <2>1. CASE swept[i] = row[i]  BY <1>3, <1>7, <2>1
    <2>2. CASE row[i].ttl = 0 /\ swept[i].status = "queued"  BY <1>3, <1>7, <2>2
    <2>3. CASE row[i].ttl = 0 /\ swept[i].status = "cancelled" /\ endedBy'[i] = "janitor"
      BY <1>3, <1>7, <2>3
    <2> QED  BY <1>2, <2>1, <2>2, <2>3
  <1>11. TypeOK'  BY <1>1, <1>9, SweptParents DEF Inv, TypeOK
  <1>12. RunsInv'  BY <1>1 DEF Inv, HandlersInv, RunsInv
  <1>13. HandlersInv'  BY <1>1, <1>9, <1>12, SameHandlers DEF Inv, HandlersInv
  <1> QED  BY <1>9, <1>10, <1>11, <1>13 DEF Kept, Inv

-----------------------------------------------------------------------------
(* Holders, gateways and the clock *)

\* A step that writes rows only, and makes no new continuation.
LEMMA RowsStep ==
    ASSUME Inv, Heirs(row, row'), Fewer(row, row'), LeaseStep,
           UNCHANGED <<run, task, session, handler, up>>,
           endedBy' \in [Rows -> {Null, "holder", "intruder", "abort", "janitor"}]
    PROVE  Kept
  <1>1. OneLease(row')  BY RowTable, FewerLeases DEF Inv
  <1>2. RowsInv' /\ (Room' <=> Room) /\ ClosedStep /\ row' \in [Rows -> Row]
    BY <1>1, HeirsRows DEF Inv
  <1>3. TypeOK'  BY <1>2 DEF Inv, TypeOK
  <1>4. RunsInv'  BY DEF Inv, HandlersInv, RunsInv
  <1>5. HandlersInv'  BY <1>2, <1>4, SameHandlers DEF Inv, HandlersInv
  <1> QED  BY <1>2, <1>3, <1>5 DEF Kept, Inv

LEMMA HeartbeatContinuationStep ==
    ASSUME Inv, NEW i \in Rows, NEW w \in Tokens, HeartbeatContinuation(i, w) PROVE Kept
  <1> DEFINE y == Written(row[i], "leased", row[i].token, LeaseTime, FALSE)
  <1>1. Table(row) /\ row[i] \in Row /\ Columns(row[i]) /\ row[i].status = "leased"
    BY RowTable DEF Inv, Table, HeartbeatContinuation
  <1>2. UNCHANGED <<run, task, session, handler, endedBy, up>>
    BY DEF HeartbeatContinuation
  <1>3. row' = [row EXCEPT ![i] = y]
    <2>1. row \in [Rows -> Row] /\ row[i] \in Row  BY <1>1 DEF Table
    <2>2. y = [row[i] EXCEPT !.ttl = LeaseTime, !.old = FALSE]
      BY <1>1, <2>1 DEF Written, Row
    <2>3. row' = [row EXCEPT ![i] = [row[i] EXCEPT !.ttl = LeaseTime, !.old = FALSE]]
      BY <2>1 DEF HeartbeatContinuation
    <2> QED  BY <2>2, <2>3
  <1>4. Wrote(row[i], y, "leased", row[i].token, LeaseTime, FALSE)
    <2>1. "leased" \in Statuses /\ row[i].token \in Tokens \cup {Null} /\ FALSE \in BOOLEAN
      BY <1>1 DEF Statuses, Row
    <2> QED  BY <1>1, <2>1, RowWrite, Ticks, Zenon
  <1> HIDE DEF y
  <1>5. Heir(row[i], y) /\ y.token = row[i].token /\ y.status = "leased" /\ y \in Row
    BY <1>1, <1>4 DEF Wrote, Heir, Columns, Alive, Closed
  <1>6. row'[i] = y /\ \A j \in Rows \ {i} : row'[j] = row[j]  BY <1>1, <1>3 DEF Table
  <1>7. \A j \in Rows : Heir(row[j], row[j])  BY <1>1 DEF Table, Heir
  <1>8. row' \in [Rows -> Row]  BY <1>1, <1>3, <1>5 DEF Table
  <1>9. Heirs(row, row')  BY <1>5, <1>6, <1>7, <1>8 DEF Heirs
  <1>10. Fewer(row, row') /\ LeaseStep  BY <1>1, <1>5, <1>6 DEF Fewer, LeaseStep
  <1>11. endedBy' \in [Rows -> {Null, "holder", "intruder", "abort", "janitor"}]
    BY <1>2 DEF Inv, TypeOK
  <1> QED  BY <1>2, <1>9, <1>10, <1>11, RowsStep

LEMMA CompleteContinuationStep ==
    ASSUME Inv, NEW i \in Rows, NEW w \in Tokens, NEW status \in {"completed", "cancelled"},
           CompleteContinuation(i, w, status)
    PROVE  Kept
  <1> DEFINE y == Released(row[i], status)
  <1>1. Table(row) /\ row[i] \in Row /\ row[i].status = "leased" /\ row[i].token = w
    BY RowTable DEF Inv, Table, CompleteContinuation, TokenMatches
  <1>2. UNCHANGED <<run, task, session, handler, up>> /\ row' = [row EXCEPT ![i] = y]
    BY DEF CompleteContinuation
  <1>3. endedBy' = [endedBy EXCEPT ![i] = "holder"]  BY <1>1 DEF CompleteContinuation
  <1>4. Heir(row[i], y) /\ y.status = status  BY <1>1, ReleasedHeir DEF Alive
  <1>5. y \in Row  BY <1>4 DEF Heir
  <1> HIDE DEF y
  <1>6. row'[i] = y /\ \A j \in Rows \ {i} : row'[j] = row[j]  BY <1>1, <1>2 DEF Table
  <1>7. \A j \in Rows : Heir(row[j], row[j])  BY RowTable DEF Inv, Table, Heir
  <1>8. row' \in [Rows -> Row]  BY <1>1, <1>2, <1>5 DEF Table
  <1>9. Heirs(row, row')  BY <1>4, <1>6, <1>7, <1>8 DEF Heirs
  <1>10. endedBy' \in [Rows -> {Null, "holder", "intruder", "abort", "janitor"}]
         /\ endedBy'[i] = "holder"
    BY <1>3 DEF Inv, TypeOK
  <1>11. Fewer(row, row') /\ LeaseStep  BY <1>4, <1>6, <1>10 DEF Fewer, LeaseStep
  <1> QED  BY <1>2, <1>9, <1>10, <1>11, RowsStep

\* A lease that is marked, or whose time passes, is the same lease.
LEMMA MarkedHeir ==
    ASSUME NEW x \in Row, x.status = "leased", Columns(x), NEW n \in 0..LeaseTime
    PROVE  /\ Heir(x, [x EXCEPT !.old = TRUE]) /\ Heir(x, [x EXCEPT !.ttl = n])
           /\ [x EXCEPT !.old = TRUE].status = x.status /\ [x EXCEPT !.old = TRUE].token = x.token
           /\ [x EXCEPT !.ttl = n].status = x.status /\ [x EXCEPT !.ttl = n].token = x.token
  <1> DEFINE y == [x EXCEPT !.old = TRUE]
             z == [x EXCEPT !.ttl = n]
  <1>1. y \in Row /\ y.status = x.status /\ y.token = x.token /\ y.task = x.task
        /\ y.attempt = x.attempt
    BY DEF Row
  <1>2. z \in Row /\ z.status = x.status /\ z.token = x.token /\ z.task = x.task
        /\ z.attempt = x.attempt
    BY DEF Row
  <1> HIDE DEF y, z
  <1>3. Heir(x, y) /\ Heir(x, z)  BY <1>1, <1>2 DEF Heir, Columns, Alive, Closed
  <1> QED  BY <1>1, <1>2, <1>3 DEF y, z

LEMMA GatewayRestartStep == ASSUME Inv, GatewayRestart PROVE Kept
  <1>1. /\ row' = [i \in Rows |-> IF row[i].status = "leased" THEN [row[i] EXCEPT !.old = TRUE]
                                    ELSE row[i]]
        /\ UNCHANGED <<run, task, session, handler, endedBy, up>>
    BY DEF GatewayRestart
  <1>2. \A i \in Rows : row[i] \in Row /\ Columns(row[i])  BY RowTable DEF Inv, Table
  <1>3. ASSUME NEW i \in Rows
        PROVE  Heir(row[i], row'[i]) /\ row'[i].status = row[i].status
               /\ row'[i].token = row[i].token
    <2>1. CASE row[i].status = "leased"
      <3>1. row'[i] = [row[i] EXCEPT !.old = TRUE]  BY <1>1, <2>1
      <3> QED  BY <1>2, <2>1, <3>1, MarkedHeir, Ticks, Zenon
    <2>2. CASE row[i].status # "leased"
      <3>1. row'[i] = row[i]  BY <1>1, <2>2
      <3> QED  BY <1>2, <3>1 DEF Heir
    <2> QED  BY <2>1, <2>2
  <1>4. Heirs(row, row')
    <2>1. row' = [i \in Rows |-> row'[i]]  BY <1>1
    <2> QED  BY <2>1, <1>3 DEF Heirs, Heir
  <1>5. Fewer(row, row') /\ LeaseStep  BY <1>3 DEF Fewer, LeaseStep
  <1>6. endedBy' \in [Rows -> {Null, "holder", "intruder", "abort", "janitor"}]
    BY <1>1 DEF Inv, TypeOK
  <1> QED  BY <1>1, <1>4, <1>5, <1>6, RowsStep

LEMMA TickStep == ASSUME Inv, Tick PROVE Kept
  <1>1. /\ row' = [i \in Rows |-> IF row[i].ttl > 0 THEN [row[i] EXCEPT !.ttl = @ - 1] ELSE row[i]]
        /\ UNCHANGED <<run, task, session, handler, endedBy, up>>
    BY DEF Tick
  <1>2. \A i \in Rows : row[i] \in Row /\ Columns(row[i])  BY RowTable DEF Inv, Table
  <1>3. ASSUME NEW i \in Rows
        PROVE  Heir(row[i], row'[i]) /\ row'[i].status = row[i].status
               /\ row'[i].token = row[i].token
    <2>1. CASE row[i].ttl > 0
      <3> DEFINE n == row[i].ttl - 1
      <3>1. row[i].ttl \in 0..LeaseTime  BY <1>2 DEF Row
      <3>2. n \in 0..LeaseTime  BY <2>1, <3>1
      <3>3. row[i].status = "leased"
        <4>1. ~(row[i].ttl = 0)  BY <2>1
        <4> QED  BY <4>1, <1>2 DEF Columns
      <3>4. row'[i] = [row[i] EXCEPT !.ttl = n]  BY <1>1, <2>1
      <3> HIDE DEF n
      <3>5. row[i] \in Row /\ Columns(row[i])  BY <1>2
      <3>6. /\ Heir(row[i], [row[i] EXCEPT !.ttl = n])
            /\ [row[i] EXCEPT !.ttl = n].status = row[i].status
            /\ [row[i] EXCEPT !.ttl = n].token = row[i].token
        BY <3>2, <3>3, <3>5, MarkedHeir, Zenon
      <3> QED  BY <3>4, <3>6, Zenon
    <2>2. CASE ~(row[i].ttl > 0)
      <3>1. row'[i] = row[i]  BY <1>1, <2>2
      <3> QED  BY <1>2, <3>1 DEF Heir
    <2> QED  BY <2>1, <2>2
  <1>4. Heirs(row, row')
    <2>1. row' = [i \in Rows |-> row'[i]]  BY <1>1
    <2> QED  BY <2>1, <1>3 DEF Heirs, Heir
  <1>5. Fewer(row, row') /\ LeaseStep  BY <1>3 DEF Fewer, LeaseStep
  <1>6. endedBy' \in [Rows -> {Null, "holder", "intruder", "abort", "janitor"}]
    BY <1>1 DEF Inv, TypeOK
  <1> QED  BY <1>1, <1>4, <1>5, <1>6, RowsStep

LEMMA CancelSessionStep == ASSUME Inv, CancelSession PROVE Kept
  <1>1. session' = "over" /\ UNCHANGED <<run, task, row, handler, endedBy, up>>
    BY DEF CancelSession
  <1>2. RowsInv' /\ (Room' <=> Room) /\ ClosedStep /\ LeaseStep  BY <1>1, SameRows DEF Inv
  <1>3. TypeOK'  BY <1>1 DEF Inv, TypeOK, SessionStatus
  <1>4. RunsInv'  BY <1>1 DEF Inv, HandlersInv, RunsInv
  <1>5. HandlersInv'  BY <1>1, <1>2, <1>4, SameHandlers DEF Inv, HandlersInv
  <1> QED  BY <1>2, <1>3, <1>5 DEF Kept, Inv

-----------------------------------------------------------------------------
(* Abort, exit and start-up *)

LEMMA CancelledRows ==
    ASSUME Inv, NEW is \in SUBSET {i \in Rows : Live(i)}, CancelRows(is)
    PROVE  /\ RowsInv' /\ (Room' <=> Room) /\ ClosedStep /\ LeaseStep /\ row' \in [Rows -> Row]
           /\ endedBy' \in [Rows -> {Null, "holder", "intruder", "abort", "janitor"}]
  <1>1. /\ row' = [i \in Rows |-> IF i \in is THEN Released(row[i], "cancelled") ELSE row[i]]
        /\ endedBy' = [i \in Rows |-> IF i \in is THEN "abort" ELSE endedBy[i]]
    BY DEF CancelRows
  <1>2. \A i \in Rows : row[i] \in Row /\ Columns(row[i])  BY RowTable DEF Inv, Table
  <1>3. \A i \in is : Heir(row[i], row'[i]) /\ row'[i].status = "cancelled" /\ endedBy'[i] = "abort"
    BY <1>1, <1>2, ReleasedHeir DEF Live, Alive
  <1>4. \A i \in Rows \ is : Heir(row[i], row'[i]) /\ row'[i] = row[i]
    BY <1>1, <1>2 DEF Heir
  <1>5. Heirs(row, row')
    <2>1. row' = [i \in Rows |-> row'[i]]  BY <1>1
    <2> QED  BY <2>1, <1>3, <1>4 DEF Heirs, Heir
  <1>6. Fewer(row, row') /\ LeaseStep  BY <1>3, <1>4 DEF Fewer, LeaseStep
  <1>7. OneLease(row')  BY <1>6, RowTable, FewerLeases DEF Inv
  <1>8. endedBy' \in [Rows -> {Null, "holder", "intruder", "abort", "janitor"}]
    BY <1>1 DEF Inv, TypeOK
  <1> QED  BY <1>5, <1>6, <1>7, <1>8, HeirsRows DEF Inv

LEMMA CancelledTasks ==
    ASSUME TypeOK, NEW r \in Runs, NEW ts, CancelTasks(ts, r)
    PROVE  task' \in [Tasks -> Task]
  <1>1. \A t \in Tasks : /\ task[t] \in Task
                         /\ [task[t] EXCEPT !.status = "cancelled", !.active = r] \in Task
    BY DEF TypeOK, Task
  <1>2. task' = [t \in Tasks |-> IF t \in ts
                    THEN [task[t] EXCEPT !.status = "cancelled", !.active = r] ELSE task[t]]
    BY DEF CancelTasks
  <1> QED  BY <1>1, <1>2

\* A run that is given another status keeps its phase and its task.
Reworded(r) == IF run[r].status = "running" THEN [run EXCEPT ![r].status = "over"] ELSE run

LEMMA RewordedRuns ==
    ASSUME Inv, NEW r \in Runs
    PROVE  /\ Reworded(r) \in [Runs -> Run]
           /\ \A q \in Runs : Reworded(r)[q].phase = run[q].phase /\ Reworded(r)[q].task = run[q].task
  BY DEF Reworded, Inv, TypeOK, Run

LEMMA AbortRunStep == ASSUME Inv, NEW r \in Runs, AbortRun(r) PROVE Kept
  <1>1. /\ Ready /\ run' = Reworded(r) /\ CancelRows(AbortedRows(r))
        /\ CancelTasks(AbortedTasks(r), r) /\ UNCHANGED <<session, handler, up>>
    BY DEF AbortRun, AbandonRun, Reworded
  <1>2. AbortedRows(r) \in SUBSET {i \in Rows : Live(i)}  BY DEF AbortedRows
  <1>3. /\ RowsInv' /\ (Room' <=> Room) /\ ClosedStep /\ LeaseStep /\ row' \in [Rows -> Row]
        /\ endedBy' \in [Rows -> {Null, "holder", "intruder", "abort", "janitor"}]
    BY <1>1, <1>2, CancelledRows
  <1>4. task' \in [Tasks -> Task]  BY <1>1, CancelledTasks DEF Inv
  <1>5. /\ run' \in [Runs -> Run]
        /\ \A q \in Runs : run'[q].phase = run[q].phase /\ run'[q].task = run[q].task
    BY <1>1, RewordedRuns
  <1>6. TypeOK'  BY <1>1, <1>3, <1>4, <1>5 DEF Inv, TypeOK
  <1>7. RunsInv'  BY <1>5 DEF Inv, HandlersInv, RunsInv
  <1>8. HandlersInv'  BY <1>1, <1>3, <1>5, <1>7, SameHandlers DEF Inv, HandlersInv
  <1> QED  BY <1>3, <1>6, <1>8 DEF Kept, Inv

\* An exit takes every postflight with it, and closes the preflights.
LEMMA ExitStep ==
    ASSUME Inv, NEW rs \in [Runs -> Run], Exit(rs),
           \A q \in Runs : rs[q].phase = run[q].phase /\ rs[q].task = run[q].task,
           RowsInv', ClosedStep, LeaseStep, row' \in [Rows -> Row],
           endedBy' \in [Rows -> {Null, "holder", "intruder", "abort", "janitor"}],
           task' \in [Tasks -> Task], UNCHANGED session
    PROVE  Kept
  <1>1. /\ up' = "down" /\ handler' = [h \in Handlers |-> Idle]
        /\ run' = [r \in Runs |-> IF rs[r].phase \in {"opened", "attached"}
                                   THEN [rs[r] EXCEPT !.phase = "closed"] ELSE rs[r]]
    BY DEF Exit
  <1>2. \A r \in Runs : /\ rs[r] \in Run /\ [rs[r] EXCEPT !.phase = "closed"] \in Run
                        /\ [rs[r] EXCEPT !.phase = "closed"].phase = "closed"
    BY DEF Run
  <1>3. run' \in [Runs -> Run]  BY <1>1, <1>2
  <1>4. TypeOK'  BY <1>1, <1>3 DEF Inv, TypeOK
  <1>5. OneWriter' /\ \A h \in Handlers : Founded(h)'
    BY <1>1 DEF OneWriter, Founded, Idle, WritePoints
  <1>6. RunsInv'  BY <1>1, <1>2 DEF Inv, HandlersInv, RunsInv
  <1> QED  BY <1>4, <1>5, <1>6 DEF Kept, Inv, HandlersInv

LEMMA AbortCutStep == ASSUME Inv, NEW r \in Runs, AbortCut(r) PROVE Kept
  <1>1. Exit(Reworded(r)) /\ UNCHANGED session  BY DEF AbortCut, Reworded
  <1>2. /\ Reworded(r) \in [Runs -> Run]
        /\ \A q \in Runs : Reworded(r)[q].phase = run[q].phase /\ Reworded(r)[q].task = run[q].task
    BY RewordedRuns
  <1>3. AbortedRows(r) \in SUBSET {i \in Rows : Live(i)}  BY DEF AbortedRows
  <1>4. CASE UNCHANGED <<row, endedBy, task>>
    <2>1. /\ RowsInv' /\ ClosedStep /\ LeaseStep /\ row' \in [Rows -> Row]
          /\ endedBy' \in [Rows -> {Null, "holder", "intruder", "abort", "janitor"}]
      BY <1>4, SameRows DEF Inv
    <2>2. task' \in [Tasks -> Task]  BY <1>4 DEF Inv, TypeOK
    <2> QED  BY <1>1, <1>2, <2>1, <2>2, ExitStep
  <1>5. CASE CancelRows(AbortedRows(r)) /\ \E ts \in SUBSET AbortedTasks(r) : CancelTasks(ts, r)
    <2>1. /\ RowsInv' /\ ClosedStep /\ LeaseStep /\ row' \in [Rows -> Row]
          /\ endedBy' \in [Rows -> {Null, "holder", "intruder", "abort", "janitor"}]
      BY <1>3, <1>5, CancelledRows
    <2>2. task' \in [Tasks -> Task]  BY <1>5, CancelledTasks DEF Inv
    <2> QED  BY <1>1, <1>2, <2>1, <2>2, ExitStep
  <1> QED  BY <1>4, <1>5 DEF AbortCut

LEMMA ProcessExitStep == ASSUME Inv, ProcessExit PROVE Kept
  <1>1. Exit(run) /\ UNCHANGED <<task, row, session, endedBy>>  BY DEF ProcessExit
  <1>2. /\ RowsInv' /\ ClosedStep /\ LeaseStep /\ row' \in [Rows -> Row]
        /\ endedBy' \in [Rows -> {Null, "holder", "intruder", "abort", "janitor"}]
    BY <1>1, SameRows DEF Inv
  <1>3. run \in [Runs -> Run] /\ task' \in [Tasks -> Task]  BY <1>1 DEF Inv, TypeOK
  <1> QED  BY <1>1, <1>2, <1>3, ExitStep

\* Start-up happens before any request is served.
LEMMA BootHandlers ==
    ASSUME Inv, up # "up", UNCHANGED handler, run' \in [Runs -> Run],
           \A q \in Runs : run'[q].phase = run[q].phase /\ run'[q].task = run[q].task
    PROVE  HandlersInv'
  <1>1. \A h \in Handlers : handler'[h] = Idle  BY DEF Inv, HandlersInv, OneWriter
  <1>2. OneWriter' /\ \A h \in Handlers : Founded(h)'
    BY <1>1 DEF OneWriter, Founded, Idle, WritePoints
  <1>3. RunsInv'  BY DEF Inv, HandlersInv, RunsInv
  <1> QED  BY <1>2, <1>3 DEF HandlersInv

LEMMA StartBootStep == ASSUME Inv, StartBoot PROVE Kept
  <1>1. /\ up = "down" /\ up' = "booting" /\ UNCHANGED <<task, row, session, handler, endedBy>>
        /\ run' = [r \in Runs |-> IF run[r].status = "running"
                                   THEN [run[r] EXCEPT !.status = "over"] ELSE run[r]]
    BY DEF StartBoot
  <1>2. RowsInv' /\ ClosedStep /\ LeaseStep  BY <1>1, SameRows DEF Inv
  <1>3. \A r \in Runs : /\ run[r] \in Run /\ [run[r] EXCEPT !.status = "over"] \in Run
                        /\ [run[r] EXCEPT !.status = "over"].phase = run[r].phase
                        /\ [run[r] EXCEPT !.status = "over"].task = run[r].task
    BY DEF Inv, TypeOK, Run
  <1>4. /\ run' \in [Runs -> Run]
        /\ \A q \in Runs : run'[q].phase = run[q].phase /\ run'[q].task = run[q].task
    BY <1>1, <1>3
  <1>5. TypeOK'  BY <1>1, <1>4 DEF Inv, TypeOK
  <1>6. HandlersInv'  BY <1>1, <1>4, BootHandlers
  <1> QED  BY <1>2, <1>5, <1>6 DEF Kept, Inv

LEMMA RecoverTaskStep == ASSUME Inv, NEW t \in Tasks, RecoverTask(t) PROVE Kept
  <1> DEFINE n == Smaller(MaxCycles, task[t].cycle + 1)
             y == [task[t] EXCEPT !.cycle = n]
  <1>1. /\ up = "booting" /\ NeedsRecovery(t) /\ Room
        /\ row' = Insert(row, t, task[t].active, n) /\ task' = [task EXCEPT ![t] = y]
        /\ UNCHANGED <<run, session, handler, endedBy, up>>
    BY DEF RecoverTask
  <1>2. task[t] \in Task /\ task[t].active \in Runs \cup {Null}  BY DEF Inv, TypeOK, Task
  <1>3. n \in 0..MaxCycles  BY <1>2 DEF Smaller, Task
  <1>4. Queued(t, n) = {}  BY <1>1 DEF NeedsRecovery, HasLive, Queued, Live
  <1> HIDE DEF n
  <1>5. RowsInv' /\ ClosedStep /\ LeaseStep /\ row' \in [Rows -> Row]
    BY <1>1, <1>2, <1>3, <1>4, InsertRows DEF Inv
  <1>6. y \in Task  BY <1>2, <1>3 DEF Task
  <1> HIDE DEF y
  <1>7. TypeOK'  BY <1>1, <1>5, <1>6 DEF Inv, TypeOK
  <1>8. HandlersInv'  BY <1>1, BootHandlers DEF Inv, TypeOK
  <1> QED  BY <1>5, <1>7, <1>8 DEF Kept, Inv

LEMMA FinishBootStep == ASSUME Inv, FinishBoot PROVE Kept
  <1>1. /\ up = "booting" /\ up' = "up" /\ row' = Swept(row, task, session) /\ SweepParents(row')
        /\ UNCHANGED <<run, handler>>
    BY DEF FinishBoot
  <1>2. RowsInv' /\ (Room' <=> Room) /\ ClosedStep /\ LeaseStep /\ row' \in [Rows -> Row]
    BY <1>1, JanitorRows
  <1>3. TypeOK'  BY <1>1, <1>2, SweptParents DEF Inv, TypeOK
  <1>4. HandlersInv'  BY <1>1, BootHandlers DEF Inv, TypeOK
  <1> QED  BY <1>2, <1>3, <1>4 DEF Kept, Inv

-----------------------------------------------------------------------------
(* The invariant *)

LEMMA Initial == Init => Inv
  <1> SUFFICES ASSUME Init PROVE Inv  OBVIOUS
  <1>1. Absent \in Row /\ Columns(Absent) /\ Absent.status = "absent"
    BY Ticks DEF Absent, Row, Columns
  <1>2. \A i \in Rows : row[i] = Absent  BY DEF Init
  <1>3. TypeOK
    <2>1. row \in [Rows -> Row]  BY <1>1 DEF Init
    <2>2. run \in [Runs -> Run]  BY DEF Init, Run
    <2>3. task \in [Tasks -> Task]  BY DEF Init, Task
    <2> QED  BY <2>1, <2>2, <2>3 DEF Init, TypeOK, SessionStatus
  <1>4. RowsInv  BY <1>1, <1>2 DEF RowsInv, OneHolder, OneLease, UniqueAttempt, Live
  <1>5. HandlersInv
    BY DEF Init, HandlersInv, OneWriter, Founded, RunsInv, Idle, WritePoints
  <1> QED  BY <1>3, <1>4, <1>5 DEF Inv

LEMMA PostflightStepKept ==
    ASSUME Inv, NEW h \in Handlers, PostflightStep(h) PROVE Kept
  BY ReceivePostflightStep, AdoptTaskStep, FailTurnStep, JudgeTurnStep,
     ScheduleContinuationStep, CountCycleStep, LeaseContinuationStep,
     SettleTaskStep, SettleRunStep, SettleSessionStep DEF PostflightStep

LEMMA StepKept == Inv /\ [Next]_vars => Kept
  <1> SUFFICES ASSUME Inv, [Next]_vars PROVE Kept  OBVIOUS
  <1>1. CASE UNCHANGED vars
    <2>1. UNCHANGED <<run, task, row, session, handler, endedBy, up>>  BY <1>1 DEF vars
    <2>2. RowsInv' /\ (Room' <=> Room) /\ ClosedStep /\ LeaseStep
      BY <2>1, SameRows DEF Inv
    <2>3. TypeOK'  BY <2>1 DEF Inv, TypeOK
    <2>4. RunsInv'  BY <2>1 DEF Inv, HandlersInv, RunsInv
    <2>5. HandlersInv'  BY <2>1, <2>2, <2>4, SameHandlers DEF Inv, HandlersInv
    <2> QED  BY <2>2, <2>3, <2>5 DEF Kept, Inv
  <1>2. ASSUME NEW r \in Runs, Preflight(r) PROVE Kept
    BY <1>2, OpenRunStep, CreateTaskStep, ReuseTaskStep, StorePreflightStep DEF Preflight
  <1>3. ASSUME NEW r \in Runs, ExpireRun(r) \/ AbortRun(r) \/ AbortCut(r) PROVE Kept
    BY <1>3, ExpireRunStep, AbortRunStep, AbortCutStep
  <1>4. ASSUME NEW h \in Handlers, PostflightStep(h) PROVE Kept  BY <1>4, PostflightStepKept
  <1>5. ASSUME RunJanitor \/ \E cutoff \in BOOLEAN : PollContinuation(cutoff) PROVE Kept
    BY <1>5, RunJanitorStep, PollContinuationStep
  <1>6. ASSUME NEW i \in Rows, NEW w \in Tokens, Holder(i, w) PROVE Kept
    BY <1>6, HeartbeatContinuationStep, CompleteContinuationStep DEF Holder
  <1>7. ASSUME CancelSession \/ GatewayRestart \/ Tick PROVE Kept
    BY <1>7, CancelSessionStep, GatewayRestartStep, TickStep
  <1>8. ASSUME ProcessExit \/ StartBoot \/ (\E t \in Tasks : RecoverTask(t)) \/ FinishBoot
        PROVE  Kept
    BY <1>8, ProcessExitStep, StartBootStep, RecoverTaskStep, FinishBootStep
  <1> QED  BY <1>1, <1>2, <1>3, <1>4, <1>5, <1>6, <1>7, <1>8 DEF Next

LEMMA Invariance == Spec => []Inv
  <1>1. Inv /\ [Next]_vars => Inv'  BY StepKept DEF Kept
  <1> QED  BY Initial, <1>1, PTL DEF Spec

-----------------------------------------------------------------------------
(* Tasks that are over *)

Over(t) == task[t].status \in {"completed", "failed", "cancelled"}

\* The rest of ClosedForever: what becomes of such a task in one step.
Settled(t) ==
    \/ task'[t].status \in {task[t].status, "cancelled"}
    \/ \E h \in Handlers : Settles(h, t)

\* No postflight is needed to write the tasks that are not over.
OthersWrite ==
    \A t \in Tasks : Over(t) => task'[t].status \in {task[t].status, "cancelled"}

LEMMA PreflightWrites == ASSUME TypeOK, NEW r \in Runs, Preflight(r) PROVE OthersWrite
  <1>1. task \in [Tasks -> Task]  BY DEF TypeOK
  <1>2. CASE OpenRun(r) \/ StorePreflight(r)
    BY <1>2 DEF OpenRun, StorePreflight, OthersWrite
  <1>3. ASSUME NEW blocking \in BOOLEAN, CreateTask(r, blocking) PROVE OthersWrite
    <2>1. PICK t \in Tasks, old \in LiveTasks \cup {Null} :
            /\ task[t].status = "absent"
            /\ task' = [u \in Tasks |->
                 CASE u = t -> [status |-> IF blocking THEN "waiting_for_user" ELSE "active",
                                cycle |-> 0, active |-> r, root |-> r]
                   [] u = old -> [task[u] EXCEPT !.status = "cancelled"]
                   [] OTHER -> task[u]]
      BY <1>3 DEF CreateTask, Attach
    <2> SUFFICES ASSUME NEW u \in Tasks, Over(u)
                 PROVE  task'[u].status \in {task[u].status, "cancelled"}
      BY DEF OthersWrite
    <2>2. u # t  BY <2>1 DEF Over
    <2>3. CASE u = old
      <3>1. task'[u] = [task[u] EXCEPT !.status = "cancelled"]  BY <2>1, <2>2, <2>3
      <3> QED  BY <1>1, <3>1 DEF Task
    <2>4. CASE u # old  BY <2>1, <2>2, <2>4
    <2> QED  BY <2>3, <2>4
  <1>4. ASSUME NEW blocking \in BOOLEAN, NEW continues \in BOOLEAN, ReuseTask(r, blocking, continues)
        PROVE  OthersWrite
    <2>1. PICK t \in LiveTasks :
            task' = [task EXCEPT ![t].active = r, ![t].status = IF blocking THEN @ ELSE "active"]
      BY <1>4 DEF ReuseTask, Attach
    <2>2. \A u \in Tasks : Over(u) => u # t  BY <2>1 DEF LiveTasks, Over
    <2>3. \A u \in Tasks : u # t => task'[u] = task[u]  BY <1>1, <2>1
    <2> QED  BY <2>2, <2>3 DEF OthersWrite
  <1> QED  BY <1>2, <1>3, <1>4 DEF Preflight

LEMMA CancelWrites ==
    ASSUME TypeOK, NEW r, NEW ts, CancelTasks(ts, r) PROVE OthersWrite
  <1>1. task \in [Tasks -> Task]  BY DEF TypeOK
  <1> QED  BY <1>1 DEF CancelTasks, OthersWrite, Task

LEMMA SweepWrites == ASSUME TypeOK, NEW rows, SweepParents(rows) PROVE OthersWrite
  <1>1. task \in [Tasks -> Task] /\ task' = Orphaned(rows, task, session)
    BY DEF TypeOK, SweepParents
  <1> QED  BY <1>1 DEF Orphaned, OthersWrite, Task

LEMMA PostflightWrites ==
    ASSUME Inv, NEW h \in Handlers, PostflightStep(h), NEW t \in Tasks, Over(t)
    PROVE  Settled(t)
  <1> DEFINE own == run[handler[h].run].task
  <1>1. task \in [Tasks -> Task] /\ handler \in [Handlers -> Postflight \cup {Idle}]
    BY DEF Inv, TypeOK
  <1>2. CASE task' = task  BY <1>2 DEF Settled
  <1>3. CASE \A u \in Tasks : task'[u].status = task[u].status  BY <1>3 DEF Settled
  <1>4. CASE (\E r \in Runs : ReceivePostflight(h, r)) \/ LeaseContinuation(h) \/ SettleRun(h)
             \/ SettleSession(h)
    BY <1>2, <1>4 DEF ReceivePostflight, LeaseContinuation, SettleRun, SettleSession
  <1>5. CASE AdoptTask(h) \/ FailTurn(h) \/ ScheduleContinuation(h)
    <2>1. task' = [task EXCEPT ![own].active = handler[h].run]
      BY <1>5 DEF AdoptTask, FailTurn, Adopted, ScheduleContinuation
    <2> HIDE DEF own
    <2>2. \A u \in Tasks : task'[u].status = task[u].status  BY <1>1, <2>1 DEF Task
    <2> QED  BY <1>3, <2>2
  <1>6. CASE CountCycle(h)
    <2>1. task' = [task EXCEPT ![own].cycle = @ + 1]  BY <1>6 DEF CountCycle
    <2> HIDE DEF own
    <2>2. \A u \in Tasks : task'[u].status = task[u].status  BY <1>1, <2>1 DEF Task
    <2> QED  BY <1>3, <2>2
  <1>7. CASE (\E o \in Outcome : JudgeTurn(h, o)) \/ SettleTask(h)
    <2>1. handler[h].at \in {"judging", "task"}  BY <1>7 DEF JudgeTurn, SettleTask
    <2>2. handler'[h].at # handler[h].at
      <3>1. handler[h] \in Postflight  BY <1>1, <2>1 DEF Idle
      <3>2. CASE \E o \in Outcome : JudgeTurn(h, o)
        <4>1. PICK o \in Outcome :
                /\ handler[h].at = "judging"
                /\ handler' = [handler EXCEPT ![h].outcome = o,
                                  ![h].at = IF Eligible(h, o) THEN "enqueue" ELSE "task"]
          BY <3>2 DEF JudgeTurn
        <4> QED  BY <1>1, <3>1, <4>1 DEF Postflight
      <3>3. CASE SettleTask(h)
        <4>1. handler[h].at = "task" /\ handler' = [handler EXCEPT ![h].at = "run"]
          BY <3>3 DEF SettleTask, Move
        <4> QED  BY <1>1, <3>1, <4>1 DEF Postflight
      <3> QED  BY <1>7, <3>2, <3>3
    <2>3. CASE own = t  BY <2>1, <2>2, <2>3 DEF Settles, Settled
    <2>4. CASE own # t
      <3>1. CASE \E o \in Outcome : JudgeTurn(h, o)
        <4>1. \/ task' = task
              \/ task' = [task EXCEPT ![own] = [@ EXCEPT !.status = "waiting_for_user",
                                                         !.active = handler[h].run]]
          BY <3>1 DEF JudgeTurn
        <4> HIDE DEF own
        <4> QED  BY <1>1, <2>4, <4>1 DEF Settled
      <3>2. CASE SettleTask(h)
        <4>1. \/ task' = task
              \/ task' = [task EXCEPT ![own].status = "failed", ![own].active = handler[h].run]
              \/ task' = [task EXCEPT ![own].status = "completed", ![own].active = handler[h].run]
          BY <3>2 DEF SettleTask
        <4> HIDE DEF own
        <4> QED  BY <1>1, <2>4, <4>1 DEF Settled
      <3> QED  BY <1>7, <3>1, <3>2
    <2> QED  BY <2>3, <2>4
  <1> QED  BY <1>4, <1>5, <1>6, <1>7 DEF PostflightStep

LEMMA TasksSettled == Inv /\ [Next]_vars => \A t \in Tasks : Over(t) => Settled(t)
  <1> SUFFICES ASSUME Inv, [Next]_vars PROVE \A t \in Tasks : Over(t) => Settled(t)  OBVIOUS
  <1>1. TypeOK /\ task \in [Tasks -> Task]  BY DEF Inv, TypeOK
  <1>2. CASE OthersWrite  BY <1>2 DEF OthersWrite, Settled
  <1>3. CASE task' = task  BY <1>3 DEF Settled
  <1>4. CASE \E h \in Handlers : PostflightStep(h)  BY <1>4, PostflightWrites
  <1>5. CASE \E r \in Runs : Preflight(r)  BY <1>1, <1>2, <1>5, PreflightWrites
  <1>6. CASE \E r \in Runs : AbortRun(r) \/ AbortCut(r)
    BY <1>1, <1>2, <1>3, <1>6, CancelWrites DEF AbortRun, AbortCut
  <1>7. CASE RunJanitor \/ (\E cutoff \in BOOLEAN : PollContinuation(cutoff)) \/ FinishBoot
    BY <1>1, <1>2, <1>7, SweepWrites DEF RunJanitor, PollContinuation, FinishBoot
  <1>8. CASE \E t \in Tasks : RecoverTask(t)
    <2>1. PICK t \in Tasks : \E n : task' = [task EXCEPT ![t].cycle = n]  BY <1>8 DEF RecoverTask
    <2>2. OthersWrite  BY <1>1, <2>1 DEF OthersWrite, Task
    <2> QED  BY <1>2, <2>2
  <1>9. CASE \/ \E r \in Runs : ExpireRun(r)
             \/ \E i \in Rows, w \in Tokens : Holder(i, w)
             \/ CancelSession \/ GatewayRestart \/ Tick \/ ProcessExit \/ StartBoot
    BY <1>3, <1>9 DEF ExpireRun, Holder, HeartbeatContinuation, CompleteContinuation, CancelSession,
         GatewayRestart, Tick, ProcessExit, StartBoot
  <1>10. CASE UNCHANGED vars  BY <1>3, <1>10 DEF vars
  <1> QED  BY <1>4, <1>5, <1>6, <1>7, <1>8, <1>9, <1>10 DEF Next

-----------------------------------------------------------------------------
(* Theorems *)

\* The rows, the tasks and the postflights under way have their types: no task
\* counts more cycles than its budget, whoever counts them.
THEOREM TypeCorrect == Spec => []TypeOK
  <1>1. Inv => TypeOK  BY DEF Inv
  <1> QED  BY Invariance, <1>1, PTL

\* Postflights that race, a crash before the cycle is counted and the start-up
\* recovery never queue an attempt of a task again (scheduleCognitiveContinuation,
\* enqueueContinuation, reconcileCommandJobsAfterRestart).
THEOREM UniqueAttemptHolds == Spec => []UniqueAttempt
  <1>1. Inv => UniqueAttempt  BY DEF Inv, RowsInv
  <1> QED  BY Invariance, <1>1, PTL

\* No two rows are leased to one token, whatever the number of sessions' polls,
\* postflights and restarted gateways that claim them.
THEOREM OneHolderHolds == Spec => []OneHolder
  <1>1. Inv => OneHolder  BY DEF Inv, RowsInv
  <1> QED  BY Invariance, <1>1, PTL

\* No claim, sweep, abort, recovery or late request of a holder changes a row
\* that was completed or cancelled; and a task that is over changes only by an abort
\* or by a postflight that was let in for one of its runs (postflightGatewayTurn).
THEOREM ClosedForeverHolds == Spec => ClosedForever
  <1> DEFINE Step ==
          /\ \A i \in Rows : row[i].status \in {"completed", "cancelled"} => row'[i] = row[i]
          /\ \A t \in Tasks : task[t].status \in {"completed", "failed", "cancelled"} =>
                \/ task'[t].status \in {task[t].status, "cancelled"}
                \/ \E h \in Handlers : Settles(h, t)
  <1>1. Inv /\ [Next]_vars => [Step]_vars
    BY StepKept, TasksSettled DEF Kept, ClosedStep, Over, Settled
  <1>2. [][Step]_vars => ClosedForever  BY DEF ClosedForever
  <1> HIDE DEF Step
  <1> QED  BY Invariance, <1>1, <1>2, PTL DEF Spec

\* A lease is given away only after it ran out or after a restarted gateway
\* declared it its predecessor's, and is closed only by its own holder, by an
\* abort or, once it ran out, by the janitor.
THEOREM LeaseKeptHolds == Spec => LeaseKept
  <1> DEFINE Step == \A i \in Rows : row[i].status = "leased" =>
          IF row'[i].status \in {"completed", "cancelled"}
          THEN endedBy'[i] \in IF row[i].ttl = 0 THEN {"holder", "abort", "janitor"}
                               ELSE {"holder", "abort"}
          ELSE row'[i].token = row[i].token \/ row[i].ttl = 0 \/ row[i].old
  <1>1. Inv /\ [Next]_vars => [Step]_vars  BY StepKept DEF Kept, LeaseStep
  <1>2. [][Step]_vars => LeaseKept  BY DEF LeaseKept
  <1> HIDE DEF Step
  <1> QED  BY Invariance, <1>1, <1>2, PTL DEF Spec

=============================================================================
