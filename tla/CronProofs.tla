----------------------------- MODULE CronProofs -----------------------------
(***************************************************************************)
(* Theorems about the cron service, for every set of jobs and executions,   *)
(* every max_instances and any number of crashes.  The invariant is split   *)
(* by what it needs: types, the lock, the flag and the scheduler's jobs.    *)
(***************************************************************************)
EXTENDS Cron, FiniteSetTheorems, TLAPS

USE DEF Idle, Holder, Instances, Put, End, Launch, Execute, table, execs, vars

(* The initial state has its types. *)
LEMMA TypeInit == Init => TypeOK
  BY ConstantsAssumption DEF Init, TypeOK

(* Every step keeps the types: one case per action. *)
LEMMA TypeStep == TypeOK /\ [Next]_vars => TypeOK'
<1> SUFFICES ASSUME TypeOK, [Next]_vars PROVE TypeOK'
  OBVIOUS
<1> USE DEF TypeOK
<1>1. ASSUME NEW j \in Jobs, Add(j) PROVE TypeOK'
  BY <1>1 DEF Add
<1>2. ASSUME NEW j \in Jobs, Update(j) PROVE TypeOK'
  <2>1. rows' = rows /\ running' = running /\ up' = up /\ crashes' = crashes
        /\ UNCHANGED <<execs>> /\ j \in rows /\ up
    BY <1>2 DEF Update
  <2>2. enabled' \subseteq rows /\ once' \subseteq rows /\ sched' \subseteq rows
    BY <1>2 DEF Update
  <2>3. /\ oneShot' \subseteq Jobs
        /\ clock' \in [Jobs -> {"ahead", "due", "past"}]
    <3>1. CASE UNCHANGED <<oneShot, clock>>
      BY <3>1
    <3>2. ASSUME NEW a \in BOOLEAN, NEW w \in {"ahead", "due", "past"},
                 oneShot' = Put(oneShot, j, a), clock' = [clock EXCEPT ![j] = w]
          PROVE  /\ oneShot' \subseteq Jobs
                 /\ clock' \in [Jobs -> {"ahead", "due", "past"}]
      BY <3>2
    <3> QED
      BY <1>2, <3>1, <3>2 DEF Update
  <2> QED
    BY <2>1, <2>2, <2>3
<1>3. ASSUME NEW j \in Jobs, Remove(j) PROVE TypeOK'
  BY <1>3 DEF Remove, Drop
<1>4. ASSUME NEW j \in Jobs, NEW r \in Runs, Manual(r, j) PROVE TypeOK'
  BY <1>4 DEF Manual
<1>5. ASSUME NEW j \in Jobs, NEW r \in Runs, Fire(r, j) PROVE TypeOK'
  <2>1. UNCHANGED <<table, up, crashes, deletes, line>> /\ up
    BY <1>5 DEF Fire, Due
  <2>2. sched' \subseteq rows /\ timed' \subseteq Runs
    BY <1>5 DEF Fire
  <2>3. job' \in [Runs -> Jobs] /\ stage' \in [Runs -> {"idle", "fired", "waiting", "executing"}]
    BY <1>5 DEF Fire
  <2> QED
    BY <2>1, <2>2, <2>3
<1>6. ASSUME NEW j \in Jobs, Misfire(j) PROVE TypeOK'
  BY <1>6 DEF Misfire, Due
<1>7. ASSUME NEW j \in Jobs, Tick(j) PROVE TypeOK'
  BY <1>7 DEF Tick
<1>8. ASSUME NEW r \in Runs, Begin(r) PROVE TypeOK'
  <2>1. stage' \in [Runs -> {"idle", "fired", "waiting", "executing"}]
        /\ deletes' \subseteq Runs /\ running' \subseteq rows
    BY <1>8 DEF Begin
  <2>2. line' \in [Jobs -> Seq(Runs)]
    <3>1. Append(line[job[r]], r) \in Seq(Runs)
      OBVIOUS
    <3>2. line' = line \/ line' = [line EXCEPT ![job[r]] = Append(@, r)]
      BY <1>8 DEF Begin
    <3> QED
      BY <3>1, <3>2
  <2>3. UNCHANGED <<job, timed, rows, enabled, once, oneShot, clock, sched, up, crashes>> /\ up
    BY <1>8 DEF Begin
  <2> QED
    BY <2>1, <2>2, <2>3
<1>9. ASSUME NEW r \in Runs, Acquire(r) PROVE TypeOK'
  BY <1>9 DEF Acquire
<1>10. ASSUME NEW r \in Runs, Succeed(r) PROVE TypeOK'
  BY <1>10 DEF Succeed, Drop
<1>11. ASSUME NEW r \in Runs, Fail(r) PROVE TypeOK'
  BY <1>11 DEF Fail
<1>12. ASSUME Lost, running' \subseteq running PROVE TypeOK'
  <2>1. crashes' \in 0..MaxCrashes
    BY <1>12, ConstantsAssumption DEF Lost
  <2>2. stage' \in [Runs -> {"idle", "fired", "waiting", "executing"}]
    BY <1>12 DEF Lost
  <2>3. Idle' = Runs
    BY <1>12 DEF Lost
  <2>4. \A S : <<>> \in Seq(S)
    OBVIOUS
  <2>5. line' \in [Jobs -> Seq(Runs)]
    BY <1>12, <2>4 DEF Lost
  <2>6. /\ sched' = {} /\ running' \subseteq rows' /\ up' \in BOOLEAN
        /\ UNCHANGED <<rows, enabled, once, oneShot, clock, job, timed, deletes>>
    BY <1>12 DEF Lost
  <2> QED
    BY <2>1, <2>2, <2>3, <2>5, <2>6
<1>13. CASE Start
  BY <1>13 DEF Start
<1>14. CASE UNCHANGED vars
  BY <1>14
<1> QED
  BY <1>1, <1>2, <1>3, <1>4, <1>5, <1>6, <1>7, <1>8, <1>9, <1>10, <1>11,
     <1>12, <1>13, <1>14
     DEF Next, Request, Scheduler, AgentAnswers, Crash, CrashBeforeDelete

(* Type correctness of the cron service. *)
THEOREM TypeCorrect == Spec => []TypeOK
<1> QED
  BY TypeInit, TypeStep, PTL DEF Spec
-----------------------------------------------------------------------------
(* The lock *)

(* Two executions that hold the lock of the same job are the same. *)
Exclusive == \A r, s \in Runs :
    stage[r] = "executing" /\ stage[s] = "executing" /\ job[r] = job[s] => r = s

(* Only Begin and Acquire let an execution in, and both find the lock free. *)
LEMMA ExclusiveStep == TypeOK /\ Exclusive /\ [Next]_vars => Exclusive'
<1> SUFFICES ASSUME TypeOK, Exclusive, [Next]_vars PROVE Exclusive'
  OBVIOUS
<1> USE DEF Exclusive
<1>1. stage \in [Runs -> {"idle", "fired", "waiting", "executing"}] /\ job \in [Runs -> Jobs]
  BY DEF TypeOK
<1>2. ASSUME UNCHANGED <<stage, job>> PROVE Exclusive'
  BY <1>2
<1>3. ASSUME NEW r \in Runs, NEW j \in Jobs, Manual(r, j) \/ Fire(r, j) PROVE Exclusive'
  BY <1>1, <1>3 DEF Manual, Fire
<1>4. ASSUME NEW r \in Runs, Begin(r) PROVE Exclusive'
  BY <1>1, <1>4 DEF Begin
<1>5. ASSUME NEW r \in Runs, Acquire(r) PROVE Exclusive'
  BY <1>1, <1>5 DEF Acquire
<1>6. ASSUME NEW r \in Runs, Succeed(r) \/ Fail(r) PROVE Exclusive'
  BY <1>1, <1>6 DEF Succeed, Fail
<1>7. ASSUME Lost PROVE Exclusive'
  BY <1>1, <1>7 DEF Lost
<1>8. ASSUME NEW j \in Jobs, Add(j) \/ Update(j) \/ Remove(j) \/ Misfire(j) \/ Tick(j)
      PROVE  UNCHANGED <<stage, job>>
  BY <1>8 DEF Add, Update, Remove, Misfire, Tick
<1> QED
  BY <1>2, <1>3, <1>4, <1>5, <1>6, <1>7, <1>8
     DEF Next, Request, Scheduler, AgentAnswers, Crash, CrashBeforeDelete, Start

(* What is left of a line when its head has gone. *)
LEMMA TailOf ==
    ASSUME NEW S, NEW s \in Seq(S), s # <<>>
    PROVE  /\ Len(s) \in Nat \ {0} /\ DOMAIN s = 1..Len(s) /\ s[1] = Head(s)
           /\ DOMAIN Tail(s) = 1..(Len(s) - 1)
           /\ \A i \in 1..(Len(s) - 1) : Tail(s)[i] = s[i + 1]
  OBVIOUS

(* A line that somebody has joined. *)
LEMMA AppendOf ==
    ASSUME NEW S, NEW s \in Seq(S), NEW e \in S
    PROVE  /\ Len(s) \in Nat /\ DOMAIN s = 1..Len(s) /\ DOMAIN Append(s, e) = 1..(Len(s) + 1)
           /\ Append(s, e)[Len(s) + 1] = e
           /\ \A i \in 1..Len(s) : Append(s, e)[i] = s[i]
  OBVIOUS

(* The line of a job: only who waits stands in it, and nobody twice. *)
LEMMA LineStep == TypeOK /\ WaitersInLine /\ [Next]_vars => WaitersInLine'
<1> SUFFICES ASSUME TypeOK, WaitersInLine, [Next]_vars PROVE WaitersInLine'
  OBVIOUS
<1>1. /\ stage \in [Runs -> {"idle", "fired", "waiting", "executing"}]
      /\ job \in [Runs -> Jobs] /\ line \in [Jobs -> Seq(Runs)]
  BY DEF TypeOK
<1>2. \A r \in Runs : stage[r] # "waiting" =>
        \A j \in Jobs : \A i \in DOMAIN line[j] : line[j][i] # r
  BY DEF WaitersInLine, InLine
<1>3. ASSUME UNCHANGED <<stage, job, line>> PROVE WaitersInLine'
  BY <1>3 DEF WaitersInLine, InLine
<1>4. ASSUME NEW r \in Runs, NEW j \in Jobs, Manual(r, j) \/ Fire(r, j) PROVE WaitersInLine'
  <2>1. /\ stage[r] = "idle" /\ stage' = [stage EXCEPT ![r] = "fired"]
        /\ job' = [job EXCEPT ![r] = j] /\ line' = line
    BY <1>4 DEF Manual, Fire
  <2>2. \A k \in Jobs : \A i \in DOMAIN line[k] : line[k][i] # r /\ line[k][i] \in Runs
    <3> SUFFICES ASSUME NEW k \in Jobs, NEW i \in DOMAIN line[k]
                 PROVE  line[k][i] # r /\ line[k][i] \in Runs
      OBVIOUS
    <3>1. line[k] \in Seq(Runs)
      BY <1>1
    <3>2. line[k][i] \in Runs
      BY <3>1
    <3> QED
      BY <1>2, <2>1, <3>2
  <2>3. \A s \in Runs : stage'[s] = "waiting" <=> InLine(s)'
    BY <1>1, <2>1, <2>2 DEF WaitersInLine, InLine
  <2> QED
    BY <1>1, <2>1, <2>2, <2>3 DEF WaitersInLine
<1>5. ASSUME NEW r \in Runs, Begin(r) PROVE WaitersInLine'
  <2>1. stage[r] = "fired" /\ job' = job
    BY <1>5 DEF Begin
  <2>2. CASE line' = line /\ stage' \in {[stage EXCEPT ![r] = "idle"], [stage EXCEPT ![r] = "executing"]}
    BY <1>1, <2>1, <2>2 DEF WaitersInLine, InLine
  <2>3. CASE line' = [line EXCEPT ![job[r]] = Append(@, r)] /\ stage' = [stage EXCEPT ![r] = "waiting"]
    <3> DEFINE j == job[r]
               n == Len(line[j])
    <3>1. /\ j \in Jobs /\ n \in Nat /\ line[j] \in Seq(Runs)
          /\ line'[j] = Append(line[j], r)
          /\ \A k \in Jobs \ {j} : line'[k] = line[k]
      BY <1>1, <2>3
    <3>2. /\ DOMAIN line'[j] = 1..(n + 1) /\ DOMAIN line[j] = 1..n
          /\ line'[j][n + 1] = r /\ \A i \in 1..n : line'[j][i] = line[j][i]
      BY <3>1, AppendOf
    <3>7. n + 1 \in 1..(n + 1) /\ \A i \in 1..(n + 1) : i = n + 1 \/ i \in 1..n
      BY <3>1
    <3>8. 1..n \subseteq 1..(n + 1)
      BY <3>1
    <3>3. ASSUME NEW s \in Runs \ {r} PROVE InLine(s)' <=> InLine(s)
      <4>1. CASE job[s] # j
        BY <1>1, <2>1, <3>1, <4>1 DEF InLine
      <4>2. CASE job[s] = j
        <5> HIDE DEF j, n
        <5> QED
          BY <2>1, <3>2, <3>7, <3>8, <4>2 DEF InLine
      <4> QED
        BY <4>1, <4>2
    <3>4. InLine(r)'
      <4>1. job'[r] = j
        BY <2>1
      <4> HIDE DEF j, n
      <4> QED
        BY <3>2, <3>7, <4>1 DEF InLine
    <3>5. \A s \in Runs : stage'[s] = "waiting" <=> InLine(s)'
      BY <1>1, <2>3, <3>3, <3>4 DEF WaitersInLine
    <3>6. \A k \in Jobs : \A i, q \in DOMAIN line'[k] :
            job'[line'[k][i]] = k /\ (line'[k][i] = line'[k][q] => i = q)
      <4> SUFFICES ASSUME NEW k \in Jobs, NEW i \in DOMAIN line'[k], NEW q \in DOMAIN line'[k]
                   PROVE  job[line'[k][i]] = k /\ (line'[k][i] = line'[k][q] => i = q)
        BY <2>1
      <4>1. CASE k # j
        BY <3>1, <4>1 DEF WaitersInLine
      <4>2. CASE k = j
        <5>1. \A x \in 1..n : line[j][x] # r /\ job[line[j][x]] = j
          BY <1>2, <2>1, <3>1, <3>2 DEF WaitersInLine
        <5>2. \A x, y \in 1..n : line[j][x] = line[j][y] => x = y
          BY <3>1, <3>2 DEF WaitersInLine
        <5>3. /\ i = n + 1 \/ i \in 1..n
              /\ q = n + 1 \/ q \in 1..n
          BY <3>2, <3>7, <4>2
        <5>4. job[r] = j
          OBVIOUS
        <5> HIDE DEF j, n
        <5> QED
          BY <3>2, <4>2, <5>1, <5>2, <5>3, <5>4
      <4> QED
        BY <4>1, <4>2
    <3> QED
      BY <3>5, <3>6 DEF WaitersInLine
  <2> QED
    BY <1>5, <2>2, <2>3 DEF Begin
<1>6. ASSUME NEW r \in Runs, Acquire(r) PROVE WaitersInLine'
  <2> DEFINE j == job[r]
             n == Len(line[j])
  <2>1. /\ stage' = [stage EXCEPT ![r] = "executing"] /\ job' = job
        /\ line' = [line EXCEPT ![j] = Tail(@)]
        /\ line[j] # <<>> /\ Head(line[j]) = r
    BY <1>6 DEF Acquire
  <2>2. /\ j \in Jobs /\ line[j] \in Seq(Runs) /\ n \in Nat \ {0}
        /\ line'[j] = Tail(line[j]) /\ \A k \in Jobs \ {j} : line'[k] = line[k]
    BY <1>1, <2>1
  <2>3. /\ DOMAIN line'[j] = 1..(n - 1) /\ DOMAIN line[j] = 1..n /\ line[j][1] = r
        /\ \A i \in 1..(n - 1) : line'[j][i] = line[j][i + 1]
    <3>1. line[j] \in Seq(Runs) /\ line[j] # <<>>
      BY <2>1, <2>2
    <3> HIDE DEF j, n
    <3>2. /\ DOMAIN line[j] = 1..Len(line[j]) /\ line[j][1] = Head(line[j])
          /\ DOMAIN Tail(line[j]) = 1..(Len(line[j]) - 1)
          /\ \A i \in 1..(Len(line[j]) - 1) : Tail(line[j])[i] = line[j][i + 1]
      BY <3>1, TailOf
    <3> QED
      BY <2>1, <2>2, <3>2 DEF n
  <2>4. \A x, y \in 1..n : job[line[j][x]] = j /\ (line[j][x] = line[j][y] => x = y)
    BY <2>2, <2>3 DEF WaitersInLine
  <2>5. \A i \in 1..(n - 1) : line'[j][i] # r
    BY <2>2, <2>3, <2>4
  <2>6. ~InLine(r)'
    BY <2>1, <2>3, <2>5 DEF InLine
  <2>7. ASSUME NEW s \in Runs \ {r} PROVE InLine(s)' <=> InLine(s)
    <3>1. CASE job[s] # j
      BY <1>1, <2>1, <2>2, <3>1 DEF InLine
    <3>2. CASE job[s] = j
      <4>1. ASSUME NEW i \in 1..(n - 1), line'[j][i] = s PROVE line[j][i + 1] = s /\ i + 1 \in 1..n
        BY <2>2, <2>3, <4>1
      <4>2. ASSUME NEW i \in 1..n, line[j][i] = s PROVE i - 1 \in 1..(n - 1) /\ line'[j][i - 1] = s
        <5>1. i # 1
          BY <2>3, <4>2
        <5> QED
          BY <2>2, <2>3, <4>2, <5>1
      <4> HIDE DEF j, n
      <4> QED
        BY <2>1, <2>3, <3>2, <4>1, <4>2 DEF InLine
    <3> QED
      BY <3>1, <3>2
  <2>8. \A s \in Runs : stage'[s] = "waiting" <=> InLine(s)'
    BY <1>1, <2>1, <2>6, <2>7 DEF WaitersInLine
  <2>9. \A k \in Jobs : \A i, q \in DOMAIN line'[k] :
          job'[line'[k][i]] = k /\ (line'[k][i] = line'[k][q] => i = q)
    <3> SUFFICES ASSUME NEW k \in Jobs, NEW i \in DOMAIN line'[k], NEW q \in DOMAIN line'[k]
                 PROVE  job[line'[k][i]] = k /\ (line'[k][i] = line'[k][q] => i = q)
      BY <2>1
    <3>1. CASE k # j
      BY <2>2, <3>1 DEF WaitersInLine
    <3>2. CASE k = j
      <4>1. i \in 1..(n - 1) /\ q \in 1..(n - 1)
        BY <2>3, <3>2
      <4>2. i + 1 \in 1..n /\ q + 1 \in 1..n /\ (i + 1 = q + 1 => i = q)
        BY <2>2, <4>1
      <4>3. line'[k][i] = line[j][i + 1] /\ line'[k][q] = line[j][q + 1]
        BY <2>3, <3>2, <4>1
      <4> HIDE DEF j, n
      <4> QED
        BY <2>4, <3>2, <4>2, <4>3
    <3> QED
      BY <3>1, <3>2
  <2> QED
    BY <2>8, <2>9 DEF WaitersInLine
<1>7. ASSUME NEW r \in Runs, Succeed(r) \/ Fail(r) PROVE WaitersInLine'
  <2>1. stage[r] = "executing" /\ stage' = [stage EXCEPT ![r] = "idle"] /\ UNCHANGED <<job, line>>
    BY <1>7 DEF Succeed, Fail
  <2> QED
    BY <1>1, <2>1 DEF WaitersInLine, InLine
<1>8. ASSUME Lost PROVE WaitersInLine'
  <2>1. stage' = [r \in Runs |-> "idle"] /\ line' = [j \in Jobs |-> <<>>] /\ job' = job
    BY <1>8 DEF Lost
  <2> QED
    BY <1>1, <2>1 DEF WaitersInLine, InLine
<1>9. ASSUME NEW j \in Jobs, Add(j) \/ Update(j) \/ Remove(j) \/ Misfire(j) \/ Tick(j)
      PROVE  UNCHANGED <<stage, job, line>>
  BY <1>9 DEF Add, Update, Remove, Misfire, Tick
<1> QED
  BY <1>3, <1>4, <1>5, <1>6, <1>7, <1>8, <1>9
     DEF Next, Request, Scheduler, AgentAnswers, Crash, CrashBeforeDelete, Start

(* An execution waits for the lock exactly when it stands once in the line of
   its job, whatever is removed, created again, crashed or restarted. *)
THEOREM LineHolds == Spec => []WaitersInLine
<1>1. Init => WaitersInLine
  BY DEF Init, WaitersInLine, InLine
<1> QED
  BY <1>1, TypeInit, TypeStep, LineStep, PTL DEF Spec

(* In the line of a job nobody goes forward, and nobody joins in front. *)
LEMMA LineMoves ==
    ASSUME TypeOK, WaitersInLine, [Next]_vars, NEW r \in Runs, stage[r] = "waiting",
           stage'[r] = "waiting"
    PROVE  Before(r)' \subseteq Before(r)
<1>1. /\ stage \in [Runs -> {"idle", "fired", "waiting", "executing"}]
      /\ job \in [Runs -> Jobs] /\ line \in [Jobs -> Seq(Runs)]
  BY DEF TypeOK
<1> DEFINE k == job[r]
           n == Len(line[k])
<1>2. k \in Jobs /\ line[k] \in Seq(Runs) /\ n \in Nat /\ DOMAIN line[k] = 1..n
  BY <1>1
<1>3. ASSUME job'[r] = k, line'[k] = line[k] PROVE Before(r)' \subseteq Before(r)
  BY <1>3 DEF Before
<1>4. ASSUME NEW q \in Runs, NEW j \in Jobs, Manual(q, j) \/ Fire(q, j)
      PROVE  job'[r] = k /\ line'[k] = line[k]
  BY <1>1, <1>4 DEF Manual, Fire, Launch, Idle
<1>5. ASSUME NEW q \in Runs, Begin(q) PROVE Before(r)' \subseteq Before(r)
  <2>1. stage[q] = "fired" /\ job' = job
    BY <1>5 DEF Begin
  <2>2. CASE line'[k] = line[k]
    BY <1>3, <2>1, <2>2
  <2>3. CASE line'[k] # line[k]
    <3>1. q # r /\ line'[k] = Append(line[k], q)
      BY <1>1, <1>5, <2>1, <2>3 DEF Begin
    <3>2. /\ DOMAIN line'[k] = 1..(n + 1) /\ line'[k][n + 1] = q
          /\ \A i \in 1..n : line'[k][i] = line[k][i]
      BY <1>2, <3>1, AppendOf
    <3>3. ASSUME NEW s \in Runs, NEW i \in DOMAIN line'[k], NEW m \in DOMAIN line'[k],
                 i < m, line'[k][i] = s, line'[k][m] = r
          PROVE  i \in 1..n /\ m \in 1..n /\ line[k][i] = s /\ line[k][m] = r
      <4>1. m # n + 1
        BY <3>1, <3>2, <3>3
      <4> HIDE DEF k, n
      <4>2. i \in 1..(n + 1) /\ m \in 1..(n + 1)
        BY <3>2
      <4>3. i \in 1..n /\ m \in 1..n
        BY <1>2, <3>3, <4>1, <4>2
      <4> QED
        BY <3>2, <3>3, <4>3
    <3>4. job'[r] = k /\ job[r] = k
      BY <2>1
    <3> HIDE DEF k, n
    <3> QED
      BY <1>2, <3>3, <3>4 DEF Before
  <2> QED
    BY <2>2, <2>3
<1>6. ASSUME NEW q \in Runs, Acquire(q) PROVE Before(r)' \subseteq Before(r)
  <2>1. job' = job
    BY <1>6 DEF Acquire
  <2>2. CASE line'[k] = line[k]
    BY <1>3, <2>1, <2>2
  <2>3. CASE line'[k] # line[k]
    <3>1. line'[k] = Tail(line[k]) /\ line[k] # <<>>
      BY <1>1, <1>6, <2>3 DEF Acquire
    <3>2. /\ n \in Nat \ {0} /\ DOMAIN line'[k] = 1..(n - 1)
          /\ \A i \in 1..(n - 1) : line'[k][i] = line[k][i + 1]
      BY <1>2, <3>1, TailOf
    <3>3. ASSUME NEW s \in Runs, NEW i \in DOMAIN line'[k], NEW m \in DOMAIN line'[k],
                 i < m, line'[k][i] = s, line'[k][m] = r
          PROVE  /\ i + 1 \in 1..n /\ m + 1 \in 1..n /\ i + 1 < m + 1
                 /\ line[k][i + 1] = s /\ line[k][m + 1] = r
      <4> HIDE DEF k, n
      <4>1. i \in 1..(n - 1) /\ m \in 1..(n - 1)
        BY <3>2
      <4>2. i + 1 \in 1..n /\ m + 1 \in 1..n /\ i + 1 < m + 1
        BY <3>2, <3>3, <4>1
      <4> QED
        BY <3>2, <3>3, <4>1, <4>2
    <3>4. job'[r] = k /\ job[r] = k
      BY <2>1
    <3> HIDE DEF k, n
    <3> QED
      BY <1>2, <3>3, <3>4 DEF Before
  <2> QED
    BY <2>2, <2>3
<1>7. ASSUME NEW q \in Runs, Succeed(q) \/ Fail(q) PROVE job'[r] = k /\ line'[k] = line[k]
  BY <1>7 DEF Succeed, Fail
<1>8. ~Lost
  BY DEF Lost
<1>9. ASSUME NEW j \in Jobs, Add(j) \/ Update(j) \/ Remove(j) \/ Misfire(j) \/ Tick(j)
      PROVE  job'[r] = k /\ line'[k] = line[k]
  BY <1>9 DEF Add, Update, Remove, Misfire, Tick, execs
<1>10. ASSUME Start \/ UNCHANGED vars PROVE job'[r] = k /\ line'[k] = line[k]
  BY <1>10 DEF Start, vars, execs
<1> QED
  BY <1>3, <1>4, <1>5, <1>6, <1>7, <1>8, <1>9, <1>10
     DEF Next, Request, Scheduler, AgentAnswers, Crash, CrashBeforeDelete

(* Who takes the lock was in the line before all others, or there was no line. *)
LEMMA FirstTakes ==
    ASSUME TypeOK, WaitersInLine, [Next]_vars, NEW r \in Runs, Takes(r),
           NEW s \in Runs \ {r}, stage[s] = "waiting", job[s] = job[r]
    PROVE  r \in Before(s)
<1>1. /\ stage \in [Runs -> {"idle", "fired", "waiting", "executing"}]
      /\ job \in [Runs -> Jobs] /\ line \in [Jobs -> Seq(Runs)]
  BY DEF TypeOK
<1>2. PICK i \in DOMAIN line[job[s]] : line[job[s]][i] = s
  BY DEF WaitersInLine, InLine
<1>3. line[job[r]] # <<>>
  BY <1>2
<1>4. ~Begin(r)
  BY <1>1, <1>3 DEF Begin, Takes, Execute, End
<1>5. Acquire(r)
  <2>1. ASSUME NEW q \in Runs, NEW j \in Jobs, Manual(q, j) \/ Fire(q, j) PROVE FALSE
    BY <1>1, <2>1 DEF Manual, Fire, Launch, Takes
  <2>2. ASSUME NEW q \in Runs, q # r, Begin(q) \/ Acquire(q) PROVE FALSE
    BY <1>1, <2>2 DEF Begin, Acquire, Execute, End, Takes
  <2>3. ASSUME NEW q \in Runs, Succeed(q) \/ Fail(q) PROVE FALSE
    BY <1>1, <2>3 DEF Succeed, Fail, End, Takes
  <2>4. ~Lost
    BY DEF Lost, Takes
  <2>5. ASSUME NEW j \in Jobs, Add(j) \/ Update(j) \/ Remove(j) \/ Misfire(j) \/ Tick(j)
        PROVE  FALSE
    BY <2>5 DEF Add, Update, Remove, Misfire, Tick, execs, Takes
  <2>6. ~(Start \/ UNCHANGED vars)
    BY DEF Start, vars, execs, Takes
  <2> QED
    BY <1>4, <2>1, <2>2, <2>3, <2>4, <2>5, <2>6
       DEF Next, Request, Scheduler, AgentAnswers, Crash, CrashBeforeDelete
<1> DEFINE q == line[job[r]]
<1>6. q \in Seq(Runs) /\ q # <<>> /\ Head(q) = r
  BY <1>1, <1>5 DEF Acquire
<1>7. 1 \in DOMAIN q /\ q[1] = r /\ i \in DOMAIN q /\ q[i] = s /\ 1 < i
  <2>1. i \in DOMAIN q /\ q[i] = s
    BY <1>2
  <2> HIDE DEF q
  <2>2. DOMAIN q = 1..Len(q) /\ Len(q) \in Nat \ {0} /\ q[1] = r
    BY <1>6, TailOf
  <2> QED
    BY <2>1, <2>2
<1>8. q = line[job[s]]
  OBVIOUS
<1> HIDE DEF q
<1> QED
  BY <1>7, <1>8 DEF Before

(* Nobody is overtaken on the way to the lock of a job, for any number of jobs and
   executions. *)
THEOREM LockIsFair == Spec => NoneOvertakes
<1>1. TypeOK /\ WaitersInLine /\ [Next]_vars =>
        \A r \in Runs :
          /\ stage[r] = "waiting" /\ stage'[r] = "waiting" => Before(r)' \subseteq Before(r)
          /\ Takes(r) => \A s \in Runs \ {r} :
                stage[s] = "waiting" /\ job[s] = job[r] => r \in Before(s)
  BY LineMoves, FirstTakes
<1> QED
  BY <1>1, TypeCorrect, LineHolds, PTL DEF Spec, NoneOvertakes

(* Executions of one job exclude each other, whoever launched them. *)
THEOREM LockExcludes == Spec => []OneAtATime
<1>1. Init => Exclusive
  BY DEF Init, Exclusive
<1>2. TypeOK /\ Exclusive => OneAtATime
  <2> SUFFICES ASSUME Exclusive, NEW j \in Jobs PROVE Cardinality(Holder(j)) <= 1
    BY DEF OneAtATime
  <2>1. CASE Holder(j) = {}
    BY <2>1, FS_EmptySet
  <2>2. CASE Holder(j) # {}
    <3>1. PICK r \in Holder(j) : TRUE
      BY <2>2
    <3>2. Holder(j) = {r}
      BY <3>1 DEF Exclusive
    <3>3. Cardinality({r}) = 1
      BY FS_Singleton
    <3> HIDE DEF Holder
    <3> QED
      BY <3>2, <3>3
  <2> QED
    BY <2>1, <2>2
<1> QED
  BY <1>1, <1>2, ExclusiveStep, TypeCorrect, PTL DEF Spec

-----------------------------------------------------------------------------
(* running_at_ms *)

(* Without a crash the flag follows the holder of the lock. *)
LEMMA FlagStep == TypeOK /\ RunningIsTrue /\ [Next]_vars => RunningIsTrue'
<1> SUFFICES ASSUME TypeOK, RunningIsTrue, [Next]_vars PROVE RunningIsTrue'
  OBVIOUS
<1> USE DEF RunningIsTrue
<1>1. stage \in [Runs -> {"idle", "fired", "waiting", "executing"}] /\ job \in [Runs -> Jobs]
  BY DEF TypeOK
<1>2. ASSUME UNCHANGED <<stage, job, crashes>>, running' \subseteq running
      PROVE  RunningIsTrue'
  BY <1>2
<1>3. ASSUME NEW r \in Runs, NEW j \in Jobs, Manual(r, j) \/ Fire(r, j) PROVE RunningIsTrue'
  BY <1>1, <1>3 DEF Manual, Fire
<1>4. ASSUME NEW r \in Runs, Begin(r) PROVE RunningIsTrue'
  BY <1>1, <1>4 DEF Begin
<1>5. ASSUME NEW r \in Runs, Acquire(r) PROVE RunningIsTrue'
  BY <1>1, <1>5 DEF Acquire
<1>6. ASSUME NEW r \in Runs, Succeed(r) \/ Fail(r) PROVE RunningIsTrue'
  BY <1>1, <1>6 DEF Succeed, Fail, Drop
<1>7. ASSUME Lost PROVE RunningIsTrue'
  BY <1>7 DEF Lost, TypeOK
<1>8. ASSUME NEW j \in Jobs, Add(j) \/ Update(j) \/ Remove(j) \/ Misfire(j) \/ Tick(j)
      PROVE  UNCHANGED <<stage, job, crashes>> /\ running' \subseteq running
  BY <1>8 DEF Add, Update, Remove, Drop, Misfire, Tick
<1> QED
  BY <1>2, <1>3, <1>4, <1>5, <1>6, <1>7, <1>8
     DEF Next, Request, Scheduler, AgentAnswers, Crash, CrashBeforeDelete, Start

(* Until the first crash a job shown as running has an execution that holds its lock. *)
THEOREM RunningShown == Spec => []RunningIsTrue
<1>1. Init => RunningIsTrue
  BY DEF Init, RunningIsTrue
<1>2. TypeOK /\ RunningIsTrue /\ [Next]_vars => RunningIsTrue'
  BY FlagStep
<1> QED
  BY <1>1, <1>2, TypeCorrect, PTL DEF Spec

-----------------------------------------------------------------------------
(* What the scheduler holds *)

(* Every action keeps the scheduler's jobs and the enabled rows together. *)
LEMMA ForgottenStep == TypeOK /\ NoneForgotten /\ [Next]_vars => NoneForgotten'
<1> SUFFICES ASSUME TypeOK, NoneForgotten, [Next]_vars PROVE NoneForgotten'
  OBVIOUS
<1> USE DEF NoneForgotten, TypeOK
<1>1. ASSUME UNCHANGED <<enabled, oneShot, clock, sched, up>> PROVE NoneForgotten'
  BY <1>1
<1>2. ASSUME NEW j \in Jobs, Add(j) \/ Update(j) PROVE NoneForgotten'
  <2>1. CASE Add(j)
    BY <2>1 DEF Add
  <2>2. CASE Update(j)
    BY <2>2 DEF Update
  <2> QED
    BY <1>2, <2>1, <2>2
<1>3. ASSUME NEW j \in Jobs, Remove(j) PROVE NoneForgotten'
  BY <1>3 DEF Remove, Drop
<1>4. ASSUME NEW j \in Jobs, NEW r \in Runs, Fire(r, j) PROVE NoneForgotten'
  BY <1>4 DEF Fire, Due
<1>5. ASSUME NEW j \in Jobs, Misfire(j) PROVE NoneForgotten'
  BY <1>5 DEF Misfire, Due
<1>6. ASSUME NEW j \in Jobs, Tick(j) PROVE NoneForgotten'
  BY <1>6 DEF Tick
<1>7. ASSUME NEW r \in Runs, Succeed(r) PROVE NoneForgotten'
  BY <1>7 DEF Succeed, Drop
<1>8. CASE Lost
  BY <1>8 DEF Lost
<1>9. CASE Start
  BY <1>9 DEF Start
<1>10. ASSUME NEW r \in Runs, Begin(r) \/ Acquire(r) \/ Fail(r)
       PROVE  UNCHANGED <<enabled, oneShot, clock, sched, up>>
  BY <1>10 DEF Begin, Acquire, Fail
<1>11. ASSUME NEW j \in Jobs, \E r \in Runs : Manual(r, j)
       PROVE  UNCHANGED <<enabled, oneShot, clock, sched, up>>
  BY <1>11 DEF Manual
<1> HIDE DEF NoneForgotten, TypeOK
<1> QED
  BY <1>1, <1>2, <1>3, <1>4, <1>5, <1>6, <1>7, <1>8, <1>9, <1>10, <1>11
     DEF Next, Request, Scheduler, AgentAnswers, Crash, CrashBeforeDelete

(* No edit, execution or restart loses an enabled job whose time is not over. *)
THEOREM NoJobForgotten == Spec => []NoneForgotten
<1>1. Init => NoneForgotten
  BY DEF Init, NoneForgotten
<1> QED
  BY <1>1, ForgottenStep, TypeCorrect, PTL DEF Spec

(* No edit, execution, crash or restart puts a disabled job on the scheduler, or leaves
   it there: only add_job schedules without looking at the flag. *)
THEOREM DisabledOnlyAsAdded == Spec => DisabledAsAdded
<1> DEFINE AsAdded == \A j \in Jobs : j \in sched' \ enabled' => j \in sched \ enabled \/ j \notin rows
<1>1. ASSUME TypeOK, [Next]_vars PROVE AsAdded
  <2>1. CASE UNCHANGED enabled /\ sched' \subseteq sched
    BY <2>1
  <2>2. ASSUME NEW j \in Jobs, Add(j) \/ Update(j) PROVE AsAdded
    BY <2>2 DEF Add, Update, Put
  <2>3. ASSUME NEW j \in Jobs, Drop(j) PROVE AsAdded
    BY <2>3 DEF Drop
  <2>4. ASSUME NEW j \in Jobs,
               \/ \E r \in Runs : Manual(r, j) \/ Fire(r, j)
               \/ Misfire(j) \/ Tick(j)
        PROVE  UNCHANGED enabled /\ sched' \subseteq sched
    BY <2>4 DEF Manual, Fire, Misfire, Tick
  <2>5. ASSUME NEW r \in Runs, Begin(r) \/ Acquire(r) \/ Succeed(r) \/ Fail(r)
        PROVE  (UNCHANGED enabled /\ sched' \subseteq sched) \/ Drop(job[r])
    BY <2>5 DEF Begin, Acquire, Succeed, Fail
  <2>6. CASE Lost
    BY <2>6 DEF Lost
  <2>7. CASE Start
    BY <2>7 DEF Start
  <2>8. \A r \in Runs : job[r] \in Jobs
    BY <1>1 DEF TypeOK
  <2>9. CASE UNCHANGED vars
    BY <2>9 DEF vars, table
  <2> HIDE DEF AsAdded
  <2> QED
    BY <1>1, <2>1, <2>2, <2>3, <2>4, <2>5, <2>6, <2>7, <2>8, <2>9
       DEF Next, Request, Remove, Scheduler, AgentAnswers, Crash, CrashBeforeDelete
<1>2. TypeOK /\ [Next]_vars => [AsAdded]_vars
  BY <1>1
<1> QED
  BY <1>2, TypeCorrect, PTL DEF Spec, DisabledAsAdded
-----------------------------------------------------------------------------
(* The promise *)

OwedOf == [j \in Jobs |-> Cardinality(Owed(j))]
BusyOf == {j \in Jobs : Holder(j) # {}}

(* Launches are counted: they are finitely many, and one more or one less changes the
   count by one. *)
LEMMA OwedCounts ==
    ASSUME NEW j \in Jobs
    PROVE  /\ IsFiniteSet(Owed(j)) /\ Cardinality(Owed(j)) \in Nat
           /\ \A r \in Runs \ Owed(j) :
                 Cardinality(Owed(j) \cup {r}) = Cardinality(Owed(j)) + 1
           /\ \A r \in Owed(j) :
                 /\ Cardinality(Owed(j)) > 0
                 /\ Cardinality(Owed(j) \ {r}) = Cardinality(Owed(j)) - 1
<1>1. IsFiniteSet(Owed(j))
  BY ConstantsAssumption, FS_Subset DEF Owed
<1>2. Cardinality(Owed(j)) \in Nat
  BY <1>1, FS_CardinalityType
<1>3. ASSUME NEW r \in Runs \ Owed(j)
      PROVE  Cardinality(Owed(j) \cup {r}) = Cardinality(Owed(j)) + 1
  BY <1>1, <1>3, FS_AddElement
<1>4. ASSUME NEW r \in Owed(j)
      PROVE  /\ Cardinality(Owed(j)) > 0
             /\ Cardinality(Owed(j) \ {r}) = Cardinality(Owed(j)) - 1
  <2>1. Cardinality(Owed(j) \ {r}) = Cardinality(Owed(j)) - 1
    BY <1>1, <1>4, FS_RemoveElement
  <2>2. Cardinality(Owed(j)) # 0
    BY <1>1, <1>4, FS_EmptySet
  <2> QED
    BY <1>2, <2>1, <2>2
<1> QED
  BY <1>1, <1>2, <1>3, <1>4

(* A launch is one more that is owed. *)
LEMMA LaunchIsOwed ==
    ASSUME TypeOK, NEW r \in Runs, NEW j \in Jobs, r \in Idle, Launch(r, j)
    PROVE  /\ OwedOf' = [OwedOf EXCEPT ![j] = @ + 1]
           /\ BusyOf' = BusyOf
<1>1. stage \in [Runs -> {"idle", "fired", "waiting", "executing"}] /\ job \in [Runs -> Jobs]
  BY DEF TypeOK
<1>2. Owed(j)' = Owed(j) \cup {r} /\ r \in Runs \ Owed(j)
  BY <1>1 DEF Owed
<1>3. \A k \in Jobs \ {j} : Owed(k)' = Owed(k)
  BY <1>1 DEF Owed
<1>4. Cardinality(Owed(j)') = Cardinality(Owed(j)) + 1
  BY <1>2, OwedCounts
<1>5. OwedOf' = [OwedOf EXCEPT ![j] = @ + 1]
  BY <1>3, <1>4 DEF OwedOf
<1>6. BusyOf' = BusyOf
  BY <1>1 DEF BusyOf
<1> QED
  BY <1>5, <1>6

(* An execution that goes from the launch to the agent, or that ends without, is one
   less that is owed. *)
LEMMA OwedIsServed ==
    ASSUME TypeOK, NEW r \in Runs, stage[r] \in {"fired", "waiting"}, job' = job,
           NEW to \in {"idle", "executing"}, stage' = [stage EXCEPT ![r] = to]
    PROVE  /\ OwedOf[job[r]] > 0
           /\ OwedOf' = [OwedOf EXCEPT ![job[r]] = @ - 1]
           /\ BusyOf' = IF to = "executing" THEN BusyOf \cup {job[r]} ELSE BusyOf
<1> DEFINE j == job[r]
<1>1. stage \in [Runs -> {"idle", "fired", "waiting", "executing"}] /\ job \in [Runs -> Jobs]
  BY DEF TypeOK
<1>2. Owed(j)' = Owed(j) \ {r} /\ r \in Owed(j) /\ j \in Jobs
  BY <1>1 DEF Owed
<1>3. \A k \in Jobs \ {j} : Owed(k)' = Owed(k)
  BY <1>1 DEF Owed
<1>4. Cardinality(Owed(j)) > 0 /\ Cardinality(Owed(j)') = Cardinality(Owed(j)) - 1
  BY <1>2, OwedCounts
<1>5. OwedOf' = [OwedOf EXCEPT ![j] = @ - 1] /\ OwedOf[j] > 0
  BY <1>2, <1>3, <1>4 DEF OwedOf
<1>6. BusyOf' = IF to = "executing" THEN BusyOf \cup {j} ELSE BusyOf
  BY <1>1 DEF BusyOf
<1> QED
  BY <1>5, <1>6

(* The holder of the lock is the only execution of its job. *)
LEMMA EndFreesJob ==
    ASSUME TypeOK, Exclusive, NEW r \in Runs, stage[r] = "executing", job' = job,
           stage' = [stage EXCEPT ![r] = "idle"]
    PROVE  /\ job[r] \in BusyOf /\ BusyOf' = BusyOf \ {job[r]}
           /\ OwedOf' = OwedOf
<1>1. stage \in [Runs -> {"idle", "fired", "waiting", "executing"}] /\ job \in [Runs -> Jobs]
  BY DEF TypeOK
<1>2. job[r] \in BusyOf /\ BusyOf' = BusyOf \ {job[r]}
  BY <1>1 DEF BusyOf, Exclusive
<1>3. \A k \in Jobs : Owed(k)' = Owed(k)
  BY <1>1 DEF Owed
<1> QED
  BY <1>2, <1>3 DEF OwedOf

(* Each step of the service is a step of the promise, or none. *)
LEMMA PromiseStep ==
    TypeOK /\ Exclusive /\ [Next]_vars
        => [Promise!Next]_<<up, rows, oneShot, sched, OwedOf, BusyOf>>
<1> SUFFICES ASSUME TypeOK, Exclusive, [Next]_vars
             PROVE  Promise!Next \/ UNCHANGED <<up, rows, oneShot, sched, OwedOf, BusyOf>>
  OBVIOUS
<1>1. /\ stage \in [Runs -> {"idle", "fired", "waiting", "executing"}] /\ job \in [Runs -> Jobs]
      /\ sched \subseteq rows /\ enabled \subseteq rows /\ rows \subseteq Jobs
      /\ up \/ (sched = {} /\ \A r \in Runs : stage[r] = "idle")
  BY DEF TypeOK
<1>2. UNCHANGED <<stage, job>> => UNCHANGED <<OwedOf, BusyOf>>
  BY DEF OwedOf, BusyOf, Owed
<1>3. ASSUME NEW j \in Jobs, Add(j) \/ Update(j) PROVE Promise!Edit(j)
  <2>1. UNCHANGED <<OwedOf, BusyOf>>
    BY <1>2, <1>3 DEF Add, Update
  <2>2. /\ up /\ UNCHANGED up /\ rows' = rows \cup {j}
        /\ oneShot' \in {oneShot \cup {j}, oneShot \ {j}}
        /\ sched' \in {sched \cup {j}, sched \ {j}}
    <3>1. CASE Add(j)
      BY <3>1 DEF Add
    <3>2. CASE Update(j)
      BY <3>2 DEF Update
    <3> QED
      BY <1>3, <3>1, <3>2
  <2> QED
    BY <2>1, <2>2 DEF Promise!Edit, OwedOf, BusyOf
<1>4. ASSUME NEW j \in Jobs, Remove(j) PROVE Promise!Delete(j)
  BY <1>2, <1>4 DEF Remove, Drop, Promise!Delete, OwedOf, BusyOf
<1>5. ASSUME NEW j \in Jobs, NEW r \in Runs, Manual(r, j) PROVE Promise!Ask(j)
  BY <1>5, LaunchIsOwed DEF Manual, Promise!Ask, OwedOf, BusyOf
<1>6. ASSUME NEW j \in Jobs, NEW r \in Runs, Fire(r, j) PROVE Promise!Trigger(j)
  <2>1. /\ up /\ j \in sched /\ r \in Idle /\ Launch(r, j)
        /\ sched' = sched \ (oneShot \cap {j}) /\ UNCHANGED <<up, rows, oneShot>>
    BY <1>6 DEF Fire, Due
  <2>2. OwedOf' = [OwedOf EXCEPT ![j] = @ + 1] /\ BusyOf' = BusyOf
    BY <2>1, LaunchIsOwed
  <2> QED
    BY <2>1, <2>2 DEF Promise!Trigger, OwedOf, BusyOf
<1>7. ASSUME NEW j \in Jobs, Misfire(j) PROVE Promise!Miss(j)
  BY <1>2, <1>7 DEF Misfire, Due, Promise!Miss, OwedOf, BusyOf
<1>8. ASSUME NEW r \in Runs, NEW j \in Jobs, job[r] = j, Begin(r)
      PROVE  \/ Promise!Begin(j) \/ Promise!PassOver(j)
             \/ UNCHANGED <<up, rows, oneShot, sched, OwedOf, BusyOf>>
  <2>1. /\ stage[r] = "fired" /\ up /\ job[r] \in Jobs
        /\ UNCHANGED <<up, rows, oneShot, sched, job>>
    BY <1>1, <1>8 DEF Begin
  <2>2. CASE job[r] \notin rows
    <3>1. stage' = [stage EXCEPT ![r] = "idle"]
      BY <1>8, <2>2 DEF Begin
    <3>2. /\ OwedOf[job[r]] > 0 /\ OwedOf' = [OwedOf EXCEPT ![job[r]] = @ - 1]
          /\ BusyOf' = BusyOf
      BY <2>1, <3>1, OwedIsServed
    <3> QED
      BY <1>8, <2>1, <2>2, <3>2 DEF Promise!PassOver, OwedOf, BusyOf
  <2>3. CASE job[r] \in rows /\ Holder(job[r]) = {} /\ line[job[r]] = <<>>
    <3>1. stage' = [stage EXCEPT ![r] = "executing"] /\ job[r] \notin BusyOf
      BY <1>8, <2>3 DEF Begin, BusyOf
    <3>2. /\ OwedOf[job[r]] > 0 /\ OwedOf' = [OwedOf EXCEPT ![job[r]] = @ - 1]
          /\ BusyOf' = BusyOf \cup {job[r]}
      BY <2>1, <3>1, OwedIsServed
    <3> QED
      BY <1>8, <2>1, <3>1, <3>2 DEF Promise!Begin, OwedOf, BusyOf
  <2>4. CASE job[r] \in rows /\ ~(Holder(job[r]) = {} /\ line[job[r]] = <<>>)
    <3>1. stage' = [stage EXCEPT ![r] = "waiting"]
      BY <1>8, <2>4 DEF Begin
    <3>2. \A k \in Jobs : Owed(k)' = Owed(k) /\ Holder(k)' = Holder(k)
      BY <1>1, <2>1, <3>1 DEF Owed
    <3>3. UNCHANGED <<OwedOf, BusyOf>>
      BY <3>2 DEF OwedOf, BusyOf
    <3> QED
      BY <2>1, <3>3
  <2> QED
    BY <2>2, <2>3, <2>4
<1>9. ASSUME NEW r \in Runs, NEW j \in Jobs, job[r] = j, Acquire(r) PROVE Promise!Begin(j)
  <2>1. /\ stage[r] = "waiting" /\ up /\ job[r] \notin BusyOf
        /\ stage' = [stage EXCEPT ![r] = "executing"]
        /\ UNCHANGED <<up, rows, oneShot, sched, job>>
    BY <1>1, <1>9 DEF Acquire, BusyOf
  <2>2. /\ OwedOf[job[r]] > 0 /\ OwedOf' = [OwedOf EXCEPT ![job[r]] = @ - 1]
        /\ BusyOf' = BusyOf \cup {job[r]}
    BY <2>1, OwedIsServed
  <2> QED
    BY <1>9, <2>1, <2>2 DEF Promise!Begin, OwedOf, BusyOf
<1>10. ASSUME NEW r \in Runs, NEW j \in Jobs, job[r] = j, Succeed(r) \/ Fail(r)
       PROVE  Promise!End(j)
  <2>1. /\ stage[r] = "executing" /\ up /\ stage' = [stage EXCEPT ![r] = "idle"]
        /\ UNCHANGED <<up, oneShot, job>>
    BY <1>1, <1>10 DEF Succeed, Fail
  <2>2. UNCHANGED <<rows, sched>> \/ (rows' = rows \ {job[r]} /\ sched' = sched \ {job[r]})
    BY <1>10 DEF Succeed, Fail, Drop
  <2>3. job[r] \in BusyOf /\ BusyOf' = BusyOf \ {job[r]} /\ OwedOf' = OwedOf
    BY <2>1, EndFreesJob
  <2> QED
    BY <1>10, <2>1, <2>2, <2>3 DEF Promise!End, OwedOf, BusyOf
<1>11. ASSUME Lost PROVE Promise!Stop
  <2>1. /\ up /\ up' = FALSE /\ sched' = {} /\ UNCHANGED <<rows, oneShot>>
        /\ stage' = [r \in Runs |-> "idle"]
    BY <1>11 DEF Lost
  <2>2. \A j \in Jobs : Owed(j)' = {} /\ Holder(j)' = {}
    BY <2>1 DEF Owed
  <2>3. OwedOf' = [j \in Jobs |-> 0] /\ BusyOf' = {}
    BY <2>2, FS_EmptySet DEF OwedOf, BusyOf
  <2> QED
    BY <2>1, <2>3 DEF Promise!Stop, OwedOf, BusyOf
<1>12. ASSUME Start PROVE Promise!Restart
  BY <1>1, <1>2, <1>12 DEF Start, Promise!Restart, OwedOf, BusyOf
<1>13. ASSUME (\E j \in Jobs : Tick(j)) \/ UNCHANGED vars
       PROVE  UNCHANGED <<up, rows, oneShot, sched, OwedOf, BusyOf>>
  BY <1>2, <1>13 DEF Tick
<1>14. \A r \in Runs : job[r] \in Jobs
  BY <1>1
<1>15. ASSUME NEW j \in Jobs, Request(j) \/ Scheduler(j) PROVE Promise!Next
  BY <1>3, <1>4, <1>5, <1>6, <1>7, <1>15 DEF Request, Scheduler, Promise!Next
<1>16. ASSUME NEW r \in Runs, Acquire(r) \/ AgentAnswers(r) PROVE Promise!Next
  <2>1. PICK j \in Jobs : job[r] = j
    BY <1>14
  <2> QED
    BY <1>9, <1>10, <1>16, <2>1 DEF AgentAnswers, Promise!Next
<1>17. ASSUME NEW r \in Runs, Begin(r)
       PROVE  Promise!Next \/ UNCHANGED <<up, rows, oneShot, sched, OwedOf, BusyOf>>
  <2>1. PICK j \in Jobs : job[r] = j
    BY <1>14
  <2> QED
    BY <1>8, <1>17, <2>1 DEF Promise!Next
<1>18. ASSUME Lost \/ Start PROVE Promise!Next
  BY <1>11, <1>12, <1>18 DEF Promise!Next
<1> HIDE DEF table, execs, vars
<1> QED
  BY <1>13, <1>15, <1>16, <1>17, <1>18 DEF Next, Crash, CrashBeforeDelete

(* The service implements CronLaunches: every launch is executed once, alone of its job,
   or passed over when its job is gone, until a crash. *)
THEOREM ImplementsPromise == Spec => KeepsPromise
<1>1. Init => Exclusive
  BY DEF Init, Exclusive
<1>2. Init => Promise!Init
  <2> SUFFICES ASSUME Init PROVE Promise!Init
    OBVIOUS
  <2>1. \A j \in Jobs : Owed(j) = {} /\ Holder(j) = {}
    BY DEF Init, Owed
  <2>2. [j \in Jobs |-> Cardinality(Owed(j))] = [j \in Jobs |-> 0]
    BY <2>1, FS_EmptySet
  <2>3. {j \in Jobs : Holder(j) # {}} = {}
    BY <2>1
  <2> QED
    BY <2>2, <2>3 DEF Init, Promise!Init
<1>3. TypeOK /\ Exclusive /\ [Next]_vars
        => [Promise!Next]_<<up, rows, oneShot, sched, [j \in Jobs |-> Cardinality(Owed(j))],
                            {j \in Jobs : Holder(j) # {}}>>
  BY PromiseStep DEF OwedOf, BusyOf
<1> QED
  BY <1>1, <1>2, <1>3, ExclusiveStep, TypeCorrect, PTL DEF Spec, KeepsPromise, Promise!Spec
=============================================================================
