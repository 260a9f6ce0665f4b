---------------------- MODULE NotificationQueueProofs ----------------------
(***************************************************************************)
(* The safety properties of NotificationQueue, for any notifications,      *)
(* workers and numbers of attempts, recoveries and faults.                 *)
(*                                                                         *)
(* The properties speak of rows and of deliveries; what carries them from  *)
(* one step to the next is the state of the job and of the worker that has *)
(* it: Tally accounts for each delivery by a failed attempt, a recovery or *)
(* the attempt in hand, and Honest says what a worker about to write has   *)
(* seen.                                                                   *)
(***************************************************************************)
EXTENDS NotificationQueue, TLAPS

Spent(n) == made[n] + stalled[n]

TallyOf(n) ==
  /\ row[n] = "absent" => n \notin creating /\ job[n] = "none"
  /\ n \in creating => job[n] = "none"
  /\ job[n] = "none" => made[n] = 0 /\ stalled[n] = 0 /\ sends[n] = 0
  /\ job[n] # "failed" => made[n] < Attempts /\ stalled[n] <= MaxStalled
  /\ job[n] \in {"waiting", "delayed"} => sends[n] <= Spent(n)
  /\ job[n] \in {"active", "completed"} => sends[n] <= Spent(n) + 1
  /\ job[n] = "failed" => sends[n] <= Attempts + MaxStalled

Tally ==
  /\ \A n \in Notifications : TallyOf(n)
  /\ \A w \in Workers : worker[w].at = "send" => sends[worker[w].n] <= Spent(worker[w].n)

Honest ==
  /\ SentMeansDelivered
  /\ CompletedMeansSent
  /\ \A w \in Workers :
       /\ worker[w].at = "mark.sent" /\ worker[w].n \in Mailed => sends[worker[w].n] > 0
       /\ worker[w].at = "complete" => row[worker[w].n] = "sent"

IInv == TypeOK /\ Tally /\ Honest

(* A worker that is not idle has a notification in hand, whose job is      *)
(* active and which no other worker has.                                   *)
LEMMA InHand ==
  ASSUME TypeOK, NEW w \in Workers, worker[w].at # "idle"
  PROVE  /\ worker[w] \in Busy
         /\ worker[w].n \in Notifications
         /\ job[worker[w].n] = "active"
         /\ \A v \in Workers : WorkingOn(v, worker[w].n) => v = w
<1>1. worker[w] \in Busy
  BY DEF TypeOK, Idle
<1>2. worker[w] # Idle /\ worker[w].n \in Notifications
  BY <1>1 DEF Busy, Idle
<1>3. WorkingOn(w, worker[w].n)
  BY <1>2 DEF WorkingOn
<1> QED
  BY <1>1, <1>2, <1>3 DEF TypeOK

LEMMA Numbers ==
  ASSUME TypeOK, NEW n \in Notifications
  PROVE  /\ made[n] \in Nat /\ made[n] <= Attempts
         /\ stalled[n] \in Nat /\ sends[n] \in Nat
         /\ Attempts \in Nat /\ MaxStalled \in Nat /\ MaxFaults \in Nat
<1>1. made[n] \in 0..Attempts /\ stalled[n] \in 0..(MaxStalled + 1) /\ sends[n] \in Nat
  BY DEF TypeOK
<1> QED
  BY <1>1, QueueAssumption

(* The workers after one of them went on to its next step. *)
LEMMA AfterDo ==
  ASSUME TypeOK, NEW w \in Workers, NEW n \in Notifications, NEW step \in Steps, Do(w, step, n)
  PROVE  /\ worker' \in [Workers -> Busy \cup {Idle}]
         /\ worker'[w].at = step /\ worker'[w].n = n /\ worker'[w] # Idle
         /\ \A v \in Workers \ {w} : worker'[v] = worker[v]
<1>1. [at |-> step, n |-> n] \in Busy
  BY DEF Busy
<1>2. [at |-> step, n |-> n] # Idle
  <2>1. [at |-> step, n |-> n].at # Idle.at
    BY DEF Steps, Idle
  <2> QED
    BY <2>1
<1> QED
  BY <1>1, <1>2 DEF TypeOK, Do

(* And after one of them put its job down. *)
LEMMA AfterRest ==
  ASSUME TypeOK, NEW w \in Workers, Rest(w)
  PROVE  /\ worker' \in [Workers -> Busy \cup {Idle}]
         /\ worker'[w] = Idle /\ worker'[w].at = "idle"
         /\ \A v \in Workers \ {w} : worker'[v] = worker[v]
BY DEF TypeOK, Rest, Idle

-----------------------------------------------------------------------------
(* Type correctness *)

LEMMA InitIInv == Init => IInv
<1> SUFFICES ASSUME Init PROVE IInv
  OBVIOUS
<1>1. \A w \in Workers : worker[w] = Idle /\ worker[w].at = "idle"
  BY DEF Init, Idle
<1>2. TypeOK
  BY <1>1, QueueAssumption DEF Init, TypeOK, WorkingOn
<1>3. Tally
  BY <1>1, QueueAssumption DEF Init, Tally, TallyOf, Spent
<1>4. Honest
  BY <1>1, QueueAssumption DEF Init, Honest, SentMeansDelivered, CompletedMeansSent
<1> QED
  BY <1>2, <1>3, <1>4 DEF IInv

LEMMA CreateTypeOK ==
  ASSUME IInv, NEW n \in Notifications, Insert(n) \/ Enqueue(n) \/ EnqueueFails(n)
  PROVE  TypeOK'
BY QueueAssumption DEF IInv, TypeOK, Tally, TallyOf, Insert, Enqueue, EnqueueFails, WorkingOn

LEMMA QueueTypeOK ==
  ASSUME IInv, NEW n \in Notifications, BackoffEnds(n) \/ Recover(n)
  PROVE  TypeOK'
<1>1. ASSUME NEW w \in Workers, WorkingOn(w, n)
      PROVE  FALSE
  BY <1>1 DEF IInv, TypeOK, BackoffEnds, Recover
<1>2. job' \in [Notifications -> {"none", "waiting", "active", "delayed", "completed", "failed"}]
  BY DEF IInv, TypeOK, BackoffEnds, Recover
<1>3. stalled' \in [Notifications -> 0..(MaxStalled + 1)]
  BY QueueAssumption DEF IInv, TypeOK, Tally, TallyOf, BackoffEnds, Recover
<1> QED
  BY <1>1, <1>2, <1>3 DEF IInv, TypeOK, BackoffEnds, Recover, WorkingOn

LEMMA TakeTypeOK ==
  ASSUME IInv, NEW n \in Notifications, NEW w \in Workers, Take(w, n)
  PROVE  TypeOK'
<1>1. TypeOK /\ Do(w, "send", n) /\ "send" \in Steps
  BY DEF IInv, Take, Steps
<1>2. \A v \in Workers : ~WorkingOn(v, n)
  BY DEF IInv, TypeOK, Take
<1>3. /\ worker' \in [Workers -> Busy \cup {Idle}]
      /\ worker'[w].n = n /\ \A v \in Workers \ {w} : worker'[v] = worker[v]
  BY <1>1, AfterDo
<1>4. \A u \in Workers, m \in Notifications :
        WorkingOn(u, m)' => (u = w /\ m = n) \/ (u # w /\ m # n /\ WorkingOn(u, m))
  BY <1>2, <1>3 DEF WorkingOn
<1>5. job' \in [Notifications -> {"none", "waiting", "active", "delayed", "completed", "failed"}]
  BY <1>1 DEF Take, TypeOK
<1>6. \A u, v \in Workers, m \in Notifications :
        WorkingOn(u, m)' => job'[m] = "active" /\ (WorkingOn(v, m)' => v = u)
  BY <1>1, <1>4 DEF Take, TypeOK
<1> QED
  BY <1>1, <1>3, <1>5, <1>6 DEF Take, TypeOK

(* A worker goes on with the job it has. *)
LEMMA GoOnTypeOK ==
  ASSUME IInv, NEW w \in Workers, worker[w].at # "idle",
         NEW step \in Steps, Do(w, step, worker[w].n), UNCHANGED job
  PROVE  /\ worker' \in [Workers -> Busy \cup {Idle}]
         /\ \A u, v \in Workers, n \in Notifications :
              WorkingOn(u, n)' => job'[n] = "active" /\ (WorkingOn(v, n)' => v = u)
<1>1. TypeOK
  BY DEF IInv
<1>2. /\ worker[w] # Idle /\ worker[w].n \in Notifications
      /\ job[worker[w].n] = "active"
  BY <1>1, InHand DEF Idle
<1>3. /\ worker' \in [Workers -> Busy \cup {Idle}]
      /\ worker'[w].n = worker[w].n /\ \A v \in Workers \ {w} : worker'[v] = worker[v]
  BY <1>1, <1>2, AfterDo
<1>4. \A u \in Workers, n \in Notifications : WorkingOn(u, n)' => WorkingOn(u, n)
  BY <1>2, <1>3 DEF WorkingOn
<1> QED
  BY <1>1, <1>3, <1>4 DEF TypeOK

(* A worker puts its job down; only that job changes. *)
LEMMA PutDownTypeOK ==
  ASSUME IInv, NEW w \in Workers, worker[w].at # "idle", Rest(w),
         \A n \in Notifications \ {worker[w].n} : job'[n] = job[n]
  PROVE  /\ worker' \in [Workers -> Busy \cup {Idle}]
         /\ \A u, v \in Workers, n \in Notifications :
              WorkingOn(u, n)' => job'[n] = "active" /\ (WorkingOn(v, n)' => v = u)
<1>1. TypeOK
  BY DEF IInv
<1>2. /\ worker' \in [Workers -> Busy \cup {Idle}]
      /\ worker'[w] = Idle /\ \A v \in Workers \ {w} : worker'[v] = worker[v]
  BY <1>1, AfterRest
<1>3. \A u \in Workers, n \in Notifications : WorkingOn(u, n)' => u # w /\ WorkingOn(u, n)
  BY <1>2 DEF WorkingOn
<1>4. \A u \in Workers, n \in Notifications : WorkingOn(u, n)' => n # worker[w].n
  <2>1. \A u \in Workers : WorkingOn(u, worker[w].n) => u = w
    BY <1>1, InHand
  <2> QED
    BY <1>3, <2>1
<1> QED
  BY <1>1, <1>2, <1>3, <1>4 DEF TypeOK

LEMMA WorkerTypeOK ==
  ASSUME IInv, NEW w \in Workers, Process(w) \/ UpdateFails(w) \/ WorkerDies(w)
  PROVE  TypeOK'
<1>1. TypeOK
  BY DEF IInv
<1>2. worker[w].at # "idle"
  <2>1. CASE Process(w) \/ UpdateFails(w)
    BY <2>1 DEF Process, Send, MarkSent, MarkFailed, Complete, JobFails, UpdateFails
  <2>2. CASE WorkerDies(w)
    BY <1>1, <2>2 DEF WorkerDies, TypeOK, Busy, Steps
  <2> QED
    BY <2>1, <2>2
<1>3. worker[w].n \in Notifications /\ job[worker[w].n] = "active"
  BY <1>1, <1>2, InHand
<1>4. CASE Send(w)
  <2>1. \E step \in Steps : Do(w, step, worker[w].n)
    BY <1>4 DEF Send, Steps
  <2>2. sends' \in [Notifications -> Nat]
    BY <1>1, <1>3, <1>4 DEF Send, TypeOK
  <2> QED
    BY <1>1, <1>2, <1>4, <2>1, <2>2, GoOnTypeOK DEF Send, TypeOK
<1>5. CASE MarkSent(w) \/ MarkFailed(w) \/ UpdateFails(w)
  <2>1. (\E step \in Steps : Do(w, step, worker[w].n)) /\ UNCHANGED job
    BY <1>5 DEF MarkSent, MarkFailed, UpdateFails, Steps
  <2>2. /\ row' \in [Notifications -> {"absent", "queued", "sent", "failed"}]
        /\ faults' \in [Notifications -> 0..MaxFaults]
        /\ UNCHANGED <<creating, made, stalled, sends>>
    BY <1>1, <1>3, <1>5, QueueAssumption DEF MarkSent, MarkFailed, UpdateFails, Hurt, TypeOK
  <2> QED
    BY <1>1, <1>2, <2>1, <2>2, GoOnTypeOK DEF TypeOK
<1>6. CASE Complete(w) \/ JobFails(w) \/ WorkerDies(w)
  <2>1. Rest(w) /\ \A n \in Notifications \ {worker[w].n} : job'[n] = job[n]
    BY <1>1, <1>6 DEF Complete, JobFails, WorkerDies, TypeOK
  <2>2. made[worker[w].n] < Attempts
    BY <1>3 DEF IInv, Tally, TallyOf
  <2>3. /\ job' \in [Notifications ->
                       {"none", "waiting", "active", "delayed", "completed", "failed"}]
        /\ made' \in [Notifications -> 0..Attempts]
        /\ faults' \in [Notifications -> 0..MaxFaults]
        /\ UNCHANGED <<row, creating, stalled, sends>>
    BY <1>1, <1>3, <1>6, <2>2, QueueAssumption DEF Complete, JobFails, WorkerDies, Hurt, TypeOK
  <2> QED
    BY <1>1, <1>2, <2>1, <2>3, PutDownTypeOK DEF TypeOK
<1> QED
  BY <1>4, <1>5, <1>6 DEF Process

LEMMA NextTypeOK == IInv /\ [Next]_vars => TypeOK'
<1> SUFFICES ASSUME IInv, [Next]_vars PROVE TypeOK'
  OBVIOUS
<1>1. CASE UNCHANGED vars
  BY <1>1 DEF IInv, TypeOK, vars, WorkingOn
<1> QED
  BY <1>1, CreateTypeOK, QueueTypeOK, TakeTypeOK, WorkerTypeOK DEF Next

-----------------------------------------------------------------------------
(* How often a message is sent *)

LEMMA CreateTally ==
  ASSUME IInv, NEW n \in Notifications, Insert(n) \/ Enqueue(n) \/ EnqueueFails(n)
  PROVE  Tally'
BY QueueAssumption DEF IInv, TypeOK, Tally, TallyOf, Spent, Insert, Enqueue, EnqueueFails

LEMMA QueueTally ==
  ASSUME IInv, NEW n \in Notifications, BackoffEnds(n) \/ Recover(n)
  PROVE  Tally'
<1>1. \A w \in Workers : worker[w].at = "send" => worker[w].n # n /\ worker[w].n \in Notifications
  BY InHand DEF IInv, BackoffEnds, Recover, WorkingOn, Idle
<1>2. \A m \in Notifications : TallyOf(m)'
  BY QueueAssumption DEF IInv, TypeOK, Tally, TallyOf, Spent, BackoffEnds, Recover
<1>3. \A w \in Workers : worker'[w].at = "send" => sends'[worker'[w].n] <= Spent(worker[w].n)'
  BY <1>1 DEF IInv, TypeOK, Tally, Spent, BackoffEnds, Recover
<1> QED
  BY <1>2, <1>3 DEF Tally

LEMMA TakeTally ==
  ASSUME IInv, NEW n \in Notifications, NEW w \in Workers, Take(w, n)
  PROVE  Tally'
<1>1. Do(w, "send", n) /\ "send" \in Steps
  BY DEF Take, Steps
<1>2. \A m \in Notifications : TallyOf(m)'
  BY QueueAssumption DEF IInv, TypeOK, Tally, TallyOf, Spent, Take
<1>3. ASSUME NEW v \in Workers, worker'[v].at = "send"
      PROVE  sends'[worker'[v].n] <= Spent(worker[v].n)'
  <2>1. worker'[w].n = n /\ \A u \in Workers \ {w} : worker'[u] = worker[u]
    BY <1>1, AfterDo DEF IInv
  <2>2. CASE v = w
    BY <1>2, <2>1, <2>2 DEF IInv, Tally, TallyOf, Spent, Take
  <2>3. CASE v # w
    BY <1>3, <2>1, <2>3 DEF IInv, Tally, Spent, Take
  <2> QED
    BY <2>2, <2>3
<1> QED
  BY <1>2, <1>3 DEF Tally

LEMMA WorkerTally ==
  ASSUME IInv, NEW w \in Workers, NEW n, n = worker[w].n,
         Process(w) \/ UpdateFails(w) \/ WorkerDies(w)
  PROVE  Tally'
<1>1. TypeOK /\ Tally
  BY DEF IInv
<1>2. worker[w].at # "idle"
  <2>1. CASE Process(w) \/ UpdateFails(w)
    BY <2>1 DEF Process, Send, MarkSent, MarkFailed, Complete, JobFails, UpdateFails
  <2>2. CASE WorkerDies(w)
    BY <1>1, <2>2 DEF WorkerDies, TypeOK, Busy, Steps
  <2> QED
    BY <2>1, <2>2
<1>3. /\ worker[w] # Idle /\ n \in Notifications /\ job[n] = "active"
      /\ \A v \in Workers : worker[v].at = "send" => worker[v].n \in Notifications
      /\ \A v \in Workers \ {w} : worker[v].at = "send" => worker[v].n # n
  BY <1>1, <1>2, InHand DEF WorkingOn, Idle
<1>4. \A v \in Workers : worker'[v].at = "send" => v # w /\ worker'[v] = worker[v]
  <2>1. CASE \E step \in Steps \ {"send"} : Do(w, step, n)
    <3>1. PICK step \in Steps \ {"send"} : Do(w, step, n)
      BY <2>1
    <3>2. worker'[w].at = step /\ \A v \in Workers \ {w} : worker'[v] = worker[v]
      BY <1>1, <1>3, <3>1, AfterDo
    <3> QED
      BY <3>1, <3>2
  <2>2. CASE Rest(w)
    BY <1>1, <2>2, AfterRest
  <2> QED
    BY <2>1, <2>2 DEF Process, Send, MarkSent, MarkFailed, Complete, JobFails, UpdateFails,
                      WorkerDies, Steps
<1>5. \A m \in Notifications \ {n} :
        /\ row'[m] = row[m] /\ job'[m] = job[m] /\ made'[m] = made[m]
        /\ stalled'[m] = stalled[m] /\ sends'[m] = sends[m] /\ (m \in creating' <=> m \in creating)
  BY <1>1 DEF TypeOK, Process, Send, MarkSent, MarkFailed, Complete, JobFails, UpdateFails,
              WorkerDies
<1>6. TallyOf(n)'
  <2>1. /\ row[n] # "absent" /\ n \notin creating /\ made[n] < Attempts /\ stalled[n] <= MaxStalled
        /\ sends[n] <= made[n] + stalled[n] + 1
        /\ worker[w].at = "send" => sends[n] <= made[n] + stalled[n]
    BY <1>1, <1>3 DEF Tally, TallyOf, Spent
  <2>2. /\ made[n] \in Nat /\ stalled[n] \in Nat /\ sends[n] \in Nat
        /\ Attempts \in Nat /\ MaxStalled \in Nat
    BY <1>1, <1>3, Numbers
  <2>3. CASE Send(w)
    <3>1. /\ job'[n] = "active" /\ row'[n] = row[n] /\ n \notin creating'
          /\ made'[n] = made[n] /\ stalled'[n] = stalled[n]
      BY <1>3, <2>1, <2>3 DEF Send
    <3>2. sends'[n] \in {sends[n], sends[n] + 1}
      BY <1>1, <1>3, <2>2, <2>3 DEF Send, TypeOK
    <3>3. sends'[n] <= made'[n] + stalled'[n] + 1
      BY <2>1, <2>2, <2>3, <3>1, <3>2 DEF Send
    <3> QED
      BY <2>1, <3>1, <3>3 DEF TallyOf, Spent
  <2>4. CASE MarkSent(w) \/ MarkFailed(w) \/ UpdateFails(w) \/ WorkerDies(w)
    <3>1. /\ job'[n] = "active" /\ row'[n] # "absent" /\ n \notin creating'
          /\ made'[n] = made[n] /\ stalled'[n] = stalled[n] /\ sends'[n] = sends[n]
      BY <1>1, <1>3, <2>1, <2>4 DEF TypeOK, MarkSent, MarkFailed, UpdateFails, WorkerDies
    <3> QED
      BY <2>1, <3>1 DEF TallyOf, Spent
  <2>5. CASE Complete(w)
    <3>1. /\ job'[n] = "completed" /\ row'[n] = row[n] /\ n \notin creating'
          /\ made'[n] = made[n] /\ stalled'[n] = stalled[n] /\ sends'[n] = sends[n]
      BY <1>1, <1>3, <2>1, <2>5 DEF TypeOK, Complete
    <3> QED
      BY <2>1, <3>1 DEF TallyOf, Spent
  <2>6. CASE JobFails(w)
    <3>1. /\ job'[n] = IF made[n] + 1 < Attempts THEN "delayed" ELSE "failed"
          /\ made'[n] = made[n] + 1
          /\ row'[n] = row[n] /\ n \notin creating'
          /\ stalled'[n] = stalled[n] /\ sends'[n] = sends[n]
      BY <1>1, <1>3, <2>1, <2>6 DEF TypeOK, JobFails
    <3>2. CASE made[n] + 1 < Attempts
      BY <2>1, <2>2, <3>1, <3>2 DEF TallyOf, Spent
    <3>3. CASE ~(made[n] + 1 < Attempts)
      BY <2>1, <2>2, <3>1, <3>3 DEF TallyOf, Spent
    <3> QED
      BY <3>2, <3>3
  <2> QED
    BY <2>3, <2>4, <2>5, <2>6 DEF Process
<1>7. ASSUME NEW m \in Notifications
      PROVE  TallyOf(m)'
  <2>1. CASE m = n
    BY <1>6, <2>1
  <2>2. CASE m # n
    <3>1. TallyOf(m)
      BY <1>1 DEF Tally
    <3> QED
      BY <1>5, <2>2, <3>1 DEF TallyOf, Spent
  <2> QED
    BY <2>1, <2>2
<1>8. \A v \in Workers : worker'[v].at = "send" => sends'[worker'[v].n] <= Spent(worker[v].n)'
  BY <1>1, <1>3, <1>4, <1>5 DEF Tally, Spent
<1> QED
  BY <1>7, <1>8 DEF Tally

LEMMA NextTally == IInv /\ [Next]_vars => Tally'
<1> SUFFICES ASSUME IInv, [Next]_vars PROVE Tally'
  OBVIOUS
<1>1. CASE UNCHANGED vars
  BY <1>1 DEF IInv, Tally, TallyOf, Spent, vars
<1> QED
  BY <1>1, CreateTally, QueueTally, TakeTally, WorkerTally DEF Next

LEMMA TallyBounds == TypeOK /\ Tally => SendsAreBounded
<1> SUFFICES ASSUME TypeOK, Tally, NEW n \in Notifications
             PROVE  sends[n] <= Attempts + MaxStalled
  BY DEF SendsAreBounded
<1>1. TallyOf(n)
  BY DEF Tally
<1>2. job[n] \in {"none", "waiting", "active", "delayed", "completed", "failed"}
  BY DEF TypeOK
<1> QED
  BY <1>1, <1>2, Numbers DEF TallyOf, Spent

-----------------------------------------------------------------------------
(* What the row says *)

LEMMA CreateHonest ==
  ASSUME IInv, NEW n \in Notifications,
         Insert(n) \/ Enqueue(n) \/ EnqueueFails(n) \/ BackoffEnds(n) \/ Recover(n)
         \/ \E w \in Workers : Take(w, n)
  PROVE  Honest'
<1>1. TypeOK /\ Tally /\ Honest
  BY DEF IInv
<1>2. /\ sends' = sends
      /\ \A m \in Notifications : row'[m] = row[m] \/ (row[m] = "absent" /\ row'[m] = "queued")
      /\ \A m \in Notifications : row[m] = "absent" => job[m] = "none"
      /\ \A m \in Notifications : job'[m] = "completed" => job[m] = "completed"
  <2>1. \A m \in Notifications : row[m] = "absent" => job[m] = "none"
    BY <1>1 DEF Tally, TallyOf
  <2>2. CASE Insert(n) \/ Enqueue(n) \/ EnqueueFails(n)
    BY <1>1, <2>1, <2>2 DEF TypeOK, Insert, Enqueue, EnqueueFails
  <2>3. CASE BackoffEnds(n) \/ Recover(n) \/ \E w \in Workers : Take(w, n)
    BY <1>1, <2>1, <2>3 DEF TypeOK, BackoffEnds, Recover, Take
  <2> QED
    BY <2>2, <2>3
<1>3. \A w \in Workers :
        worker'[w].at \in {"mark.sent", "complete"} =>
          worker'[w] = worker[w] /\ worker[w].n \in Notifications
  <2>1. ASSUME NEW v \in Workers, Do(v, "send", n), NEW w \in Workers,
               worker'[w].at \in {"mark.sent", "complete"}
        PROVE  worker'[w] = worker[w]
    BY <1>1, <2>1, AfterDo DEF Steps
  <2>2. \A w \in Workers :
          worker'[w].at \in {"mark.sent", "complete"} => worker'[w] = worker[w]
    BY <2>1 DEF Insert, Enqueue, EnqueueFails, BackoffEnds, Recover, Take
  <2> QED
    BY <1>1, <2>2, InHand
<1>4. SentMeansDelivered' /\ CompletedMeansSent'
  BY <1>1, <1>2, QueueAssumption DEF Honest, SentMeansDelivered, CompletedMeansSent
<1> QED
  BY <1>1, <1>2, <1>3, <1>4 DEF Honest

LEMMA WorkerHonest ==
  ASSUME IInv, NEW w \in Workers, NEW n, n = worker[w].n,
         Process(w) \/ UpdateFails(w) \/ WorkerDies(w)
  PROVE  Honest'
<1>1. TypeOK /\ Honest
  BY DEF IInv
<1>2. worker[w].at # "idle"
  <2>1. CASE Process(w) \/ UpdateFails(w)
    BY <2>1 DEF Process, Send, MarkSent, MarkFailed, Complete, JobFails, UpdateFails
  <2>2. CASE WorkerDies(w)
    BY <1>1, <2>2 DEF WorkerDies, TypeOK, Busy, Steps
  <2> QED
    BY <2>1, <2>2
<1>3. /\ n \in Notifications /\ job[n] = "active"
      /\ \A v \in Workers \ {w} : worker[v].at # "idle" =>
           worker[v].n \in Notifications /\ worker[v].n # n
  BY <1>1, <1>2, InHand DEF WorkingOn, Idle
<1>4. /\ \A m \in Notifications \ {n} :
           row'[m] = row[m] /\ job'[m] = job[m] /\ sends'[m] = sends[m]
      /\ sends[n] \in Nat /\ sends'[n] \in Nat /\ sends'[n] >= sends[n]
  BY <1>1, <1>3 DEF TypeOK, Process, Send, MarkSent, MarkFailed, Complete, JobFails, UpdateFails,
                    WorkerDies
<1>5. \A v \in Workers \ {w} : worker'[v] = worker[v]
  BY <1>1 DEF TypeOK, Process, Send, MarkSent, MarkFailed, Complete, JobFails, UpdateFails,
              WorkerDies, Do, Rest
<1>6. /\ n \in Mailed /\ row'[n] = "sent" => sends'[n] > 0
      /\ job'[n] = "completed" => row'[n] = "sent"
      /\ worker'[w].at = "mark.sent" => worker'[w].n = n /\ (n \in Mailed => sends'[n] > 0)
      /\ worker'[w].at = "complete" => worker'[w].n = n /\ row'[n] = "sent"
  <2>1. CASE Send(w)
    <3>1. PICK step \in {"mark.sent", "mark.failed"} :
            Do(w, step, n) /\ (step = "mark.sent" /\ n \in Mailed => sends'[n] = sends[n] + 1)
      BY <1>1, <1>3, <2>1 DEF Send, TypeOK
    <3>2. worker'[w].at = step /\ worker'[w].n = n
      BY <1>1, <1>3, <3>1, AfterDo DEF Steps
    <3> QED
      BY <1>1, <1>3, <1>4, <2>1, <3>1, <3>2 DEF Send, Honest, SentMeansDelivered
  <2>2. CASE MarkSent(w) \/ MarkFailed(w) \/ UpdateFails(w)
    <3>1. /\ job'[n] = "active" /\ sends'[n] = sends[n]
          /\ \/ row'[n] = "sent" /\ worker[w].at = "mark.sent" /\ Do(w, "complete", n)
             \/ row'[n] \in {row[n], "failed"} /\ Do(w, "fail", n)
             \/ row'[n] = row[n] /\ Do(w, "mark.failed", n)
      BY <1>1, <1>3, <2>2 DEF MarkSent, MarkFailed, UpdateFails, TypeOK
    <3>2. /\ row'[n] = "sent" => row[n] = "sent" \/ worker[w].at = "mark.sent"
          /\ \E step \in {"complete", "fail", "mark.failed"} :
               Do(w, step, n) /\ (step = "complete" => row'[n] = "sent")
      BY <3>1
    <3>3. /\ worker'[w].at = "complete" => worker'[w].n = n /\ row'[n] = "sent"
          /\ worker'[w].at # "mark.sent"
      BY <1>1, <1>3, <3>2, AfterDo DEF Steps
    <3> QED
      BY <1>1, <3>1, <3>2, <3>3 DEF Honest, SentMeansDelivered
  <2>3. CASE Complete(w) \/ JobFails(w) \/ WorkerDies(w)
    <3>1. Rest(w) /\ row'[n] = row[n] /\ sends'[n] = sends[n]
          /\ (job'[n] = "completed" => worker[w].at = "complete")
      BY <1>1, <1>3, <2>3 DEF Complete, JobFails, WorkerDies, TypeOK
    <3>2. worker'[w].at = "idle"
      BY <1>1, <3>1, AfterRest
    <3> QED
      BY <1>1, <3>1, <3>2 DEF Honest, SentMeansDelivered
  <2> QED
    BY <2>1, <2>2, <2>3 DEF Process
<1>7. SentMeansDelivered' /\ CompletedMeansSent'
  BY <1>1, <1>3, <1>4, <1>6, QueueAssumption DEF Honest, SentMeansDelivered, CompletedMeansSent
<1>8. ASSUME NEW v \in Workers
      PROVE  /\ worker'[v].at = "mark.sent" /\ worker'[v].n \in Mailed => sends'[worker'[v].n] > 0
             /\ worker'[v].at = "complete" => row'[worker'[v].n] = "sent"
  <2>1. CASE v = w
    BY <1>6, <2>1
  <2>2. CASE v # w
    BY <1>1, <1>3, <1>4, <1>5, <2>2 DEF Honest
  <2> QED
    BY <2>1, <2>2
<1> QED
  BY <1>7, <1>8 DEF Honest

LEMMA NextHonest == IInv /\ [Next]_vars => Honest'
<1> SUFFICES ASSUME IInv, [Next]_vars PROVE Honest'
  OBVIOUS
<1>1. CASE UNCHANGED vars
  BY <1>1 DEF IInv, Honest, SentMeansDelivered, CompletedMeansSent, vars
<1> QED
  BY <1>1, CreateHonest, WorkerHonest DEF Next

-----------------------------------------------------------------------------
(* The theorems *)

LEMMA Invariance == Spec => []IInv
<1>1. IInv /\ [Next]_vars => IInv'
  BY NextTypeOK, NextTally, NextHonest DEF IInv
<1> QED
  BY InitIInv, <1>1, PTL DEF Spec

(* Rows, jobs and workers are well formed, and an active job has one       *)
(* worker at most.                                                         *)
THEOREM TypeCorrect == Spec => []TypeOK
<1>1. IInv => TypeOK
  BY DEF IInv
<1> QED
  BY Invariance, <1>1, PTL

(* "sent" only once real delivery succeeds, whatever the retries, database *)
(* errors and dying workers in between.                                    *)
THEOREM SentIsTrue == Spec => []SentMeansDelivered
<1>1. IInv => SentMeansDelivered
  BY DEF IInv, Honest
<1> QED
  BY Invariance, <1>1, PTL

(* No failure is swallowed: a completed job left its row "sent".           *)
THEOREM NothingSwallowed == Spec => []CompletedMeansSent
<1>1. IInv => CompletedMeansSent
  BY DEF IInv, Honest
<1> QED
  BY Invariance, <1>1, PTL

(* One message per attempt at most, plus one per recovery, for any number  *)
(* of attempts, recoveries, workers and faults.                            *)
THEOREM DeliveriesBounded == Spec => []SendsAreBounded
<1>1. IInv => SendsAreBounded
  BY TallyBounds DEF IInv
<1> QED
  BY Invariance, <1>1, PTL
=============================================================================
