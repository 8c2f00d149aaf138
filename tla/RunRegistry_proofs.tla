-------------------------- MODULE RunRegistry_proofs --------------------------
(***************************************************************************)
(* Facts about the registry's operations, for every set of runs and        *)
(* repositories and every limit: what the four ways of changing a pending  *)
(* queue do to its set of entries, and that each operation keeps the       *)
(* registry's types.                                                       *)
(***************************************************************************)
EXTENDS RunRegistry, SequenceTheorems, TLAPS

(* No run occurs twice in the sequence.                                    *)
Distinct(s) == \A i, j \in DOMAIN s : s[i] = s[j] => i = j

(* Popping the head of a queue (pop_from_pending_queues) takes exactly     *)
(* that entry out of it.                                                   *)
LEMMA TailOfDistinct ==
  ASSUME NEW S, NEW s \in Seq(S), s # <<>>
  PROVE  /\ Tail(s) \in Seq(S)
         /\ Head(s) \in ToSet(s)
         /\ ToSet(Tail(s)) \subseteq ToSet(s)
         /\ Distinct(s) => /\ Distinct(Tail(s))
                           /\ Head(s) \notin ToSet(Tail(s))
<1>1. /\ Tail(s) \in Seq(S)
      /\ Len(s) \in Nat \ {0}
      /\ Len(Tail(s)) = Len(s) - 1
      /\ Head(s) = s[1]
      /\ \A i \in 1..Len(Tail(s)) : Tail(s)[i] = s[i + 1]
  OBVIOUS
<1>2. DOMAIN s = 1..Len(s) /\ DOMAIN Tail(s) = 1..Len(Tail(s))
  BY <1>1
<1>3. \A i \in DOMAIN Tail(s) : i + 1 \in DOMAIN s /\ i + 1 # 1 /\ Tail(s)[i] = s[i + 1]
  BY <1>1, <1>2
<1>4. 1 \in DOMAIN s
  BY <1>1, <1>2
<1>5. Distinct(s) => Distinct(Tail(s))
  BY <1>1, <1>2, <1>3 DEF Distinct
<1>6. Distinct(s) => Head(s) \notin ToSet(Tail(s))
  BY <1>1, <1>3, <1>4 DEF Distinct, ToSet
<1>7. Head(s) \in ToSet(s) /\ ToSet(Tail(s)) \subseteq ToSet(s)
  BY <1>1, <1>3, <1>4 DEF ToSet
<1> QED
  BY <1>1, <1>5, <1>6, <1>7

(* Taking an entry out of the middle (dequeue_run_staged,                  *)
(* remove_pending_staged) moves up by one what was behind it.              *)
LEMMA RemoveAtElements ==
  ASSUME NEW S, NEW s \in Seq(S), NEW n \in DOMAIN s
  PROVE  /\ RemoveAt(s, n) \in Seq(S)
         /\ Len(s) \in Nat /\ DOMAIN s = 1..Len(s)
         /\ DOMAIN RemoveAt(s, n) = 1..(Len(s) - 1)
         /\ \A i \in 1..(Len(s) - 1) :
               RemoveAt(s, n)[i] = IF i < n THEN s[i] ELSE s[i + 1]
<1> DEFINE front == SubSeq(s, 1, n - 1)
           back  == SubSeq(s, n + 1, Len(s))
           t     == RemoveAt(s, n)
<1>1. Len(s) \in Nat /\ DOMAIN s = 1..Len(s) /\ n \in 1..Len(s)
  OBVIOUS
<1>2. /\ front \in Seq(S) /\ Len(front) = n - 1
      /\ \A i \in 1..(n - 1) : front[i] = s[i]
  BY <1>1
<1>3. /\ back \in Seq(S) /\ Len(back) = Len(s) - n
      /\ \A i \in 1..(Len(s) - n) : back[i] = s[n + i]
  BY <1>1
<1>4. t = front \o back
  BY DEF RemoveAt
<1> HIDE DEF front, back, t
<1>5. /\ t \in Seq(S)
      /\ Len(t) = Len(front) + Len(back)
      /\ \A i \in 1..(Len(front) + Len(back)) :
            t[i] = IF i <= Len(front) THEN front[i] ELSE back[i - Len(front)]
  BY <1>2, <1>3, <1>4, ConcatProperties, Zenon
<1>6. /\ Len(t) = Len(s) - 1
      /\ \A i \in 1..(Len(s) - 1) : t[i] = IF i < n THEN s[i] ELSE s[i + 1]
  <2>1. Len(front) + Len(back) = Len(s) - 1
    BY <1>1, <1>2, <1>3
  <2>2. ASSUME NEW i \in 1..(Len(s) - 1)
        PROVE  t[i] = IF i < n THEN s[i] ELSE s[i + 1]
    <3>1. CASE i < n
      BY <1>1, <1>2, <1>5, <2>1, <3>1
    <3>2. CASE ~(i < n)
      <4>1. t[i] = back[i - (n - 1)]
        BY <1>1, <1>2, <1>5, <2>1, <3>2
      <4>2. i - (n - 1) \in 1..(Len(s) - n) /\ n + (i - (n - 1)) = i + 1
        BY <1>1, <3>2
      <4> QED
        BY <1>3, <3>2, <4>1, <4>2
    <3> QED
      BY <3>1, <3>2
  <2> QED
    BY <1>5, <2>1, <2>2
<1>7. DOMAIN t = 1..(Len(s) - 1)
  BY <1>5, <1>6
<1> QED
  BY <1>1, <1>5, <1>6, <1>7 DEF t

(* It takes out exactly that entry.                                        *)
LEMMA RemoveAtOfDistinct ==
  ASSUME NEW S, NEW s \in Seq(S), NEW n \in DOMAIN s
  PROVE  /\ RemoveAt(s, n) \in Seq(S)
         /\ ToSet(RemoveAt(s, n)) \subseteq ToSet(s)
         /\ Distinct(s) => /\ Distinct(RemoveAt(s, n))
                           /\ s[n] \notin ToSet(RemoveAt(s, n))
<1> DEFINE t == RemoveAt(s, n)
<1>1. /\ t \in Seq(S) /\ Len(s) \in Nat /\ DOMAIN s = 1..Len(s)
      /\ DOMAIN t = 1..(Len(s) - 1)
      /\ \A i \in 1..(Len(s) - 1) : t[i] = IF i < n THEN s[i] ELSE s[i + 1]
  BY RemoveAtElements
<1> HIDE DEF t
<1> DEFINE at(i) == IF i < n THEN i ELSE i + 1
<1>2. \A i \in DOMAIN t : at(i) \in DOMAIN s /\ at(i) # n /\ t[i] = s[at(i)]
  BY <1>1
<1>3. \A i, j \in DOMAIN t : at(i) = at(j) => i = j
  BY <1>1
<1> HIDE DEF at
<1>4. Distinct(s) => Distinct(t) /\ s[n] \notin ToSet(t)
  BY <1>2, <1>3 DEF Distinct, ToSet
<1>5. ToSet(t) \subseteq ToSet(s)
  BY <1>2 DEF ToSet
<1> QED
  BY <1>1, <1>4, <1>5 DEF t

(* ... and leaves every other entry in the queue.                          *)
LEMMA RemoveAtKeepsOthers ==
  ASSUME NEW S, NEW s \in Seq(S), NEW n \in DOMAIN s,
         NEW j \in DOMAIN s, j # n
  PROVE  \E k \in DOMAIN RemoveAt(s, n) : RemoveAt(s, n)[k] = s[j]
<1> DEFINE t == RemoveAt(s, n)
           k == IF j < n THEN j ELSE j - 1
<1>1. /\ Len(s) \in Nat /\ DOMAIN s = 1..Len(s) /\ DOMAIN t = 1..(Len(s) - 1)
      /\ \A i \in 1..(Len(s) - 1) : t[i] = IF i < n THEN s[i] ELSE s[i + 1]
  BY RemoveAtElements
<1> HIDE DEF t
<1>2. k \in DOMAIN t
  BY <1>1
<1>3. t[k] = s[j]
  <2>1. CASE j < n
    BY <1>1, <1>2, <2>1
  <2>2. CASE j > n
    <3>1. k = j - 1 /\ k \in 1..(Len(s) - 1) /\ ~(k < n) /\ k + 1 = j
      BY <1>1, <1>2, <2>2
    <3>2. t[k] = s[k + 1]
      BY <1>1, <3>1
    <3> QED
      BY <3>1, <3>2
  <2> QED
    BY <1>1, <2>1, <2>2
<1> QED
  BY <1>2, <1>3 DEF t

(* Appending (enqueue_run_without_snapshot) adds the entry, and keeps the  *)
(* queue free of repetitions when the run was not in it.                   *)
LEMMA AppendToDistinct ==
  ASSUME NEW S, NEW s \in Seq(S), NEW x \in S
  PROVE  /\ Append(s, x) \in Seq(S)
         /\ ToSet(Append(s, x)) \subseteq ToSet(s) \union {x}
         /\ Distinct(s) /\ x \notin ToSet(s) => Distinct(Append(s, x))
<1>1. /\ Append(s, x) \in Seq(S)
      /\ Len(s) \in Nat
      /\ DOMAIN s = 1..Len(s)
      /\ DOMAIN Append(s, x) = 1..(Len(s) + 1)
      /\ \A i \in 1..Len(s) : Append(s, x)[i] = s[i]
      /\ Append(s, x)[Len(s) + 1] = x
  OBVIOUS
<1>2. ToSet(Append(s, x)) \subseteq ToSet(s) \union {x}
  BY <1>1 DEF ToSet
<1>3. ASSUME Distinct(s), x \notin ToSet(s)
      PROVE  Distinct(Append(s, x))
  BY <1>1, <1>3 DEF Distinct, ToSet
<1> QED
  BY <1>1, <1>2, <1>3

(* The empty queue is a queue without repetitions.                         *)
LEMMA EmptyQueue ==
  Distinct(<<>>) /\ ToSet(<<>>) = {} /\ \A S : <<>> \in Seq(S)
BY DEF Distinct, ToSet

----------------------------------------------------------------------------
(* stage_status_locked keeps the registry's types.                         *)
LEMMA StageStatusTypes ==
  ASSUME RegistryTypeOK, NEW r \in Runs, NEW to \in RunStatus,
         StageStatus(r, to) \/ TryStageStatus(r, to)
  PROVE  /\ status' \in [Runs -> RunStatus \union {"absent"}]
         /\ locks' \subseteq Repos
BY DEF RegistryTypeOK, StageStatus, TryStageStatus, StatusAfter

(* The failure counter of the circuit breaker stays below its limit: the   *)
(* failure that would reach it resets it.                                  *)
LEMMA FailsAfterType ==
  ASSUME RegistryTypeOK, NEW p \in Repos, NEW failed \in BOOLEAN
  PROVE  FailsAfter(p, failed) \in [Repos -> 0..(MaxConsecutiveFailures - 1)]
<1>1. MaxConsecutiveFailures \in Nat \ {0}
  BY LimitsAssumption
<1>2. \A x \in Repos : fails[x] \in 0..(MaxConsecutiveFailures - 1)
  BY DEF RegistryTypeOK
<1>3. failed /\ ~Trips(p, failed) => fails[p] + 1 \in 0..(MaxConsecutiveFailures - 1)
  BY <1>1, <1>2 DEF Trips
<1>4. 0 \in 0..(MaxConsecutiveFailures - 1)
  BY <1>1
<1> DEFINE n == IF failed /\ ~Trips(p, failed) THEN fails[p] + 1 ELSE 0
<1>5. n \in 0..(MaxConsecutiveFailures - 1)
  BY <1>3, <1>4
<1>6. FailsAfter(p, failed) = [fails EXCEPT ![p] = n]
  BY DEF FailsAfter
<1> HIDE DEF n
<1> QED
  BY <1>5, <1>6 DEF RegistryTypeOK

(* A tripped breaker empties one queue and leaves the others alone.        *)
LEMMA QueueAfterFacts ==
  ASSUME RegistryTypeOK, NEW p \in Repos, NEW failed \in BOOLEAN
  PROVE  /\ QueueAfter(p, failed) \in [Repos -> Seq(Runs)]
         /\ \A x \in Repos : QueueAfter(p, failed)[x] \in {<<>>, queue[x]}
         /\ Drained(p, failed) # {} => QueueAfter(p, failed)[p] = <<>>
         /\ Drained(p, failed) \subseteq Pending(p)
<1>1. \A S : <<>> \in Seq(S)
  BY EmptyQueue
<1> QED
  BY <1>1 DEF RegistryTypeOK, QueueAfter, Drained

(* Both pops choose a repository with something in its queue.              *)
LEMMA SourceFacts ==
  ASSUME RegistryTypeOK, NEW p \in Repos, NEW q \in [Repos -> Seq(Runs)], NEW f
  PROVE  /\ \A x \in OwnQueue(p, q, f) : x \in Repos /\ q[x] # <<>>
         /\ \A x \in OwnElseAny(p, q, f) : x \in Repos /\ q[x] # <<>>
<1>1. \A x \in OwnQueue(p, q, f) : x \in Repos /\ q[x] # <<>>
  BY DEF OwnQueue, Ready
<1>2. \A i \in DOMAIN order : order[i] \in Repos
  BY DEF RegistryTypeOK
<1>3. \A x \in AnyQueue(q, f) : x \in Repos /\ q[x] # <<>>
  BY <1>2 DEF AnyQueue, Ready
<1> QED
  BY <1>1, <1>3 DEF OwnElseAny

(* Enqueueing and dequeueing keep the registry's types.                    *)
LEMMA EnqueueTypes ==
  ASSUME RegistryTypeOK, NEW r \in Runs, EnqueueRun(r)
  PROVE  RegistryTypeOK'
<1>1. RepoOf[r] \in Repos
  BY RepoOfAssumption
<1>2. queue' \in [Repos -> Seq(Runs)]
  BY <1>1 DEF EnqueueRun, RegistryTypeOK
<1>3. order' \in Seq(Repos)
  BY <1>1 DEF EnqueueRun, RegistryTypeOK
<1>4. status' \in [Runs -> RunStatus \union {"absent"}]
  BY DEF EnqueueRun, RegistryTypeOK, StatusAfter, RunStatus
<1> QED
  BY <1>2, <1>3, <1>4 DEF EnqueueRun, RegistryTypeOK

(* dequeue_run keeps the registry's types.                                 *)
LEMMA DequeueTypes ==
  ASSUME RegistryTypeOK, NEW r \in Runs, DequeueRun(r)
  PROVE  RegistryTypeOK'
<1>0. PICK p \in Repos : \E i \in DOMAIN queue[p] :
         /\ queue' = [queue EXCEPT ![p] = RemoveAt(@, i)]
         /\ StageStatus(r, "Stopped")
         /\ UNCHANGED <<tmux, order, fails>>
  BY DEF DequeueRun
<1>1. PICK i \in DOMAIN queue[p] :
         /\ queue' = [queue EXCEPT ![p] = RemoveAt(@, i)]
         /\ StageStatus(r, "Stopped")
         /\ UNCHANGED <<tmux, order, fails>>
  BY <1>0
<1>2. queue[p] \in Seq(Runs)
  BY DEF RegistryTypeOK
<1>3. RemoveAt(queue[p], i) \in Seq(Runs)
  BY <1>2, RemoveAtOfDistinct
<1>4. "Stopped" \in RunStatus
  BY DEF RunStatus, Terminal
<1>5. status' \in [Runs -> RunStatus \union {"absent"}] /\ locks' \subseteq Repos
  BY <1>1, <1>4, StageStatusTypes
<1> QED
  BY <1>1, <1>3, <1>5 DEF RegistryTypeOK

(* clear_queue keeps the registry's types.                                 *)
LEMMA ClearTypes ==
  ASSUME RegistryTypeOK, NEW P, ClearQueue(P)
  PROVE  RegistryTypeOK'
<1>1. <<>> \in Seq(Runs)
  BY EmptyQueue
<1>2. queue' \in [Repos -> Seq(Runs)]
  BY <1>1 DEF ClearQueue, RegistryTypeOK
<1>3. status' \in [Runs -> RunStatus \union {"absent"}]
  BY DEF ClearQueue, RegistryTypeOK, StatusAfter, RunStatus, Terminal
<1> QED
  BY <1>2, <1>3 DEF ClearQueue, RegistryTypeOK
=============================================================================
