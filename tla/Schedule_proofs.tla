-------------------------- MODULE Schedule_proofs --------------------------
(***************************************************************************)
(* OneRunPerDueTime of Schedule, for any schedules, period and delay, and  *)
(* any number of failed saves and loads and deaths of the daemon.          *)
(***************************************************************************)
EXTENDS Schedule, TLAPS

Entry == [kind : Kinds, at : Times,
          status : {"Active", "Paused", "Rejected", "Completed"},
          next : Nat \cup {None}]

TypeOK ==
    /\ now \in Times
    /\ entries \in [Ids -> Entry \cup {None}]
    /\ disk \in [Ids -> Entry \cup {None}]
    /\ loop \in [due : SUBSET Ids, fired : Ids \cup {None}]
    /\ up \in BOOLEAN
    /\ added \in [Ids -> [kind : Kinds, time : Times] \cup {None}]
    /\ runs \in [Ids -> Nat] /\ forgiven \in [Ids -> Nat]
    /\ late \subseteq Ids
    /\ faults \in Nat

(* One more run of schedule s would not be one too many.                   *)
MayRun(s) == runs[s] + 1 <= DueTimes(s) + forgiven[s]

(* The loop has taken s up, or has run it.                                 *)
Taken(s) == s \in loop.due \/ s = loop.fired \/ runs[s] > 0

(* What an entry of s says, in memory or in the file: a one-shot that has  *)
(* been taken up once is not in the future any more.                       *)
Sound(s, e) ==
    e # None =>
       /\ added[s] # None /\ e.kind = added[s].kind
       /\ e.status = "Active" /\ e.next = None => s \in late
       /\ e.kind = "cron" /\ e.next # None => \E k \in Nat : e.next = Period * k
       /\ e.kind = "oneshot" /\ e.next # None => e.next = e.at
       /\ e.kind = "oneshot" /\ Taken(s) => e.at <= now

(* An entry announces a fire; a cron expression is asked again after each, *)
(* so that its next fire counts once it is due only.                       *)
Announces(e) ==
    /\ e # None /\ e.status = "Active" /\ e.next # None
    /\ e.kind = "cron" => e.next <= now

(* A fire that is announced, or that the loop has ahead of it, is not one  *)
(* too many.  While the daemon is down this is said of the file: what the  *)
(* file did not say when the daemon died has been forgiven.                *)
EntriesOf(s) ==
    /\ Sound(s, entries[s]) /\ Sound(s, disk[s])
    /\ entries[s] # None /\ disk[s] # None => entries[s].at = disk[s].at
    /\ s # loop.fired /\ Announces(entries[s]) => MayRun(s)

LoopOf(s) ==
    /\ s \in loop.due => s # loop.fired /\ MayRun(s)
    /\ Taken(s) => added[s] # None
    /\ added[s] # None => runs[s] <= DueTimes(s) + forgiven[s]

DownOf(s) ==
    ~up => /\ entries[s] = None /\ s \notin loop.due /\ loop.fired = None
           /\ Announces(disk[s]) => MayRun(s)

ScheduleInv(s) == EntriesOf(s) /\ LoopOf(s) /\ DownOf(s)

IInv == TypeOK /\ \A s \in Ids : ScheduleInv(s)

----------------------------------------------------------------------------
(* What a quotient is.                                                     *)
LEMMA Division ==
  ASSUME NEW P \in Nat \ {0}, NEW t \in Nat
  PROVE  /\ t \div P \in Nat
         /\ P * (t \div P) <= t /\ t < P * (t \div P) + P
  BY Z3

(* A product of natural numbers is one.                                    *)
LEMMA Product ==
  ASSUME NEW a \in Nat, NEW b \in Nat
  PROVE  a * b \in Nat
  OBVIOUS

(* There is only one such quotient.                                        *)
LEMMA Quotient ==
  ASSUME NEW P \in Nat \ {0}, NEW t \in Nat, NEW k \in Nat,
         P * k <= t, t < P * k + P
  PROVE  t \div P = k
<1> DEFINE q == t \div P
<1>1. q \in Nat /\ P * q <= t /\ t < P * q + P
  BY Division
<1> HIDE DEF q
<1>2. ASSUME k > q PROVE FALSE
  <2>1. PICK d \in Nat : k = q + 1 + d
    <3>1. k - q - 1 \in Nat /\ k = q + 1 + (k - q - 1)
      BY <1>1, <1>2
    <3> QED
      BY <3>1
  <2>2. P * d \in Nat
    BY Product
  <2>3. P * k = P * q + P + P * d
    BY <1>1, <2>1
  <2> QED
    BY <1>1, <2>2, <2>3
<1>3. ASSUME q > k PROVE FALSE
  <2>1. PICK d \in Nat : q = k + 1 + d
    <3>1. q - k - 1 \in Nat /\ q = k + 1 + (q - k - 1)
      BY <1>1, <1>3
    <3> QED
      BY <3>1
  <2>2. P * d \in Nat
    BY Product
  <2>3. P * q = P * k + P + P * d
    BY <1>1, <2>1
  <2> QED
    BY <1>1, <2>2, <2>3
<1> QED
  BY <1>1, <1>2, <1>3 DEF q

(* The next time a cron expression is due is a multiple, and lies ahead.   *)
LEMMA NextIsAhead ==
  ASSUME NEW t \in Nat
  PROVE  /\ NextMultiple(t) \in Nat /\ NextMultiple(t) > t
         /\ \E k \in Nat : NextMultiple(t) = Period * k
<1>1. Period \in Nat \ {0}
  BY ScheduleAssumption
<1>2. t \div Period \in Nat /\ t < Period * (t \div Period) + Period
  BY <1>1, Division
<1> DEFINE q == t \div Period
<1>3. NextMultiple(t) = Period * (q + 1)
  BY DEF NextMultiple
<1> HIDE DEF q
<1>4. q \in Nat /\ t < Period * q + Period
  BY <1>2 DEF q
<1>5. q + 1 \in Nat /\ Period * (q + 1) = Period * q + Period /\ Period * (q + 1) \in Nat
  BY <1>1, <1>4, Product
<1> QED
  BY <1>3, <1>4, <1>5

(* The clock at a multiple of the period counts one more.                  *)
LEMMA OneMore ==
  ASSUME NEW t \in Nat, NEW k \in Nat, t + 1 = Period * k
  PROVE  (t + 1) \div Period = t \div Period + 1
<1>1. Period \in Nat \ {0}
  BY ScheduleAssumption
<1>2. k # 0
  BY <1>1
<1>3. k - 1 \in Nat /\ Period * (k - 1) = Period * k - Period
  BY <1>1, <1>2
<1>4. t \div Period = k - 1
  <2>1. Period * (k - 1) <= t /\ t < Period * (k - 1) + Period
    BY <1>1, <1>3
  <2> QED
    BY <1>1, <1>3, <2>1, Quotient
<1>5. (t + 1) \div Period = k
  <2>1. Period * k <= t + 1 /\ t + 1 < Period * k + Period /\ t + 1 \in Nat
    BY <1>1, <1>2
  <2> QED
    BY <1>1, <2>1, Quotient
<1> QED
  BY <1>4, <1>5

(* Otherwise it counts no less than before.                                *)
LEMMA NoLess ==
  ASSUME NEW t \in Nat
  PROVE  (t + 1) \div Period >= t \div Period
<1>1. Period \in Nat \ {0}
  BY ScheduleAssumption
<1> DEFINE q == t \div Period
<1>2. q \in Nat /\ Period * q <= t /\ t < Period * q + Period
  BY <1>1, Division
<1> HIDE DEF q
<1>3. CASE t + 1 < Period * q + Period
  <2>1. (t + 1) \div Period = q
    BY <1>1, <1>2, <1>3, Quotient
  <2> QED
    BY <1>2, <2>1 DEF q
<1>4. CASE t + 1 = Period * q + Period
  <2>1. q + 1 \in Nat /\ t + 1 = Period * (q + 1)
    BY <1>1, <1>2, <1>4
  <2>2. (t + 1) \div Period = q + 1
    BY <2>1, OneMore DEF q
  <2> QED
    BY <1>2, <2>2 DEF q
<1> QED
  BY <1>1, <1>2, <1>3, <1>4

(* The due times of a schedule are counted by a natural number, none of a  *)
(* cron schedule at its addition.                                          *)
LEMMA DueTimesType ==
  ASSUME TypeOK, NEW s \in Ids, added[s] # None
  PROVE  DueTimes(s) \in Int
<1>1. Period \in Nat \ {0} /\ now \in Nat /\ added[s].time \in Nat
  BY ScheduleAssumption DEF TypeOK, Times
<1>2. now \div Period \in Nat /\ added[s].time \div Period \in Nat
  BY <1>1, Division
<1> QED
  BY <1>2 DEF DueTimes

(* compute_next_fire gives a time or none.                                 *)
LEMMA NextFireType ==
  ASSUME TypeOK, NEW kind \in Kinds, NEW at \in Times
  PROVE  ComputeNextFire(kind, at, now) \in Nat \cup {None}
<1>1. now \in Nat /\ at \in Nat /\ kind \in {"cron", "oneshot", "delayed"}
  BY ScheduleAssumption DEF TypeOK, Times
<1>2. NextMultiple(now) \in Nat
  BY <1>1, NextIsAhead
<1> QED
  BY <1>1, <1>2 DEF ComputeNextFire

(* A save leaves well-typed files.                                         *)
LEMMA SaveType ==
  ASSUME TypeOK, entries' \in [Ids -> Entry \cup {None}], Save
  PROVE  /\ disk' \in [Ids -> Entry \cup {None}] /\ faults' \in Nat
         /\ disk' \in {disk, entries'}
BY DEF TypeOK, Save, Fault, NoFault

(* An entry is what the type says, or none.                                *)
LEMMA EntryFields ==
  ASSUME TypeOK, NEW s \in Ids, entries[s] # None
  PROVE  /\ entries[s] \in Entry
         /\ entries[s].kind \in Kinds /\ entries[s].at \in Times
BY DEF TypeOK, Entry

(* Every step keeps the types.                                             *)
LEMMA NextTypes == TypeOK /\ [Next]_vars => TypeOK'
<1> SUFFICES ASSUME TypeOK, [Next]_vars PROVE TypeOK'
  OBVIOUS
<1>0. now \in Nat /\ Times \subseteq Nat
  BY ScheduleAssumption DEF TypeOK, Times
<1>1. ASSUME NEW s \in Ids, NEW kind \in Kinds, NEW at \in Times, AddSchedule(s, kind, at)
      PROVE  TypeOK'
  <2> DEFINE next == IF kind = "delayed" THEN now + Delay ELSE ComputeNextFire(kind, at, now)
  <2>1. next \in Nat \cup {None}
    <3>1. now + Delay \in Nat
      BY <1>0, ScheduleAssumption
    <3> QED
      BY <3>1, NextFireType
  <2>2. /\ entries' = [entries EXCEPT ![s] = Scheduled(kind, at, next)] /\ Save
        /\ added' = [added EXCEPT ![s] = [kind |-> kind, time |-> now]]
        /\ late' \in {late, late \cup {s}}
        /\ UNCHANGED <<now, loop, up, runs, forgiven>>
    BY <1>1 DEF AddSchedule, LateWith
  <2> HIDE DEF next
  <2>3. Scheduled(kind, at, next) \in Entry
    BY <2>1 DEF Scheduled, Entry
  <2>4. entries' \in [Ids -> Entry \cup {None}]
    BY <2>2, <2>3 DEF TypeOK
  <2> QED
    BY <2>2, <2>4, SaveType DEF TypeOK
<1>2. ASSUME NEW s \in Ids, RemoveSchedule(s) \/ PauseSchedule(s) \/ Reject(s) PROVE TypeOK'
  <2>1. /\ Save /\ UNCHANGED <<now, up, history>>
        /\ loop' \in {loop, [loop EXCEPT !.due = @ \ {s}]}
    BY <1>2 DEF RemoveSchedule, PauseSchedule, Reject
  <2>2. entries' \in [Ids -> Entry \cup {None}]
    <3>1. CASE RemoveSchedule(s)
      BY <3>1 DEF RemoveSchedule, TypeOK
    <3>2. CASE PauseSchedule(s)
      <4>1. entries[s] \in Entry
        BY <3>2, EntryFields DEF PauseSchedule, Known
      <4>2. [entries[s] EXCEPT !.status = "Paused", !.next = None] \in Entry
        BY <4>1 DEF Entry
      <4>3. entries' = [entries EXCEPT ![s] = [entries[s] EXCEPT !.status = "Paused", !.next = None]]
        BY <3>2 DEF PauseSchedule, TypeOK
      <4> QED
        BY <4>2, <4>3 DEF TypeOK
    <3>3. CASE Reject(s)
      <4>1. CASE entries[s] = None
        BY <3>3, <4>1 DEF Reject, TypeOK
      <4>2. CASE entries[s] # None
        <5>1. [entries[s] EXCEPT !.status = "Rejected"] \in Entry
          BY <4>2, EntryFields DEF Entry
        <5>2. entries' = [entries EXCEPT ![s] = [entries[s] EXCEPT !.status = "Rejected"]]
          BY <3>3, <4>2 DEF Reject, TypeOK
        <5> QED
          BY <5>1, <5>2 DEF TypeOK
      <4> QED
        BY <4>1, <4>2
    <3> QED
      BY <1>2, <3>1, <3>2, <3>3
  <2>3. loop' \in [due : SUBSET Ids, fired : Ids \cup {None}]
    BY <2>1 DEF TypeOK
  <2> QED
    BY <2>1, <2>2, <2>3, SaveType DEF TypeOK, history
<1>3. ASSUME NEW s \in Ids, ResumeSchedule(s) PROVE TypeOK'
  <2> DEFINE next == ComputeNextFire(entries[s].kind, entries[s].at, now)
  <2>1. entries[s] \in Entry /\ entries[s].kind \in Kinds /\ entries[s].at \in Times
    BY <1>3, EntryFields DEF ResumeSchedule, Known
  <2>2. next \in Nat \cup {None}
    BY <2>1, NextFireType
  <2>3. /\ entries' = [entries EXCEPT ![s] = Scheduled(entries[s].kind, entries[s].at, next)]
        /\ Save /\ late' \in {late, late \cup {s}}
        /\ UNCHANGED <<now, loop, up, added, runs, forgiven>>
    BY <1>3 DEF ResumeSchedule, LateWith, TypeOK
  <2> HIDE DEF next
  <2>4. Scheduled(entries[s].kind, entries[s].at, next) \in Entry
    BY <2>1, <2>2 DEF Scheduled, Entry
  <2>5. entries' \in [Ids -> Entry \cup {None}]
    BY <2>3, <2>4 DEF TypeOK
  <2> QED
    BY <2>3, <2>5, SaveType DEF TypeOK
<1>4. CASE Tick
  BY <1>4 DEF Tick, Ready, TypeOK, history
<1>5. ASSUME NEW s \in Ids, Fire(s) \/ FireFails(s) PROVE TypeOK'
  BY <1>5 DEF Fire, FireFails, TakenUp, TypeOK, history
<1>6. CASE RecordFired
  <2>1. PICK s \in Ids : s = loop.fired
    BY <1>6 DEF RecordFired, TypeOK
  <2>2. CASE entries[s] = None
    BY <1>6, <2>1, <2>2 DEF RecordFired, TypeOK, history
  <2>3. CASE entries[s] # None
    <3>1. entries' = Fired(s) /\ Save
      BY <1>6, <2>1, <2>3 DEF RecordFired
    <3>2. NextMultiple(now) \in Nat /\ ComputeNextFire("cron", 0, now) = NextMultiple(now)
      BY <1>0, NextIsAhead DEF ComputeNextFire
    <3>3. entries[s] \in Entry
      BY <2>3, EntryFields
    <3>4. /\ [entries[s] EXCEPT !.next = NextMultiple(now)] \in Entry
          /\ [entries[s] EXCEPT !.status = "Completed", !.next = None] \in Entry
      BY <3>2, <3>3 DEF Entry
    <3>5. entries' \in {[entries EXCEPT ![s] = [entries[s] EXCEPT !.next = NextMultiple(now)]],
                        [entries EXCEPT ![s] = [entries[s] EXCEPT !.status = "Completed",
                                                                  !.next = None]]}
      BY <3>1, <3>2 DEF Fired, TypeOK
    <3>6. entries' \in [Ids -> Entry \cup {None}]
      BY <3>4, <3>5 DEF TypeOK
    <3> QED
      BY <1>6, <3>1, <3>6, SaveType DEF RecordFired, TypeOK, history
  <2> QED
    BY <2>2, <2>3
<1>7. CASE Dies
  <2>1. forgiven' \in [Ids -> Nat]
    <3>1. \A s \in Ids : forgiven[s] \in Nat /\ forgiven[s] + 1 \in Nat
      BY DEF TypeOK
    <3> QED
      BY <1>7, <3>1 DEF Dies
  <2>2. entries' \in [Ids -> Entry \cup {None}]
    BY <1>7 DEF Dies
  <2>3. loop' \in [due : SUBSET Ids, fired : Ids \cup {None}] /\ up' = FALSE
        /\ faults' \in Nat /\ UNCHANGED <<now, disk, added, runs, late>>
    BY <1>7 DEF Dies, Fault, TypeOK
  <2> QED
    BY <2>1, <2>2, <2>3 DEF TypeOK
<1>8. CASE Load
  <2>1. PICK gone \in SUBSET {s \in Ids : disk[s] # None /\ disk[s].status = "Active"} :
          /\ entries' = Rejected(disk, gone)
          /\ IF gone = {} THEN UNCHANGED <<disk, faults>> ELSE Save
    BY <1>8 DEF Load
  <2>2. \A s \in gone : [disk[s] EXCEPT !.status = "Rejected"] \in Entry
    BY <2>1 DEF TypeOK, Entry
  <2>3. entries' \in [Ids -> Entry \cup {None}]
    BY <2>1, <2>2 DEF Rejected, TypeOK
  <2>4. disk' \in [Ids -> Entry \cup {None}] /\ faults' \in Nat
    BY <2>1, <2>3, SaveType DEF TypeOK
  <2> QED
    BY <1>8, <2>3, <2>4 DEF Load, TypeOK, history
<1>9. CASE LoadFails
  BY <1>9 DEF LoadFails, Fault, TypeOK, history
<1>10. CASE Clock
  BY <1>0, <1>10, ScheduleAssumption DEF Clock, TypeOK, Times, history
<1>11. CASE UNCHANGED vars
  BY <1>11 DEF vars, history, TypeOK
<1> QED
  BY <1>1, <1>2, <1>3, <1>4, <1>5, <1>6, <1>7, <1>8, <1>9, <1>10, <1>11 DEF Next, Request

(* A step of the daemon that leaves schedule s alone, but for the file.    *)
LEMMA Kept ==
  ASSUME TypeOK, NEW s \in Ids, ScheduleInv(s),
         entries'[s] = entries[s], disk'[s] \in {disk[s], entries[s]},
         UNCHANGED now, up' = up, up \/ disk'[s] = disk[s],
         added'[s] = added[s], runs'[s] = runs[s], forgiven'[s] = forgiven[s],
         s \in late => s \in late', s \in loop'.due => s \in loop.due,
         s = loop'.fired <=> s = loop.fired, ~up => loop'.fired = loop.fired
  PROVE  ScheduleInv(s)'
<1>1. DueTimes(s)' = DueTimes(s)
  BY DEF DueTimes
<1>2. MayRun(s)' <=> MayRun(s)
  BY <1>1 DEF MayRun
<1>3. Taken(s)' => Taken(s)
  BY DEF Taken
<1>4. \A e : (Sound(s, e) => Sound(s, e)')
  BY <1>3 DEF Sound
<1>5. \A e : Announces(e)' <=> Announces(e)
  BY DEF Announces
<1>6. EntriesOf(s)'
  BY <1>2, <1>4, <1>5 DEF ScheduleInv, EntriesOf
<1>7. LoopOf(s)'
  BY <1>1, <1>2, <1>3 DEF ScheduleInv, LoopOf
<1>8. DownOf(s)'
  BY <1>2, <1>5 DEF ScheduleInv, DownOf
<1> QED
  BY <1>6, <1>7, <1>8 DEF ScheduleInv

(* A request, a rejection or a record for schedule s, with its save.       *)
LEMMA Changed ==
  ASSUME TypeOK, \A x \in Ids : ScheduleInv(x), NEW s \in Ids, up, up' = up,
         UNCHANGED <<now, added, runs, forgiven>>,
         \A x \in Ids : x # s => entries'[x] = entries[x],
         disk' \in {disk, entries'}, late \subseteq late',
         loop'.due \subseteq loop.due, loop'.fired \in {loop.fired, None},
         loop'.fired # loop.fired => loop.fired = s,
         Sound(s, entries[s])',
         entries'[s] # None => entries[s] # None /\ entries'[s].at = entries[s].at,
         s # loop'.fired /\ Announces(entries[s])' => MayRun(s)
  PROVE  \A x \in Ids : ScheduleInv(x)'
<1>1. ASSUME NEW x \in Ids, x # s PROVE ScheduleInv(x)'
  <2>1. disk'[x] \in {disk[x], entries[x]} /\ entries'[x] = entries[x]
    BY <1>1
  <2>2. x = loop'.fired <=> x = loop.fired
    BY <1>1, ScheduleAssumption
  <2>3. UNCHANGED now /\ added'[x] = added[x] /\ runs'[x] = runs[x] /\ forgiven'[x] = forgiven[x]
        /\ (x \in late => x \in late') /\ (x \in loop'.due => x \in loop.due)
    OBVIOUS
  <2> QED
    BY <2>1, <2>2, <2>3, Kept
<1>2. ScheduleInv(s)'
  <2>1. DueTimes(s)' = DueTimes(s)
    BY DEF DueTimes
  <2>2. MayRun(s)' <=> MayRun(s)
    BY <2>1 DEF MayRun
  <2>3. loop'.fired = s => loop.fired = s
    BY ScheduleAssumption
  <2>4. Taken(s)' => Taken(s)
    BY <2>3 DEF Taken
  <2>5. \A e : Sound(s, e) => Sound(s, e)'
    BY <2>4 DEF Sound
  <2>6. \A e : Announces(e)' <=> Announces(e)
    BY DEF Announces
  <2>7. EntriesOf(s) /\ LoopOf(s)
    BY DEF ScheduleInv
  <2>8. disk'[s] \in {disk[s], entries'[s]}
    OBVIOUS
  <2>9. EntriesOf(s)'
    BY <2>2, <2>5, <2>7, <2>8 DEF EntriesOf
  <2>10. LoopOf(s)'
    BY <2>1, <2>2, <2>3, <2>4, <2>7 DEF LoopOf
  <2> QED
    BY <2>9, <2>10 DEF ScheduleInv, DownOf
<1> QED
  BY <1>1, <1>2

(* Facts about a well-formed schedule that many steps use.                 *)
LEMMA Basics ==
  ASSUME TypeOK, NEW s \in Ids
  PROVE  /\ now \in Nat /\ runs[s] \in Nat /\ forgiven[s] \in Nat
         /\ added[s] # None => DueTimes(s) \in Int
         /\ entries[s] # None => entries[s] \in Entry
         /\ disk[s] # None => disk[s] \in Entry
BY DueTimesType, ScheduleAssumption DEF TypeOK, Times

(* AddSchedule.                                                            *)
LEMMA AddInv ==
  ASSUME TypeOK, \A x \in Ids : ScheduleInv(x), NEW s \in Ids, NEW kind \in Kinds,
         NEW at \in Times, AddSchedule(s, kind, at), TypeOK'
  PROVE  \A x \in Ids : ScheduleInv(x)'
<1> DEFINE next == IF kind = "delayed" THEN now + Delay ELSE ComputeNextFire(kind, at, now)
<1>1. /\ up /\ added[s] = None /\ up' = up
      /\ entries' = [entries EXCEPT ![s] = Scheduled(kind, at, next)] /\ Save
      /\ added' = [added EXCEPT ![s] = [kind |-> kind, time |-> now]]
      /\ late' = IF next = None THEN late \cup {s} ELSE late
      /\ UNCHANGED <<now, loop, up, runs, forgiven>>
  BY DEF AddSchedule, LateWith
<1>2. disk' \in {disk, entries'}
  BY <1>1 DEF Save
<1>3. ASSUME NEW x \in Ids, x # s PROVE ScheduleInv(x)'
  <2>1. entries'[x] = entries[x] /\ added'[x] = added[x] /\ disk'[x] \in {disk[x], entries[x]}
    BY <1>1, <1>2, <1>3 DEF TypeOK
  <2> QED
    BY <1>1, <2>1, Kept
<1>4. ScheduleInv(s)'
  <2>1. entries[s] = None /\ disk[s] = None /\ ~Taken(s) /\ runs[s] = 0
    BY <1>1, Basics DEF ScheduleInv, EntriesOf, LoopOf, Sound, Taken
  <2>2. /\ added'[s] = [kind |-> kind, time |-> now] /\ added'[s] # None
        /\ entries'[s] = Scheduled(kind, at, next)
        /\ disk'[s] \in {None, entries'[s]}
    BY <1>1, <1>2, <2>1, ScheduleAssumption DEF TypeOK
  <2>3. ~Taken(s)'
    BY <1>1, <2>1 DEF Taken
  <2>4. now \in Nat /\ now \div Period \in Nat /\ now + Delay \in Nat
    BY Basics, Division, ScheduleAssumption
  <2>5. kind = "cron" => next = NextMultiple(now)
    BY DEF ComputeNextFire
  <2>6. kind = "oneshot" => next \in {at, None}
    BY DEF ComputeNextFire
  <2>7. next = None => s \in late'
    BY <1>1
  <2> HIDE DEF next
  <2>8. PICK e : e = Scheduled(kind, at, next)
    OBVIOUS
  <2>9. /\ e.kind = kind /\ e.at = at /\ e.status = "Active" /\ e.next = next
    BY <2>8 DEF Scheduled
  <2>10. /\ runs'[s] = 0 /\ forgiven'[s] \in Nat
         /\ DueTimes(s)' \in {0, 1} /\ (kind # "cron" => DueTimes(s)' = 1)
    BY <1>1, <2>1, <2>2, <2>4, Basics DEF DueTimes
  <2>11. kind # "cron" => MayRun(s)'
    BY <2>10 DEF MayRun
  <2>12. kind = "cron" => next > now /\ \E k \in Nat : next = Period * k
    BY <2>4, <2>5, NextIsAhead
  <2>13. Sound(s, e)'
    BY <2>2, <2>3, <2>6, <2>7, <2>9, <2>12 DEF Sound
  <2>14. EntriesOf(s)'
    <3>1. entries'[s] = e /\ disk'[s] \in {None, e}
      BY <2>2, <2>8
    <3>2. Announces(e)' => kind # "cron"
      BY <1>1, <2>4, <2>5, <2>9, <2>12, NextIsAhead DEF Announces
    <3>3. Sound(s, None)'
      BY DEF Sound
    <3> QED
      BY <2>11, <2>13, <3>1, <3>2, <3>3 DEF EntriesOf
  <2>15. LoopOf(s)'
    BY <1>1, <2>1, <2>3, <2>10 DEF LoopOf, Taken
  <2> QED
    BY <1>1, <2>14, <2>15 DEF ScheduleInv, DownOf
<1> QED
  BY <1>3, <1>4

(* Removing, pausing, rejecting and recording announce no fire.            *)
LEMMA QuietInv ==
  ASSUME TypeOK, \A x \in Ids : ScheduleInv(x), NEW s \in Ids,
         RemoveSchedule(s) \/ PauseSchedule(s) \/ Reject(s)
  PROVE  \A x \in Ids : ScheduleInv(x)'
<1>1. /\ up /\ up' = up /\ Save /\ UNCHANGED <<now, added, runs, forgiven, late>>
      /\ loop'.due \subseteq loop.due /\ loop'.fired = loop.fired
  BY DEF RemoveSchedule, PauseSchedule, Reject, Known, TakenUp, history, TypeOK
<1>2. disk' \in {disk, entries'}
  BY <1>1 DEF Save
<1>3. \A x \in Ids : x # s => entries'[x] = entries[x]
  BY DEF RemoveSchedule, PauseSchedule, Reject, TypeOK
<1>4. \/ entries'[s] = None
      \/ entries[s] # None /\ entries'[s] = [entries[s] EXCEPT !.status = "Paused", !.next = None]
      \/ entries[s] # None /\ entries'[s] = [entries[s] EXCEPT !.status = "Rejected"]
  BY DEF RemoveSchedule, PauseSchedule, Reject, Known, TypeOK
<1>5. Sound(s, entries[s]) /\ (entries[s] # None => entries[s] \in Entry)
  BY Basics DEF ScheduleInv, EntriesOf
<1>6. Taken(s)' => Taken(s)
  BY <1>1 DEF Taken
<1>7. Sound(s, entries[s])'
  BY <1>1, <1>4, <1>5, <1>6 DEF Sound, Entry
<1>8. ~Announces(entries[s])'
  BY <1>4, <1>5 DEF Announces, Entry
<1>9. entries'[s] # None => entries[s] # None /\ entries'[s].at = entries[s].at
  BY <1>4, <1>5 DEF Entry
<1> QED
  BY <1>1, <1>2, <1>3, <1>7, <1>8, <1>9, Changed

(* Resuming announces a fire that no earlier one has taken.                *)
LEMMA ResumeInv ==
  ASSUME TypeOK, \A x \in Ids : ScheduleInv(x), NEW s \in Ids, ResumeSchedule(s)
  PROVE  \A x \in Ids : ScheduleInv(x)'
<1> DEFINE next == ComputeNextFire(entries[s].kind, entries[s].at, now)
<1>1. /\ up /\ up' = up /\ entries[s] # None
      /\ entries' = [entries EXCEPT ![s] = Scheduled(entries[s].kind, entries[s].at, next)]
      /\ Save /\ late' = IF next = None THEN late \cup {s} ELSE late
      /\ UNCHANGED <<now, loop, added, runs, forgiven>>
  BY DEF ResumeSchedule, Known, LateWith, TypeOK
<1>2. disk' \in {disk, entries'} /\ late \subseteq late' /\ (next = None => s \in late')
  BY <1>1 DEF Save
<1>3. \A x \in Ids : x # s => entries'[x] = entries[x]
  BY <1>1 DEF TypeOK
<1>4. entries'[s] = Scheduled(entries[s].kind, entries[s].at, next)
  BY <1>1 DEF TypeOK
<1>5. /\ Sound(s, entries[s]) /\ entries[s] \in Entry /\ now \in Nat
      /\ entries[s].at \in Times /\ runs[s] \in Nat /\ forgiven[s] \in Nat
  BY <1>1, Basics, EntryFields DEF ScheduleInv, EntriesOf
<1>6. /\ entries[s].kind = "cron" => next = NextMultiple(now)
      /\ entries[s].kind = "oneshot" =>
           next = None \/ (next = entries[s].at /\ entries[s].at > now)
      /\ entries[s].kind \notin {"cron", "oneshot"} => next = None
  BY DEF ComputeNextFire
<1> HIDE DEF next
<1>7. Taken(s)' <=> Taken(s)
  BY <1>1 DEF Taken
<1>8. Sound(s, entries[s])'
  <2> DEFINE e == entries[s]
  <2>1. e # None /\ Sound(s, e) /\ (next = None => s \in late')
    BY <1>1, <1>2, <1>5
  <2> HIDE DEF e
  <2>2. Sound(s, Scheduled(e.kind, e.at, next)) \/ next = None
    BY <1>5, <1>6, <2>1, NextIsAhead DEF Sound, Scheduled, e
  <2>3. \A d : d = Scheduled(e.kind, e.at, next) => Sound(s, d)'
    BY <1>1, <1>2, <1>7, <2>1, <2>2 DEF Sound, Scheduled
  <2> QED
    BY <1>4, <2>3 DEF e
<1>9. Announces(entries[s])' => MayRun(s)
  <2>1. Announces(Scheduled(entries[s].kind, entries[s].at, next)) =>
           entries[s].kind = "oneshot" /\ next = entries[s].at /\ entries[s].at > now
    BY <1>5, <1>6, NextIsAhead DEF Announces, Scheduled
  <2>2. ASSUME entries[s].kind = "oneshot", entries[s].at > now PROVE MayRun(s)
    <3>1. ~Taken(s) /\ added[s].kind = "oneshot"
      BY <1>1, <1>5, <2>2, ScheduleAssumption DEF Sound, Times
    <3>2. runs[s] = 0 /\ DueTimes(s) = 1
      BY <1>5, <3>1 DEF Taken, DueTimes
    <3> QED
      BY <1>5, <3>2 DEF MayRun
  <2>3. \A d : Announces(d)' <=> Announces(d)
    BY <1>1 DEF Announces
  <2> QED
    BY <1>4, <2>1, <2>2, <2>3
<1>10. entries'[s] # None => entries[s] # None /\ entries'[s].at = entries[s].at
  BY <1>1, <1>4 DEF Scheduled
<1> QED
  BY <1>1, <1>2, <1>3, <1>4, <1>8, <1>9, <1>10, Changed

(* The loop takes up what is announced and due.                            *)
LEMMA TickInv ==
  ASSUME TypeOK, \A x \in Ids : ScheduleInv(x), Tick, NEW s \in Ids
  PROVE  ScheduleInv(s)'
<1>1. /\ up /\ loop.due = {} /\ loop.fired = None
      /\ loop'.due = Ready /\ loop'.fired = None
      /\ UNCHANGED <<now, entries, disk, up, added, runs, forgiven, late>>
  BY DEF Tick, history, TypeOK
<1>2. /\ now \in Nat /\ EntriesOf(s) /\ LoopOf(s) /\ s # None
      /\ entries[s] # None => entries[s] \in Entry
  BY Basics, ScheduleAssumption DEF ScheduleInv
<1>3. s \in Ready => Announces(entries[s]) /\ entries[s].next <= now
  BY DEF Ready, Known, Announces
<1>4. s \in Ready => MayRun(s) /\ added[s] # None
  BY <1>1, <1>2, <1>3 DEF EntriesOf, Announces, Sound
<1>5. s \in Ready /\ added[s].kind = "oneshot" => entries[s].at <= now
  BY <1>2, <1>3 DEF EntriesOf, Announces, Sound
<1>6. Taken(s)' => Taken(s) \/ s \in Ready
  BY <1>1 DEF Taken
<1>7. ASSUME NEW e, Sound(s, e), e # None /\ s \in Ready => e.at = entries[s].at
      PROVE  Sound(s, e)'
  BY <1>1, <1>5, <1>6, <1>7 DEF Sound
<1>8. Sound(s, entries[s])' /\ Sound(s, disk[s])'
  <2>1. s \in Ready => entries[s] # None
    BY <1>3 DEF Announces
  <2>2. Sound(s, entries[s]) /\ Sound(s, disk[s])
    BY <1>2 DEF EntriesOf
  <2>3. disk[s] # None /\ s \in Ready => disk[s].at = entries[s].at
    BY <1>2, <2>1 DEF EntriesOf
  <2> QED
    BY <1>1, <1>7, <2>2, <2>3
<1>9. DueTimes(s)' = DueTimes(s) /\ (MayRun(s)' <=> MayRun(s))
  BY <1>1 DEF MayRun, DueTimes
<1>10. EntriesOf(s)'
  BY <1>1, <1>2, <1>8, <1>9 DEF EntriesOf, Announces
<1>11. LoopOf(s)'
  BY <1>1, <1>2, <1>4, <1>6, <1>9 DEF LoopOf
<1> QED
  BY <1>1, <1>10, <1>11 DEF ScheduleInv, DownOf

(* It runs what it has taken up, once.                                     *)
LEMMA FireInv ==
  ASSUME TypeOK, \A x \in Ids : ScheduleInv(x), NEW s \in Ids, Fire(s) \/ FireFails(s)
  PROVE  \A x \in Ids : ScheduleInv(x)'
<1>1. /\ up /\ up' = up /\ loop.fired = None /\ s \in loop.due
      /\ UNCHANGED <<now, entries, disk, added, forgiven, late>>
      /\ loop'.due = loop.due \ {s} /\ loop'.fired \in {None, s}
      /\ loop'.fired = None => runs' = runs
      /\ loop'.fired = s => runs' = [runs EXCEPT ![s] = @ + 1]
  BY ScheduleAssumption DEF Fire, FireFails, TakenUp, history, TypeOK
<1>2. ASSUME NEW x \in Ids, x # s \/ loop'.fired = None PROVE ScheduleInv(x)'
  <2>1. runs'[x] = runs[x] /\ (x = loop'.fired <=> x = loop.fired)
    BY <1>1, <1>2, ScheduleAssumption DEF TypeOK
  <2> QED
    BY <1>1, <2>1, Kept
<1>3. CASE loop'.fired = s
  <2>1. EntriesOf(s) /\ LoopOf(s) /\ MayRun(s) /\ Taken(s) /\ added[s] # None
    BY <1>1 DEF ScheduleInv, LoopOf, Taken
  <2>2. runs'[s] = runs[s] + 1 /\ DueTimes(s)' = DueTimes(s)
    BY <1>1, <1>3 DEF TypeOK, DueTimes
  <2>3. \A e : Sound(s, e) => Sound(s, e)'
    BY <1>1, <2>1 DEF Sound
  <2>4. EntriesOf(s)'
    BY <1>1, <1>3, <2>1, <2>3 DEF EntriesOf
  <2>5. LoopOf(s)'
    BY <1>1, <1>3, <2>1, <2>2 DEF LoopOf, MayRun
  <2>6. ScheduleInv(s)'
    BY <1>1, <2>4, <2>5 DEF ScheduleInv, DownOf
  <2> QED
    BY <1>2, <2>6
<1> QED
  BY <1>1, <1>2, <1>3

(* The record of a fire announces the next one of a cron schedule only     *)
(* after now.                                                              *)
LEMMA RecordInv ==
  ASSUME TypeOK, \A x \in Ids : ScheduleInv(x), RecordFired
  PROVE  \A x \in Ids : ScheduleInv(x)'
<1>1. PICK s \in Ids : s = loop.fired
  BY DEF RecordFired, TypeOK
<1>2. /\ UNCHANGED <<now, up, added, runs, forgiven, late>>
      /\ loop'.due = loop.due /\ loop'.fired = None
      /\ IF entries[s] = None THEN UNCHANGED <<entries, disk>>
         ELSE entries' = Fired(s) /\ Save
  BY <1>1 DEF RecordFired, history, TypeOK
<1>3. up
  BY <1>1, ScheduleAssumption DEF ScheduleInv, DownOf
<1>4. /\ disk' \in {disk, entries'} /\ now \in Nat /\ Sound(s, entries[s])
      /\ entries[s] # None => entries[s] \in Entry
  BY <1>2, Basics DEF Save, ScheduleInv, EntriesOf
<1>5. \A x \in Ids : x # s => entries'[x] = entries[x]
  BY <1>2 DEF Fired, TypeOK
<1>6. Taken(s)' => Taken(s)
  BY <1>2, ScheduleAssumption DEF Taken
<1>7. entries'[s] = IF entries[s] = None THEN None
                    ELSE IF entries[s].kind = "cron"
                    THEN [entries[s] EXCEPT !.next = NextMultiple(now)]
                    ELSE [entries[s] EXCEPT !.status = "Completed", !.next = None]
  BY <1>2 DEF Fired, ComputeNextFire, TypeOK
<1>8. Sound(s, entries[s])'
  <2>1. CASE entries[s] = None
    BY <1>7, <2>1 DEF Sound
  <2>2. CASE entries[s] # None /\ entries[s].kind = "cron"
    BY <1>2, <1>4, <1>6, <1>7, <2>2, NextIsAhead, ScheduleAssumption DEF Sound, Entry
  <2>3. CASE entries[s] # None /\ entries[s].kind # "cron"
    BY <1>2, <1>4, <1>6, <1>7, <2>3 DEF Sound, Entry
  <2> QED
    BY <2>1, <2>2, <2>3
<1>9. ~Announces(entries[s])'
  BY <1>2, <1>4, <1>7, NextIsAhead DEF Announces, Entry
<1>10. entries'[s] # None => entries[s] # None /\ entries'[s].at = entries[s].at
  BY <1>4, <1>7 DEF Entry
<1> QED
  BY <1>1, <1>2, <1>3, <1>4, <1>5, <1>8, <1>9, <1>10, Changed

(* A death forgives one fire of whatever the file does not know.           *)
LEMMA DiesInv ==
  ASSUME TypeOK, \A x \in Ids : ScheduleInv(x), Dies, NEW s \in Ids
  PROVE  ScheduleInv(s)'
<1>1. /\ up /\ up' = FALSE /\ entries'[s] = None
      /\ loop'.due = {} /\ loop'.fired = None
      /\ forgiven'[s] = IF s = loop.fired \/ entries[s] # disk[s]
                        THEN forgiven[s] + 1 ELSE forgiven[s]
      /\ UNCHANGED <<now, disk, added, runs, late>>
  BY DEF Dies
<1>2. /\ EntriesOf(s) /\ LoopOf(s) /\ s # None /\ forgiven[s] \in Nat /\ runs[s] \in Nat
      /\ added[s] # None => DueTimes(s) \in Int
  BY Basics, ScheduleAssumption DEF ScheduleInv
<1>3. DueTimes(s)' = DueTimes(s)
  BY <1>1 DEF DueTimes
<1>4. Taken(s)' => Taken(s)
  BY <1>1, <1>2 DEF Taken
<1>5. \A e : (Sound(s, e) => Sound(s, e)') /\ (Announces(e)' <=> Announces(e))
  BY <1>1, <1>4 DEF Sound, Announces
<1>6. Announces(disk[s]) => MayRun(s)'
  <2>1. CASE s = loop.fired \/ entries[s] # disk[s]
    BY <1>1, <1>2, <1>3, <2>1 DEF MayRun, LoopOf, EntriesOf, Sound, Announces
  <2>2. CASE s # loop.fired /\ entries[s] = disk[s]
    BY <1>1, <1>2, <1>3, <2>2 DEF MayRun, EntriesOf
  <2> QED
    BY <2>1, <2>2
<1>7. EntriesOf(s)'
  BY <1>1, <1>2, <1>5 DEF EntriesOf, Sound, Announces
<1>8. LoopOf(s)'
  BY <1>1, <1>2, <1>3, <1>4 DEF LoopOf
<1> QED
  BY <1>1, <1>5, <1>6, <1>7, <1>8 DEF ScheduleInv, DownOf

(* A start brings back what the file says, or nothing.                     *)
LEMMA LoadInv ==
  ASSUME TypeOK, \A x \in Ids : ScheduleInv(x), Load \/ LoadFails, NEW s \in Ids
  PROVE  ScheduleInv(s)'
<1>1. /\ ~up /\ up' = TRUE /\ UNCHANGED <<now, loop, added, runs, forgiven, late>>
      /\ \/ entries'[s] = disk[s]
         \/ entries'[s] = None
         \/ /\ disk[s] # None /\ disk[s].status = "Active"
            /\ entries'[s] = [disk[s] EXCEPT !.status = "Rejected"]
      /\ disk'[s] \in {disk[s], entries'[s]}
  <2>1. CASE Load
    <3>1. PICK gone \in SUBSET {x \in Ids : disk[x] # None /\ disk[x].status = "Active"} :
            /\ entries' = Rejected(disk, gone)
            /\ IF gone = {} THEN UNCHANGED <<disk, faults>> ELSE Save
      BY <2>1 DEF Load
    <3>2. entries'[s] = IF s \in gone THEN [disk[s] EXCEPT !.status = "Rejected"] ELSE disk[s]
      BY <3>1 DEF Rejected
    <3> QED
      BY <2>1, <3>1, <3>2 DEF Load, history, Save
  <2>2. CASE LoadFails
    BY <2>2 DEF LoadFails, history
  <2> QED
    BY <2>1, <2>2
<1>2. /\ EntriesOf(s) /\ LoopOf(s) /\ DownOf(s)
      /\ disk[s] # None => disk[s] \in Entry
  BY Basics DEF ScheduleInv
<1>3. DueTimes(s)' = DueTimes(s) /\ (MayRun(s)' <=> MayRun(s)) /\ (Taken(s)' <=> Taken(s))
  BY <1>1 DEF DueTimes, MayRun, Taken
<1>4. \A e : (Sound(s, e) => Sound(s, e)') /\ (Announces(e)' <=> Announces(e))
  BY <1>1, <1>3 DEF Sound, Announces
<1>5. Sound(s, disk[s]) /\ (disk[s] # None => Sound(s, [disk[s] EXCEPT !.status = "Rejected"]))
      /\ Sound(s, None)
  BY <1>2 DEF EntriesOf, Sound, Entry
<1>6. Sound(s, entries[s])' /\ Sound(s, disk[s])'
  <2>1. Sound(s, entries[s])'
    BY <1>1, <1>4, <1>5
  <2> QED
    BY <1>1, <1>4, <1>5, <2>1
<1>7. Announces(entries[s])' => MayRun(s)
  BY <1>1, <1>2, <1>4 DEF DownOf, Announces, Entry
<1>8. entries'[s] # None /\ disk'[s] # None => entries'[s].at = disk'[s].at
  BY <1>1, <1>2 DEF Entry
<1>9. EntriesOf(s)'
  BY <1>3, <1>6, <1>7, <1>8 DEF EntriesOf
<1>10. LoopOf(s)'
  BY <1>1, <1>2, <1>3 DEF LoopOf
<1> QED
  BY <1>1, <1>9, <1>10 DEF ScheduleInv, DownOf

(* When the clock reaches a time a cron expression is due, it is due once  *)
(* more.                                                                   *)
LEMMA ClockInv ==
  ASSUME TypeOK, \A x \in Ids : ScheduleInv(x), Clock, NEW s \in Ids
  PROVE  ScheduleInv(s)'
<1>1. /\ now' = now + 1
      /\ UNCHANGED <<entries, disk, loop, up, added, runs, forgiven, late>>
  BY DEF Clock, history
<1>2. /\ EntriesOf(s) /\ LoopOf(s) /\ DownOf(s)
      /\ now \in Nat /\ runs[s] \in Nat /\ forgiven[s] \in Nat
      /\ added[s] # None => DueTimes(s) \in Int
      /\ entries[s] # None => entries[s] \in Entry
      /\ disk[s] # None => disk[s] \in Entry
  BY Basics DEF ScheduleInv
<1>3. now \div Period \in Nat /\ (now + 1) \div Period \in Nat
      /\ (now + 1) \div Period >= now \div Period
  BY <1>2, Division, NoLess, ScheduleAssumption
<1>4. added[s] # None => added[s].time \div Period \in Nat
  BY Division, ScheduleAssumption DEF TypeOK, Times
<1>5. added[s] # None => DueTimes(s)' \in Int /\ DueTimes(s)' >= DueTimes(s)
  BY <1>1, <1>3, <1>4 DEF DueTimes
<1>6. Taken(s)' <=> Taken(s)
  BY <1>1 DEF Taken
<1>7. added[s] # None /\ MayRun(s) => MayRun(s)'
  BY <1>1, <1>2, <1>5 DEF MayRun
<1>8. ASSUME NEW e, e # None, e \in Entry, Sound(s, e), Announces(e)', ~Announces(e)
      PROVE  MayRun(s)'
  <2>1. e.kind = "cron" /\ e.next = now + 1 /\ added[s] # None /\ added[s].kind = "cron"
    BY <1>1, <1>2, <1>8 DEF Announces, Sound, Entry
  <2>2. PICK k \in Nat : now + 1 = Period * k
    <3>1. e.next \in Int /\ e.next # None
      BY <1>2, <2>1, ScheduleAssumption
    <3>2. \E k \in Nat : e.next = Period * k
      BY <1>8, <2>1, <3>1 DEF Sound
    <3> QED
      BY <2>1, <3>2
  <2>3. (now + 1) \div Period = now \div Period + 1
    BY <1>2, <2>2, OneMore
  <2>4. DueTimes(s)' = DueTimes(s) + 1
    BY <1>1, <1>3, <1>4, <2>1, <2>3 DEF DueTimes
  <2> QED
    BY <1>1, <1>2, <2>1, <2>4 DEF MayRun, LoopOf
<1>9. ASSUME NEW e, Sound(s, e), e # None => e \in Entry PROVE Sound(s, e)'
  BY <1>1, <1>2, <1>6, <1>9, ScheduleAssumption DEF Sound, Entry, Times
<1>10. \A e : Announces(e) /\ Sound(s, e) => added[s] # None
  BY DEF Announces, Sound
<1>11. EntriesOf(s)'
  <2>1. Sound(s, entries[s]) /\ Sound(s, disk[s])
    BY <1>2 DEF EntriesOf
  <2>2. Sound(s, entries[s])' /\ Sound(s, disk[s])'
    BY <1>1, <1>2, <1>9, <2>1
  <2>3. s # loop.fired /\ Announces(entries[s])' => MayRun(s)'
    <3>1. PICK e : e = entries[s]
      OBVIOUS
    <3>2. s # loop.fired /\ Announces(e)' => MayRun(s)'
      BY <1>2, <1>7, <1>8, <1>10, <2>1, <3>1 DEF EntriesOf, Announces
    <3> QED
      BY <1>1, <3>1, <3>2
  <2> QED
    BY <1>1, <1>2, <2>2, <2>3 DEF EntriesOf
<1>12. LoopOf(s)'
  BY <1>1, <1>2, <1>5, <1>6, <1>7 DEF LoopOf, Taken
<1>13. DownOf(s)'
  <2>1. Sound(s, disk[s])
    BY <1>2 DEF EntriesOf
  <2>2. PICK e : e = disk[s]
    OBVIOUS
  <2>3. ~up /\ Announces(e)' => MayRun(s)'
    BY <1>2, <1>7, <1>8, <1>10, <2>1, <2>2 DEF DownOf, Announces
  <2> QED
    BY <1>1, <1>2, <2>2, <2>3 DEF DownOf
<1> QED
  BY <1>11, <1>12, <1>13 DEF ScheduleInv

----------------------------------------------------------------------------
(* There is no schedule at the start.                                      *)
LEMMA InitIInv == Init => IInv
<1> SUFFICES ASSUME Init PROVE IInv
  OBVIOUS
<1>1. TypeOK
  BY ScheduleAssumption DEF Init, TypeOK, Times
<1>2. ASSUME NEW s \in Ids PROVE ScheduleInv(s)
  BY ScheduleAssumption
  DEF Init, ScheduleInv, EntriesOf, LoopOf, DownOf, Sound, Announces, Taken
<1> QED
  BY <1>1, <1>2 DEF IInv

(* Every step keeps the invariant.                                         *)
LEMMA NextIInv == IInv /\ [Next]_vars => IInv'
<1> SUFFICES ASSUME IInv, [Next]_vars PROVE IInv'
  OBVIOUS
<1>1. TypeOK /\ TypeOK' /\ \A s \in Ids : ScheduleInv(s)
  BY NextTypes DEF IInv
<1>2. CASE Next
  <2>1. \A s \in Ids : ScheduleInv(s)'
    BY <1>1, <1>2, AddInv, QuietInv, ResumeInv, TickInv, FireInv, RecordInv, DiesInv,
       LoadInv, ClockInv
    DEF Next, Request
  <2> QED
    BY <1>1, <2>1 DEF IInv
<1>3. CASE UNCHANGED vars
  <2>1. ASSUME NEW s \in Ids PROVE ScheduleInv(s)'
    BY <1>1, <1>3, Kept DEF vars, history
  <2> QED
    BY <1>1, <2>1 DEF IInv
<1> QED
  BY <1>2, <1>3

(* A schedule starts at most one run for each time it is due, however late *)
(* the loop is, whatever is paused, resumed and removed while it spawns,   *)
(* and however often a save fails and the daemon dies, but for one fire    *)
(* for each death that kept one from the file; and a one-shot that is      *)
(* Active and was not added or resumed too late has its fire ahead of it.  *)
THEOREM SchedulesRunOnce == Spec => []OneRunPerDueTime
<1>1. IInv => OneRunPerDueTime
  <2> SUFFICES ASSUME IInv PROVE OneRunPerDueTime
    OBVIOUS
  <2>1. \A s \in Ids : added[s] # None => runs[s] <= DueTimes(s) + forgiven[s]
    BY DEF IInv, ScheduleInv, LoopOf
  <2>2. ASSUME NEW s \in Ids \ late, Known(s), entries[s].status = "Active"
        PROVE  /\ entries[s].next # None
               /\ s # loop.fired /\ entries[s].kind # "cron" => runs[s] <= forgiven[s]
    <3>1. /\ Sound(s, entries[s]) /\ entries[s] # None
          /\ s # loop.fired /\ Announces(entries[s]) => MayRun(s)
      BY <2>2 DEF Known, IInv, ScheduleInv, EntriesOf
    <3>2. entries[s].next # None
      BY <2>2, <3>1 DEF Sound
    <3>3. ASSUME s # loop.fired, entries[s].kind # "cron" PROVE runs[s] <= forgiven[s]
      <4>1. MayRun(s) /\ DueTimes(s) = 1
        BY <2>2, <3>1, <3>2, <3>3 DEF Announces, Sound, DueTimes
      <4> QED
        BY <4>1, Basics DEF MayRun, IInv
    <3> QED
      BY <3>2, <3>3
  <2> QED
    BY <2>1, <2>2 DEF OneRunPerDueTime
<1> QED
  BY <1>1, InitIInv, NextIInv, PTL DEF Spec
=============================================================================
