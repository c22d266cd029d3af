--------------------------- MODULE CronRuns_proofs ---------------------------
(***************************************************************************)
(* Overlapping discover runs, for every number of instances and sources    *)
(* and every interval, budget and ceiling.                                 *)
(***************************************************************************)
EXTENDS CronRuns, TLAPS

\* What an active run has claimed it holds, the earlier sources first; what is
\* held was claimed by an active run.
LocksHeld ==
    /\ \A r \in Run : Active(r) =>
        \A s \in Source \ toClaim[r] :
            lock[s] = r /\ \A t \in toClaim[r] : Rank[s] < Rank[t]
    /\ \A r \in Run : \A s \in Source : lock[s] = r => Active(r) /\ s \notin toClaim[r]
    /\ \A r \in Run : pc[r] = "working" => toClaim[r] = {}
    /\ \A r \in Run : pc[r] = "off" => toClaim[r] = Source

\* What a run found due stays due until it commits.
StillDue ==
    \A r \in Run : Active(r) =>
        \A s \in Source \ toClaim[r] :
            fate[r][s] # "skipped" => claimedAt[s] = 0 \/ claimedAt[s] + Interval[s] < start[r]

\* The versions a run received are the ones it answers for.
GotMatchesFate ==
    \A r \in Run : \A s \in Source :
        /\ got[r][s] # 0 <=> fate[r][s] \in {"replied", "kept", "dropped", "lost"}
        /\ s \in toClaim[r] => got[r][s] = 0

IInv == TypeOK /\ LocksHeld /\ StillDue /\ GotMatchesFate /\ ValidatorsMatchRows

LEMMA InitEstablishesIInv == Init => IInv
BY CronAssumption
   DEF Init, IInv, TypeOK, LocksHeld, StillDue, GotMatchesFate, ValidatorsMatchRows, Active,
       RunState, SourceFate, Outcome

LEMMA SettleType ==
    ASSUME fate \in [Run -> [Source -> SourceFate]], NEW r \in Run, NEW s \in Source,
           NEW what \in SourceFate, Settle(r, s, what)
    PROVE  fate' \in [Run -> [Source -> SourceFate]]
BY DEF Settle

LEMMA TypeStep ==
    ASSUME TypeOK, LocksHeld, [Next]_vars
    PROVE  TypeOK'
<1> USE DEF TypeOK, Active, runs, db, asked
<1>1. CASE Tick
  BY <1>1 DEF Tick
<1>2. ASSUME NEW s \in Source, Publish(s) PROVE TypeOK'
  BY <1>2 DEF Publish
<1>3. ASSUME NEW r \in Run, Deliver(r) PROVE TypeOK'
  <2>1. pc' \in [Run -> RunState] /\ \A q \in Run : Active(q) => Active(q)'
    BY <1>3 DEF Deliver, RunState
  <2>2. QED
    BY <1>3, <2>1 DEF Deliver
<1>4. ASSUME NEW r \in Run, NEW s \in Source, Claim(r, s) PROVE TypeOK'
  <2>1. fate' \in [Run -> [Source -> SourceFate]]
    BY <1>4, SettleType DEF Claim, SourceFate
  <2>2. QED
    BY <1>4, <2>1 DEF Claim, LockRow
<1>5. ASSUME NEW r \in Run, NEW s \in Source, Request(r, s) \/ RequestFails(r, s) PROVE TypeOK'
  <2>1. visited' \in [Source -> Nat] /\ rushed' \in SUBSET Source
    <3>1. Visit(s) /\ now \in Nat /\ visited \in [Source -> Nat] /\ rushed \in SUBSET Source
      BY <1>5 DEF Request, RequestFails
    <3> HIDE DEF TypeOK
    <3>2. QED
      BY <3>1 DEF Visit
  <2>2. fate' \in [Run -> [Source -> SourceFate]]
    BY <1>5, SettleType DEF Request, RequestFails, SourceFate
  <2>3. got' \in [Run -> [Source -> Nat]]
    <3>1. /\ got' = got \/ got' = [got EXCEPT ![r][s] = published[s]]
          /\ published[s] \in Nat /\ got \in [Run -> [Source -> Nat]]
      BY <1>5 DEF Request, RequestFails
    <3> HIDE DEF TypeOK
    <3>2. QED
      BY <3>1
  <2>4. QED
    BY <1>5, <2>1, <2>2, <2>3 DEF Request, RequestFails
<1>6. ASSUME NEW r \in Run, NEW s \in Source, Store(r, s) \/ Drop(r, s) \/ Lose(r, s) PROVE TypeOK'
  <2>1. fate' \in [Run -> [Source -> SourceFate]]
    BY <1>6, SettleType DEF Store, Drop, Lose, SourceFate
  <2>2. QED
    BY <1>6, <2>1 DEF Store, Drop, Lose
<1>7. ASSUME NEW r \in Run, BeginWork(r) PROVE TypeOK'
  <2>1. pc' \in [Run -> RunState] /\ \A q \in Run : Active(q) => Active(q)'
    BY <1>7 DEF BeginWork, RunState
  <2>2. QED
    BY <1>7, <2>1 DEF BeginWork
<1>8. ASSUME NEW r \in Run, Commit(r) \/ Kill(r) PROVE TypeOK'
  <2>1. /\ pc' = [pc EXCEPT ![r] = "off"]
        /\ start' = [start EXCEPT ![r] = 0]
        /\ toClaim' = [toClaim EXCEPT ![r] = Source]
        /\ fate' = [fate EXCEPT ![r] = [s \in Source |-> "untouched"]]
        /\ got' = [got EXCEPT ![r] = [s \in Source |-> 0]]
        /\ lock' = [s \in Source |-> IF lock[s] = r THEN NoRun ELSE lock[s]]
        /\ UNCHANGED <<now, published, visited, rushed>>
    BY <1>8 DEF Commit, Kill, EndRun, Unlock
  <2>2. /\ claimedAt' \in [Source -> Nat]
        /\ etag' \in [Source -> Nat]
        /\ stored' \in [Source -> Nat]
        /\ outcome' \in [Source -> Outcome]
    <3>1. CASE Kill(r)
      BY <3>1 DEF Kill, RollBack
    <3>2. CASE Commit(r)
      BY <3>2 DEF Commit, Written, Outcome
    <3>3. QED
      BY <1>8, <3>1, <3>2
  <2>3. /\ pc' \in [Run -> RunState]
        /\ start' \in [Run -> Nat]
        /\ toClaim' \in [Run -> SUBSET Source]
        /\ got' \in [Run -> [Source -> Nat]]
    BY <2>1 DEF RunState
  <2>4. fate' \in [Run -> [Source -> SourceFate]]
    BY <2>1 DEF SourceFate
  <2>5. /\ lock' \in [Source -> Run \cup {NoRun}]
        /\ (\A s \in Source : lock[s] # NoRun => Active(lock[s]))'
    BY <2>1
  <2>6. QED
    BY <2>1, <2>2, <2>3, <2>4, <2>5
<1>9. CASE UNCHANGED vars
  BY <1>9 DEF vars
<1>10. QED
  BY <1>1, <1>2, <1>3, <1>4, <1>5, <1>6, <1>7, <1>8, <1>9 DEF Next, Proceed

LEMMA LocksStep ==
    ASSUME TypeOK, LocksHeld, [Next]_vars
    PROVE  LocksHeld'
<1> USE DEF TypeOK, LocksHeld, Active, runs, db
<1>1. CASE Tick \/ UNCHANGED vars
  BY <1>1 DEF Tick, vars
<1>2. ASSUME NEW s \in Source, Publish(s) PROVE LocksHeld'
  BY <1>2 DEF Publish
<1>3. ASSUME NEW r \in Run, Deliver(r) PROVE LocksHeld'
  BY <1>3 DEF Deliver
<1>4. ASSUME NEW r \in Run, NEW s \in Source, Claim(r, s) PROVE LocksHeld'
  <2>1. /\ s \in toClaim[r] /\ \A t \in toClaim[r] : Rank[s] <= Rank[t]
        /\ lock' = [lock EXCEPT ![s] = r] /\ lock[s] = NoRun
        /\ toClaim' = [toClaim EXCEPT ![r] = toClaim[r] \ {s}]
        /\ pc' = pc /\ pc[r] = "claiming"
    BY <1>4 DEF Claim, LockRow, NextToClaim
  <2>2. \A t \in toClaim[r] \ {s} : Rank[s] < Rank[t]
    <3>1. SUFFICES ASSUME NEW t \in toClaim[r] \ {s} PROVE Rank[s] < Rank[t]
      OBVIOUS
    <3>2. t \in Source /\ Rank[s] <= Rank[t] /\ t # s
      BY <2>1
    <3> HIDE DEF TypeOK, LocksHeld
    <3>3. QED
      BY <3>2, CronAssumption
  <2>3. QED
    BY <2>1, <2>2, CronAssumption
<1>5. ASSUME NEW r \in Run, NEW s \in Source,
             Request(r, s) \/ RequestFails(r, s) \/ Store(r, s) \/ Drop(r, s) \/ Lose(r, s)
      PROVE  LocksHeld'
  BY <1>5 DEF Request, RequestFails, Store, Drop, Lose
<1>6. ASSUME NEW r \in Run, BeginWork(r) PROVE LocksHeld'
  BY <1>6 DEF BeginWork
<1>7. ASSUME NEW r \in Run, Commit(r) \/ Kill(r) PROVE LocksHeld'
  <2>1. /\ pc' = [pc EXCEPT ![r] = "off"]
        /\ toClaim' = [toClaim EXCEPT ![r] = Source]
        /\ lock' = [s \in Source |-> IF lock[s] = r THEN NoRun ELSE lock[s]]
    BY <1>7 DEF Commit, Kill, EndRun, Unlock
  <2>2. QED
    BY <2>1, CronAssumption
<1>8. QED
  BY <1>1, <1>2, <1>3, <1>4, <1>5, <1>6, <1>7 DEF Next, Proceed

\* While a run works, every row is its own; so a run that commits finds the
\* others without a claim.
LEMMA WorkerHoldsAll ==
    ASSUME TypeOK, LocksHeld, NEW r \in Run, NEW q \in Run, pc[r] = "working", q # r, Active(q)
    PROVE  toClaim[q] = Source
<1>1. \A s \in Source : lock[s] = r
  BY DEF LocksHeld, Active
<1>2. \A s \in Source \ toClaim[q] : lock[s] = q
  BY DEF LocksHeld
<1>3. toClaim[q] \subseteq Source
  BY DEF TypeOK
<1>4. QED
  BY <1>1, <1>2, <1>3

LEMMA StillDueStep ==
    ASSUME TypeOK, LocksHeld, StillDue, [Next]_vars
    PROVE  StillDue'
<1> USE DEF TypeOK, StillDue, Active, runs, db
<1>1. CASE Tick \/ UNCHANGED vars
  BY <1>1 DEF Tick, vars
<1>2. ASSUME NEW s \in Source, Publish(s) PROVE StillDue'
  BY <1>2 DEF Publish
<1>3. ASSUME NEW r \in Run, Deliver(r) PROVE StillDue'
  BY <1>3 DEF Deliver, LocksHeld
<1>4. ASSUME NEW r \in Run, NEW s \in Source, Claim(r, s) PROVE StillDue'
  <2>1. /\ toClaim' = [toClaim EXCEPT ![r] = toClaim[r] \ {s}]
        /\ fate' = [fate EXCEPT ![r][s] = IF IsDue(r, s) THEN "due" ELSE "skipped"]
        /\ UNCHANGED <<pc, start, claimedAt>>
        /\ pc[r] = "claiming"
    BY <1>4 DEF Claim, Settle
  <2>2. SUFFICES ASSUME NEW q \in Run, Active(q)', NEW t \in Source \ toClaim'[q],
                        fate'[q][t] # "skipped"
                 PROVE  claimedAt[t] = 0 \/ claimedAt[t] + Interval[t] < start[q]
    BY <2>1
  <2>3. CASE q = r /\ t = s
    BY <2>1, <2>2, <2>3 DEF IsDue
  <2>4. CASE ~(q = r /\ t = s)
    <3>1. t \notin toClaim[q] /\ fate'[q][t] = fate[q][t] /\ Active(q)
      BY <2>1, <2>2, <2>4
    <3>2. QED
      BY <2>2, <3>1
  <2>5. QED
    BY <2>3, <2>4
<1>5. ASSUME NEW r \in Run, NEW s \in Source, NEW what,
             fate[r][s] # "skipped",
             Settle(r, s, what), UNCHANGED <<pc, start, toClaim, claimedAt>>
      PROVE  StillDue'
  <2>1. fate' = [fate EXCEPT ![r][s] = what]
    BY <1>5 DEF Settle
  <2>2. \A q \in Run : \A t \in Source : fate'[q][t] # "skipped" => fate[q][t] # "skipped"
    BY <1>5, <2>1
  <2>3. QED
    BY <1>5, <2>2
<1>6. ASSUME NEW r \in Run, NEW s \in Source,
             Request(r, s) \/ RequestFails(r, s) \/ Store(r, s) \/ Drop(r, s) \/ Lose(r, s)
      PROVE  StillDue'
  BY <1>5, <1>6 DEF Request, RequestFails, Store, Drop, Lose
<1>7. ASSUME NEW r \in Run, BeginWork(r) PROVE StillDue'
  BY <1>7 DEF BeginWork
<1>8. ASSUME NEW r \in Run, Commit(r) \/ Kill(r) PROVE StillDue'
  <2>1. /\ pc' = [pc EXCEPT ![r] = "off"]
        /\ start' = [start EXCEPT ![r] = 0]
        /\ toClaim' = [toClaim EXCEPT ![r] = Source]
        /\ fate' = [fate EXCEPT ![r] = [s \in Source |-> "untouched"]]
    BY <1>8 DEF Commit, Kill, EndRun
  <2>2. ASSUME NEW q \in Run, Active(q)'
        PROVE  /\ q # r /\ Active(q) /\ start'[q] = start[q]
               /\ toClaim'[q] = toClaim[q] /\ fate'[q] = fate[q]
    BY <2>1, <2>2
  <2>3. CASE Kill(r)
    BY <2>2, <2>3 DEF Kill, RollBack
  <2>4. CASE Commit(r)
    <3>1. \A q \in Run : Active(q)' => toClaim'[q] = Source
      BY <2>2, <2>4, WorkerHoldsAll DEF Commit
    <3>2. QED
      BY <3>1
  <2>5. QED
    BY <1>8, <2>3, <2>4
<1>9. QED
  BY <1>1, <1>2, <1>3, <1>4, <1>6, <1>7, <1>8 DEF Next, Proceed

LEMMA GotStep ==
    ASSUME TypeOK, LocksHeld, GotMatchesFate, [Next]_vars
    PROVE  GotMatchesFate'
<1> USE DEF TypeOK, GotMatchesFate, runs, db
<1>1. CASE Tick \/ UNCHANGED vars
  BY <1>1 DEF Tick, vars
<1>2. ASSUME NEW s \in Source, Publish(s) PROVE GotMatchesFate'
  BY <1>2 DEF Publish
<1>3. ASSUME NEW r \in Run, Deliver(r) \/ BeginWork(r) PROVE GotMatchesFate'
  BY <1>3 DEF Deliver, BeginWork
<1>4. ASSUME NEW r \in Run, NEW s \in Source,
             Claim(r, s) \/ Request(r, s) \/ RequestFails(r, s) \/ Store(r, s) \/ Drop(r, s) \/ Lose(r, s)
      PROVE  GotMatchesFate'
  <2>1. PICK what : fate' = [fate EXCEPT ![r][s] = what]
    BY <1>4 DEF Claim, Request, RequestFails, Store, Drop, Lose, Settle
  <2>2. \A q \in Run : \A t \in Source : q # r \/ t # s => fate'[q][t] = fate[q][t]
    BY <2>1
  <2>3. /\ \A q \in Run : \A t \in Source : q # r \/ t # s => got'[q][t] = got[q][t]
        /\ fate'[r][s] = what
    BY <1>4, <2>1 DEF Claim, Request, RequestFails, Store, Drop, Lose
  <2>4. /\ got'[r][s] # 0 <=> fate'[r][s] \in {"replied", "kept", "dropped", "lost"}
        /\ s \in toClaim'[r] => got'[r][s] = 0
    <3>1. CASE Claim(r, s)
      <4>1. got'[r][s] = 0
        BY <3>1 DEF Claim, NextToClaim
      <4>2. fate'[r][s] \in {"due", "skipped"}
        BY <3>1 DEF Claim, Settle
      <4>3. QED
        BY <4>1, <4>2
    <3>2. CASE Request(r, s) \/ RequestFails(r, s)
      <4>1. got[r][s] = 0 /\ s \notin toClaim'[r]
        BY <3>2 DEF Request, RequestFails, LocksHeld
      <4>2. \/ got' = got /\ fate' = [fate EXCEPT ![r][s] = "unchanged"]
            \/ got' = got /\ fate' = [fate EXCEPT ![r][s] = "failed"]
            \/ /\ fate' = [fate EXCEPT ![r][s] = "replied"]
               /\ got' = [got EXCEPT ![r][s] = published[s]]
        BY <3>2 DEF Request, RequestFails, Settle
      <4>3. published[s] # 0
        OBVIOUS
      <4>4. QED
        BY <4>1, <4>2, <4>3
    <3>3. CASE Store(r, s) \/ Drop(r, s) \/ Lose(r, s)
      <4>1. got'[r][s] # 0 /\ s \notin toClaim'[r]
        BY <3>3 DEF Store, Drop, Lose, LocksHeld
      <4>2. fate'[r][s] \in {"kept", "dropped", "lost"}
        BY <3>3 DEF Store, Drop, Lose, Settle
      <4>3. QED
        BY <4>1, <4>2
    <3>4. QED
      BY <1>4, <3>1, <3>2, <3>3
  <2>5. \A q \in Run : toClaim'[q] \subseteq toClaim[q]
    <3>1. toClaim' = toClaim \/ toClaim' = [toClaim EXCEPT ![r] = toClaim[r] \ {s}]
      BY <1>4 DEF Claim, Request, RequestFails, Store, Drop, Lose
    <3>2. toClaim \in [Run -> SUBSET Source]
      OBVIOUS
    <3> HIDE DEF TypeOK, GotMatchesFate
    <3>3. QED
      BY <3>1, <3>2
  <2>6. SUFFICES ASSUME NEW q \in Run, NEW t \in Source
                 PROVE  /\ got'[q][t] # 0 <=> fate'[q][t] \in {"replied", "kept", "dropped", "lost"}
                        /\ t \in toClaim'[q] => got'[q][t] = 0
    BY DEF GotMatchesFate
  <2>7. CASE q = r /\ t = s
    BY <2>4, <2>7
  <2>8. CASE q # r \/ t # s
    <3>1. got'[q][t] = got[q][t] /\ fate'[q][t] = fate[q][t]
      BY <2>2, <2>3, <2>8
    <3>2. /\ got[q][t] # 0 <=> fate[q][t] \in {"replied", "kept", "dropped", "lost"}
          /\ t \in toClaim[q] => got[q][t] = 0
      BY DEF GotMatchesFate
    <3>3. t \in toClaim'[q] => t \in toClaim[q]
      BY <2>5
    <3> HIDE DEF TypeOK, GotMatchesFate
    <3>4. QED
      BY <3>1, <3>2, <3>3
  <2>9. QED
    BY <2>7, <2>8
<1>5. ASSUME NEW r \in Run, Commit(r) \/ Kill(r) PROVE GotMatchesFate'
  <2>1. /\ got' = [got EXCEPT ![r] = [s \in Source |-> 0]]
        /\ fate' = [fate EXCEPT ![r] = [s \in Source |-> "untouched"]]
        /\ toClaim' = [toClaim EXCEPT ![r] = Source]
    BY <1>5 DEF Commit, Kill, EndRun
  <2>2. QED
    BY <2>1
<1>6. QED
  BY <1>1, <1>2, <1>3, <1>4, <1>5 DEF Next, Proceed

LEMMA ValidatorsStep ==
    ASSUME TypeOK, LocksHeld, GotMatchesFate, ValidatorsMatchRows, [Next]_vars
    PROVE  ValidatorsMatchRows'
<1>1. CASE \E r \in Run : Commit(r)
  <2> PICK r \in Run : Commit(r)
    BY <1>1
  <2>1. SUFFICES ASSUME NEW s \in Source, etag'[s] # stored'[s] PROVE outcome'[s] \in {"dropped", "lost"}
    BY DEF ValidatorsMatchRows
  <2>2. /\ etag'[s] = IF got[r][s] # 0 THEN got[r][s] ELSE etag[s]
        /\ stored'[s] = IF fate[r][s] = "kept" THEN got[r][s] ELSE stored[s]
        /\ outcome'[s] = IF fate[r][s] \in Outcome THEN fate[r][s] ELSE outcome[s]
        /\ fate[r][s] # "replied"
    BY DEF Commit, Written, Did
  <2>3. got[r][s] # 0 <=> fate[r][s] \in Outcome
    BY <2>2 DEF GotMatchesFate, Outcome
  <2>4. CASE fate[r][s] \in Outcome
    BY <2>1, <2>2, <2>3, <2>4 DEF Outcome
  <2>5. CASE fate[r][s] \notin Outcome
    BY <2>1, <2>2, <2>3, <2>5 DEF ValidatorsMatchRows, Outcome
  <2>6. QED
    BY <2>4, <2>5
<1>2. CASE UNCHANGED db
  BY <1>2 DEF ValidatorsMatchRows, db
<1>3. QED
  BY <1>1, <1>2 DEF Next, Proceed, Tick, Publish, Deliver, Claim, Request, RequestFails, Store,
     Drop, Lose, BeginWork, Kill, RollBack, vars

LEMMA StepKeepsIInv == IInv /\ [Next]_vars => IInv'
BY TypeStep, LocksStep, StillDueStep, GotStep, ValidatorsStep DEF IInv

LEMMA CronInvariant == Spec => []IInv
BY InitEstablishesIInv, StepKeepsIInv, PTL DEF Spec

\* Runs never work at the same time, so the jobs table has one writer.
THEOREM OneRunAtATime ==
    ASSUME NEW s \in Source
    PROVE  Spec => []RunsAreSerialised
<1>1. IInv => RunsAreSerialised
  <2>1. SUFFICES ASSUME IInv, NEW r \in Run, NEW q \in Run,
                        pc[r] = "working", pc[q] = "working"
                 PROVE  r = q
    BY DEF RunsAreSerialised
  <2>2. lock[s] = r /\ lock[s] = q
    BY <2>1 DEF IInv, LocksHeld, Active
  <2>3. QED
    BY <2>2
<1>2. QED
  BY <1>1, CronInvariant, PTL

\* Claiming in one order never deadlocks.
THEOREM NoWaitingCycle == Spec => []ClaimsNeverDeadlock
<1>1. IInv => ClaimsNeverDeadlock
  <2>1. SUFFICES ASSUME IInv, NEW r \in Run, NEW q \in Run, Waits(r, q),
                        NEW s \in Source, lock[s] = r
                 PROVE  FALSE
    BY DEF ClaimsNeverDeadlock
  <2>2. PICK t \in NextToClaim(r) : lock[t] = q
    BY <2>1 DEF Waits
  <2>3. t \in Source /\ t \in toClaim[r]
    BY <2>1, <2>2 DEF NextToClaim, IInv, TypeOK
  <2>4. Active(r) /\ s \notin toClaim[r] /\ Rank[s] < Rank[t]
    BY <2>1, <2>3 DEF IInv, LocksHeld
  <2>5. Active(q) /\ t \notin toClaim[q]
    BY <2>1, <2>2, <2>3 DEF IInv, LocksHeld
  <2>6. q # r
    BY <2>3, <2>5
  <2>7. CASE s \in toClaim[q]
    <3>1. Rank[t] < Rank[s]
      BY <2>1, <2>3, <2>5, <2>7 DEF IInv, LocksHeld
    <3>2. Rank[s] \in Nat /\ Rank[t] \in Nat
      BY <2>3, CronAssumption
    <3>3. QED
      BY <2>4, <3>1, <3>2
  <2>8. CASE s \notin toClaim[q]
    BY <2>1, <2>5, <2>6, <2>8 DEF IInv, LocksHeld
  <2>9. QED
    BY <2>7, <2>8
<1>2. QED
  BY <1>1, CronInvariant, PTL

\* Committed claims of a source are more than its interval apart.
THEOREM ClaimsKeepTheirInterval == Spec => ClaimsAreSpaced
<1>1. IInv /\ [Next]_vars =>
        [\A s \in Source : claimedAt[s] \notin {0, claimedAt'[s]}
                          => claimedAt'[s] > claimedAt[s] + Interval[s]]_vars
  <2>1. SUFFICES ASSUME IInv, [Next]_vars, NEW s \in Source,
                        claimedAt[s] # 0, claimedAt'[s] # claimedAt[s]
                 PROVE  claimedAt'[s] > claimedAt[s] + Interval[s]
    OBVIOUS
  <2>2. PICK r \in Run : Commit(r)
    BY <2>1 DEF Next, Proceed, Tick, Publish, Deliver, Claim, Request, RequestFails, Store, Drop, Lose,
       BeginWork, Kill, RollBack, vars, db
  <2>3. pc[r] = "working" /\ fate[r][s] # "skipped" /\ claimedAt'[s] = start[r]
    BY <2>1, <2>2 DEF Commit
  <2>4. claimedAt[s] + Interval[s] < start[r]
    BY <2>1, <2>3 DEF IInv, LocksHeld, StillDue, Active
  <2>5. claimedAt[s] \in Nat /\ Interval[s] \in Nat /\ start[r] \in Nat
    BY <2>1, CronAssumption DEF IInv, TypeOK
  <2>6. QED
    BY <2>3, <2>4, <2>5
<1>2. QED
  BY <1>1, CronInvariant, PTL DEF Spec, ClaimsAreSpaced

\* Whatever is killed or fails, a board's rows fall behind its validators only
\* by a reply that was dropped or lost (http.py:180-182, run_discover.py:104-130).
THEOREM ValidatorsKeepUp == Spec => []ValidatorsMatchRows
<1>1. IInv => ValidatorsMatchRows
  BY DEF IInv
<1>2. QED
  BY <1>1, CronInvariant, PTL

\* Type correctness: in particular no lock outlives the run that took it.
THEOREM TypesHold == Spec => []TypeOK
<1>1. IInv => TypeOK
  BY DEF IInv
<1>2. QED
  BY <1>1, CronInvariant, PTL
=============================================================================
