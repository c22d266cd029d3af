-------------------------- MODULE PoliteHttp_proofs --------------------------
(***************************************************************************)
(* Proofs about PoliteHttp for any number of coroutines, hosts and         *)
(* resources and any delays: the types, the spacing of requests, and what  *)
(* a 304 can be about.                                                     *)
(***************************************************************************)
EXTENDS PoliteHttp, SequenceTheorems, TLAPS

\* Who sleeps in the turnstile holds the lock, and has slept enough when the
\* sleep is over.
PauseIsEnough ==
    \A c \in Call : call[c].at = "pause" =>
        /\ HasLock(c)
        /\ 10 * (since[HostAt(c)] + call[c].left) >= 7 * DelayFor[HostAt(c)]

\* A request leaves a host when _last_hit is set, and not otherwise.
ClocksAgree == quiet = since /\ \A h \in Host : since[h] <= DelayFor[h]

\* What a row vouches for was answered, at the URL of the row.
Earned(row, u, known) ==
    /\ row.content \in known \cup Garbled
    /\ UrlOf[row.content.of] = u

ValidatorsAreEarned ==
    /\ \A u \in Urls : cache[u] # None => Earned(cache[u], u, seen)
    /\ \A c \in Call : call[c] # Idle /\ call[c].given # None => Earned(call[c].given, UrlOf[call[c].of], seen)

HttpInv == TypeOK /\ PauseIsEnough /\ ClocksAgree /\ ValidatorsAreEarned

\* What is known of a coroutine inside _request.
LEMMA Inside ==
    ASSUME TypeOK, NEW c \in Call, call[c].at # "idle"
    PROVE  /\ call[c].of \in Resource /\ HostAt(c) \in Host /\ UrlOf[call[c].of] \in Urls
           /\ call[c].left \in Nat
           /\ call[c].attempt \in 0..MaxRetries - 1
           /\ call[c].given \in Validators \cup {None}
           /\ call[c].at \in {"turn", "pause", "sent", "backoff"}
           /\ call[c] # Idle
           /\ call[c] = [at |-> call[c].at, of |-> call[c].of, given |-> call[c].given,
                         attempt |-> call[c].attempt, left |-> call[c].left]
<1>1. call[c] \in CallState /\ call[c] # Idle
  BY DEF TypeOK, Idle
<1> QED
  BY <1>1, HttpAssumption DEF CallState, HostAt, Urls

\* A call that moves on is in a state of a call.
LEMMA MovedType ==
    ASSUME TypeOK, NEW c \in Call, call[c].at # "idle",
           NEW at \in {"turn", "pause", "sent", "backoff"}, NEW left \in Nat,
           NEW attempt \in 0..MaxRetries - 1
    PROVE  Moved(c, at, attempt, left) \in CallState
<1>1. call[c].of \in Resource /\ call[c].given \in Validators \cup {None}
  BY Inside
<1> QED
  BY <1>1 DEF CallState, Moved

LEMMA CurrentIsContent == ASSUME TypeOK, NEW r \in Resource PROVE Current(r) \in Content
  BY DEF TypeOK, Current, Content

---------------------------------------------------------------------------
(* A request leaves *)

LEMMA SendStep ==
    ASSUME HttpInv, NEW c \in Call, call[c].at \in {"turn", "pause"}, HasLock(c), Send(c)
    PROVE  HttpInv'
<1> DEFINE h == HostAt(c)
<1>1. h \in Host /\ call[c].attempt \in 0..MaxRetries - 1 /\ call[c].at # "idle"
  BY Inside DEF HttpInv
<1>2. /\ call' = [call EXCEPT ![c] = Moved(c, "sent", call[c].attempt, 0)]
      /\ line' = [line EXCEPT ![h] = Tail(line[h])]
      /\ since' = [since EXCEPT ![h] = 0]
      /\ quiet' = [quiet EXCEPT ![h] = 0]
      /\ UNCHANGED <<blocked, cache, version, seen>>
  BY DEF Send
<1>3. call'[c] = Moved(c, "sent", call[c].attempt, 0) /\ call'[c] \in CallState
  <2>1. call'[c] = Moved(c, "sent", call[c].attempt, 0)
    BY <1>2 DEF HttpInv, TypeOK
  <2> QED
    BY <1>1, <2>1, MovedType DEF HttpInv
<1>4. \A d \in Call : d # c => call'[d] = call[d]
  BY <1>2 DEF HttpInv, TypeOK
<1>5. TypeOK'
  <2>1. call' \in [Call -> CallState]
    BY <1>2, <1>3 DEF HttpInv, TypeOK
  <2>2. line' \in [Host -> Seq(Call)]
    <3>1. line[h] \in Seq(Call) /\ line[h] # <<>>
      BY <1>1 DEF HttpInv, TypeOK, HasLock
    <3>2. Tail(line[h]) \in Seq(Call)
      BY <3>1
    <3> QED
      BY <1>2, <3>2 DEF HttpInv, TypeOK
  <2>3. since' \in [Host -> Nat] /\ quiet' \in [Host -> Nat]
    BY <1>2 DEF HttpInv, TypeOK
  <2> QED
    BY <1>2, <2>1, <2>2, <2>3 DEF HttpInv, TypeOK
<1>6. PauseIsEnough'
  <2> SUFFICES ASSUME NEW d \in Call, call'[d].at = "pause"
               PROVE  /\ HasLock(d)'
                      /\ 10 * (since'[HostAt(d)'] + call'[d].left) >= 7 * DelayFor[HostAt(d)']
    BY DEF PauseIsEnough
  <2>1. d # c /\ call'[d] = call[d] /\ call[d].at = "pause" /\ HostAt(d)' = HostAt(d)
    BY <1>3, <1>4 DEF HostAt, Moved
  <2>2. HasLock(d) /\ 10 * (since[HostAt(d)] + call[d].left) >= 7 * DelayFor[HostAt(d)]
    BY <2>1 DEF HttpInv, PauseIsEnough
  <2>3. HostAt(d) # h /\ HostAt(d) \in Host
    BY <2>1, <2>2, Inside DEF HasLock, HttpInv
  <2>4. line'[HostAt(d)] = line[HostAt(d)] /\ since'[HostAt(d)] = since[HostAt(d)]
    BY <1>2, <2>3 DEF HttpInv, TypeOK
  <2> QED
    BY <2>1, <2>2, <2>4 DEF HasLock
<1>7. ClocksAgree'
  <2>1. quiet' = since'
    BY <1>2 DEF HttpInv, ClocksAgree
  <2>2. \A g \in Host : since'[g] = IF g = h THEN 0 ELSE since[g]
    BY <1>2 DEF HttpInv, TypeOK
  <2>3. \A g \in Host : DelayFor[g] \in Nat
    BY HttpAssumption
  <2> QED
    BY <2>1, <2>2, <2>3 DEF HttpInv, ClocksAgree
<1>8. ValidatorsAreEarned'
  <2>1. \A d \in Call : call'[d] # Idle => call[d] # Idle /\ call'[d].given = call[d].given /\ call'[d].of = call[d].of
    <3>1. call[c] # Idle /\ call'[c].given = call[c].given /\ call'[c].of = call[c].of
      <4>1. call[c] # Idle
        BY <1>1, Inside DEF HttpInv
      <4>2. Moved(c, "sent", call[c].attempt, 0).given = call[c].given /\ Moved(c, "sent", call[c].attempt, 0).of = call[c].of
        BY DEF Moved
      <4> QED
        BY <1>3, <4>1, <4>2
    <3> QED
      BY <1>4, <3>1
  <2> QED
    BY <1>2, <2>1 DEF HttpInv, ValidatorsAreEarned, Earned
<1> QED
  BY <1>5, <1>6, <1>7, <1>8 DEF HttpInv

---------------------------------------------------------------------------
(* The other steps *)

\* A step that moves one coroutine that is neither asleep in the turnstile
\* before it nor, unless it has the lock and sleeps enough, after it.
LEMMA MoveStep ==
    ASSUME HttpInv, NEW c \in Call, NEW new \in CallState,
           call' = [call EXCEPT ![c] = new], UNCHANGED <<since, quiet, version>>,
           blocked' \subseteq Host,
           \A g \in Host : line'[g] = line[g] \/ line'[g] = Append(line[g], c),
           line' \in [Host -> Seq(Call)],
           cache' \in [Urls -> Validators \cup {None}],
           seen' \subseteq Content, seen \subseteq seen',
           \A u \in Urls : cache'[u] # None => Earned(cache'[u], u, seen'),
           new # Idle /\ new.given # None => Earned(new.given, UrlOf[new.of], seen),
           new.at = "pause" => /\ HostOf[new.of] \in Host
                               /\ line' = line
                               /\ line[HostOf[new.of]] # <<>> /\ Head(line[HostOf[new.of]]) = c
                               /\ 10 * (since[HostOf[new.of]] + new.left) >= 7 * DelayFor[HostOf[new.of]]
    PROVE  HttpInv'
<1>1. call'[c] = new /\ \A d \in Call : d # c => call'[d] = call[d]
  BY DEF HttpInv, TypeOK
<1>2. TypeOK'
  BY <1>1 DEF HttpInv, TypeOK
<1>3. PauseIsEnough'
  <2> SUFFICES ASSUME NEW d \in Call, call'[d].at = "pause"
               PROVE  /\ HasLock(d)'
                      /\ 10 * (since'[HostAt(d)'] + call'[d].left) >= 7 * DelayFor[HostAt(d)']
    BY DEF PauseIsEnough
  <2>1. CASE d = c
    BY <1>1, <2>1 DEF HasLock, HostAt
  <2>2. CASE d # c
    <3>1. call'[d] = call[d] /\ HostAt(d)' = HostAt(d) /\ call[d].at = "pause"
      BY <1>1, <2>2 DEF HostAt
    <3>2. HasLock(d) /\ 10 * (since[HostAt(d)] + call[d].left) >= 7 * DelayFor[HostAt(d)]
      BY <3>1 DEF HttpInv, PauseIsEnough
    <3>3. HostAt(d) \in Host /\ line[HostAt(d)] \in Seq(Call)
      BY <3>1, Inside DEF HttpInv, TypeOK
    <3>4. line'[HostAt(d)] # <<>> /\ Head(line'[HostAt(d)]) = d
      <4>1. line[HostAt(d)] # <<>> /\ Head(line[HostAt(d)]) = d
        BY <3>2 DEF HasLock
      <4>2. Append(line[HostAt(d)], c) # <<>> /\ Head(Append(line[HostAt(d)], c)) = d
        BY <3>3, <4>1, HeadTailAppend, AppendProperties
      <4> QED
        BY <3>3, <4>1, <4>2
    <3> QED
      BY <3>1, <3>2, <3>4 DEF HasLock
  <2> QED
    BY <2>1, <2>2
<1>4. ClocksAgree'
  BY DEF HttpInv, ClocksAgree
<1>5. ValidatorsAreEarned'
  BY <1>1 DEF HttpInv, ValidatorsAreEarned, Earned
<1> QED
  BY <1>2, <1>3, <1>4, <1>5 DEF HttpInv

LEMMA DelaysAreNat == \A h \in Host : DelayFor[h] \in Nat
  BY HttpAssumption

LEMMA GetStep ==
    ASSUME HttpInv, NEW c \in Call, NEW r \in Resource, Get(c, r)
    PROVE  HttpInv'
<1> DEFINE new == [at |-> "turn", of |-> r, given |-> cache[UrlOf[r]], attempt |-> 0, left |-> 0]
<1>1. HostOf[r] \in Host /\ UrlOf[r] \in Urls
  BY HttpAssumption DEF Urls
<1>2. new.given \in Validators \cup {None} /\ (new.given # None => Earned(new.given, UrlOf[new.of], seen))
  BY <1>1 DEF HttpInv, TypeOK, ValidatorsAreEarned, Earned
<1>3. new \in CallState /\ new.at = "turn"
  BY <1>2, HttpAssumption DEF CallState
<1>4. /\ call' = [call EXCEPT ![c] = new]
      /\ line' = [line EXCEPT ![HostOf[r]] = Append(line[HostOf[r]], c)]
      /\ UNCHANGED <<since, blocked, cache, version, seen, quiet>>
  BY DEF Get
<1>5. line' \in [Host -> Seq(Call)]
  <2>1. Append(line[HostOf[r]], c) \in Seq(Call)
    BY <1>1, AppendProperties DEF HttpInv, TypeOK
  <2> QED
    BY <1>4, <2>1 DEF HttpInv, TypeOK
<1>6. \A g \in Host : line'[g] = line[g] \/ line'[g] = Append(line[g], c)
  BY <1>4 DEF HttpInv, TypeOK
<1> HIDE DEF new
<1> QED
  BY <1>2, <1>3, <1>4, <1>5, <1>6, MoveStep DEF HttpInv, TypeOK, ValidatorsAreEarned, Earned

LEMMA RetryStep ==
    ASSUME HttpInv, NEW c \in Call, Retry(c)
    PROVE  HttpInv'
<1> DEFINE new == Moved(c, "turn", call[c].attempt, 0)
           h == HostAt(c)
<1>1. call[c].at # "idle" /\ h \in Host
  BY Inside DEF HttpInv, Retry
<1>2. new \in CallState /\ new.at = "turn" /\ new.given = call[c].given /\ new.of = call[c].of
  BY <1>1, Inside, MovedType DEF HttpInv, Moved
<1>3. call' = [call EXCEPT ![c] = new]
  BY DEF Retry
<1>4. line' = [line EXCEPT ![h] = Append(line[h], c)] /\ UNCHANGED <<since, blocked, cache, version, seen, quiet>>
  BY DEF Retry
<1>5. line' \in [Host -> Seq(Call)]
  <2>1. Append(line[h], c) \in Seq(Call)
    BY <1>1, AppendProperties DEF HttpInv, TypeOK
  <2> QED
    BY <1>4, <2>1 DEF HttpInv, TypeOK
<1>6. \A g \in Host : line'[g] = line[g] \/ line'[g] = Append(line[g], c)
  BY <1>4 DEF HttpInv, TypeOK
<1>7. new.given # None => Earned(new.given, UrlOf[new.of], seen)
  BY <1>1, <1>2, Inside DEF HttpInv, ValidatorsAreEarned, Earned
<1> HIDE DEF new, h
<1> QED
  BY <1>2, <1>3, <1>4, <1>5, <1>6, <1>7, MoveStep DEF HttpInv, TypeOK, ValidatorsAreEarned, Earned

LEMMA JitterBound == \A wait \in Nat : \A s \in Jittered(wait) : s \in Nat /\ 10 * s >= 7 * wait
  BY DEF Jittered

LEMMA WaitTurnStep ==
    ASSUME HttpInv, NEW c \in Call, WaitTurn(c)
    PROVE  HttpInv'
<1> DEFINE h == HostAt(c)
           wait == DelayFor[h] - since[h]
<1>1. /\ call[c].at = "turn" /\ call[c].at # "idle" /\ HasLock(c)
      /\ h \in Host /\ call[c].attempt \in 0..MaxRetries - 1
  BY Inside DEF HttpInv, WaitTurn
<1>2. CASE wait > 0
  <2>1. PICK s \in Jittered(wait) : call' = [call EXCEPT ![c] = Moved(c, "pause", call[c].attempt, s)]
    BY <1>2 DEF WaitTurn
  <2>2. UNCHANGED <<line, since, blocked, cache, version, seen, quiet>>
    BY <1>2 DEF WaitTurn
  <2>3. since[h] \in Nat /\ DelayFor[h] \in Nat /\ wait \in Nat
    BY <1>1, <1>2, DelaysAreNat DEF HttpInv, TypeOK
  <2>4. s \in Nat /\ 10 * s >= 7 * wait
    BY <2>3, JitterBound
  <2> DEFINE new == Moved(c, "pause", call[c].attempt, s)
  <2>5. new \in CallState /\ new.given = call[c].given /\ new.of = call[c].of /\ new.left = s
    BY <1>1, <2>4, MovedType DEF HttpInv, Moved
  <2>6. call' = [call EXCEPT ![c] = new]
    BY <2>1
  <2>7. new.given # None => Earned(new.given, UrlOf[new.of], seen)
    BY <1>1, <2>5, Inside DEF HttpInv, ValidatorsAreEarned, Earned
  <2>8. 10 * (since[h] + new.left) >= 7 * DelayFor[h]
    BY <2>3, <2>4, <2>5
  <2>9. HostOf[new.of] = h /\ line[h] # <<>> /\ Head(line[h]) = c
    BY <1>1, <2>5 DEF HasLock, HostAt
  <2> HIDE DEF new, h
  <2> QED
    BY <1>1, <2>2, <2>5, <2>6, <2>7, <2>8, <2>9, MoveStep DEF HttpInv, TypeOK, ValidatorsAreEarned, Earned
<1>3. CASE ~(wait > 0)
  <2>1. Send(c)
    BY <1>3 DEF WaitTurn
  <2> QED
    BY <1>1, <2>1, SendStep
<1> QED
  BY <1>2, <1>3

LEMMA PassTurnStep ==
    ASSUME HttpInv, NEW c \in Call, PassTurn(c)
    PROVE  HttpInv'
  BY SendStep DEF PassTurn, HttpInv, PauseIsEnough

---------------------------------------------------------------------------
(* Replies.  None of them touches a lock or a clock. *)

\* A call that ends: its coroutine holds no validators.
LEMMA EndStep ==
    ASSUME HttpInv, NEW c \in Call, call' = [call EXCEPT ![c] = Idle],
           UNCHANGED <<line, since, version, quiet>>,
           blocked' \subseteq Host,
           cache' \in [Urls -> Validators \cup {None}],
           seen' \subseteq Content, seen \subseteq seen',
           \A u \in Urls : cache'[u] # None => Earned(cache'[u], u, seen')
    PROVE  HttpInv'
<1> DEFINE new == Idle
<1>1. new \in CallState /\ new.at # "pause"
  BY DEF CallState, Idle
<1>2. line' \in [Host -> Seq(Call)]
  BY DEF HttpInv, TypeOK
<1>3. new # Idle /\ new.given # None => Earned(new.given, UrlOf[new.of], seen)
  OBVIOUS
<1> HIDE DEF new
<1>4. call' = [call EXCEPT ![c] = new]
  BY DEF new
<1> QED
  BY <1>1, <1>2, <1>3, <1>4, MoveStep

LEMMA AnsweredStep ==
    ASSUME HttpInv, NEW c \in Call, Answered(c)
    PROVE  HttpInv'
<1> DEFINE now == Current(call[c].of)
           u == UrlOf[call[c].of]
<1>1. call[c].of \in Resource /\ u \in Urls
  BY Inside DEF HttpInv, Answered
<1>2. now \in Content /\ now.of = call[c].of
  BY <1>1, CurrentIsContent DEF HttpInv, Current
<1>3. PICK kinds \in Offers : cache' = Stored(call[c].of, kinds)
  BY DEF Answered
<1>4. /\ call' = [call EXCEPT ![c] = Idle]
      /\ seen' = seen \cup ({now} \ Garbled)
      /\ UNCHANGED <<line, since, blocked, version, quiet>>
  BY DEF Answered
<1> DEFINE row == [content |-> now, kinds |-> kinds]
<1>5. row \in Validators /\ row.content = now
  BY <1>2, HttpAssumption DEF Validators
<1>6. cache' = [cache EXCEPT ![u] = row] \/ cache' = cache
  BY <1>3 DEF Stored
<1>7. UrlOf[row.content.of] = u
  BY <1>2, <1>5
<1> HIDE DEF now, row, u
<1>8. cache' \in [Urls -> Validators \cup {None}]
  BY <1>5, <1>6 DEF HttpInv, TypeOK
<1>9. seen \subseteq seen' /\ seen' \subseteq Content
  BY <1>2, <1>4 DEF HttpInv, TypeOK
<1>10. \A v \in Urls : cache'[v] # None => Earned(cache'[v], v, seen')
  <2> SUFFICES ASSUME NEW v \in Urls, cache'[v] # None
               PROVE  cache'[v].content \in seen' \cup Garbled /\ UrlOf[cache'[v].content.of] = v
    BY DEF Earned
  <2>1. CASE cache'[v] = cache[v]
    BY <1>9, <2>1 DEF HttpInv, ValidatorsAreEarned, Earned
  <2>2. CASE cache'[v] # cache[v]
    <3>1. v = u /\ cache'[v] = row
      BY <1>1, <1>6, <2>2 DEF HttpInv, TypeOK
    <3> QED
      BY <1>4, <1>5, <1>7, <3>1
  <2> QED
    BY <2>1, <2>2
<1> QED
  BY <1>4, <1>8, <1>9, <1>10, EndStep DEF HttpInv, TypeOK

LEMMA BackoffIsNat == ASSUME NEW backoff, NEW s \in LongerUpTo(backoff) PROVE s \in Nat
  BY DEF LongerUpTo

LEMMA NextAttemptType ==
    ASSUME NEW n \in 0..MaxRetries - 1, ~LastAttempt(n)
    PROVE  NextAttempt(n) \in 0..MaxRetries - 1
  BY HttpAssumption DEF LastAttempt, NextAttempt

LEMMA OverloadedStep ==
    ASSUME HttpInv, NEW c \in Call, NEW after \in RetryAfter, Overloaded(c, after)
    PROVE  HttpInv'
<1>1. call[c].at # "idle" /\ call[c].attempt \in 0..MaxRetries - 1
  BY Inside DEF HttpInv, Overloaded
<1>2. UNCHANGED <<line, since, blocked, cache, version, seen, quiet>>
  BY DEF Overloaded, CacheAfterError
<1>3. CASE LastAttempt(call[c].attempt)
  <2>1. call' = [call EXCEPT ![c] = Idle]
    BY <1>3 DEF Overloaded
  <2> QED
    BY <1>2, <2>1, EndStep DEF HttpInv, TypeOK, ValidatorsAreEarned, Earned
<1>4. CASE ~LastAttempt(call[c].attempt)
  <2>1. PICK s \in LongerUpTo(BackoffFor(after, call[c].attempt)) :
            call' = [call EXCEPT ![c] = Moved(c, "backoff", NextAttempt(call[c].attempt), s)]
    BY <1>4 DEF Overloaded
  <2>2. s \in Nat
    BY BackoffIsNat
  <2> DEFINE new == Moved(c, "backoff", NextAttempt(call[c].attempt), s)
  <2>3. new \in CallState
    BY <1>1, <1>4, <2>2, NextAttemptType, MovedType DEF HttpInv
  <2>4. new.at = "backoff" /\ new.given = call[c].given /\ new.of = call[c].of
    BY DEF Moved
  <2>5. call' = [call EXCEPT ![c] = new]
    BY <2>1
  <2>6. new.given # None => Earned(new.given, UrlOf[new.of], seen)
    BY <1>1, <2>4, Inside DEF HttpInv, ValidatorsAreEarned, Earned
  <2> HIDE DEF new
  <2> QED
    BY <1>2, <2>3, <2>4, <2>5, <2>6, MoveStep DEF HttpInv, TypeOK, ValidatorsAreEarned, Earned
<1> QED
  BY <1>3, <1>4

LEMMA ReplyStep ==
    ASSUME HttpInv, NEW c \in Call, Reply(c)
    PROVE  HttpInv'
<1>1. CASE NotModified(c)
  BY <1>1, EndStep DEF NotModified, HttpInv, TypeOK, ValidatorsAreEarned, Earned
<1>2. CASE Answered(c)
  BY <1>2, AnsweredStep
<1>3. CASE Refused(c)
  <2>1. HostAt(c) \in Host
    BY <1>3, Inside DEF HttpInv, Refused
  <2> QED
    BY <1>3, <2>1, EndStep DEF Refused, HttpInv, TypeOK, ValidatorsAreEarned, Earned
<1>4. CASE Failed(c)
  BY <1>4, EndStep DEF Failed, CacheAfterError, HttpInv, TypeOK, ValidatorsAreEarned, Earned
<1>5. CASE \E after \in RetryAfter : Overloaded(c, after)
  BY <1>5, OverloadedStep
<1> QED
  BY <1>1, <1>2, <1>3, <1>4, <1>5 DEF Reply

---------------------------------------------------------------------------
(* Time *)

LEMMA TickStep == ASSUME HttpInv, Tick PROVE HttpInv'
<1> USE DEF HttpInv
<1>1. \A h \in Host : /\ since[h] \in Nat /\ DelayFor[h] \in Nat /\ since[h] <= DelayFor[h]
                     /\ since'[h] = IF since[h] < DelayFor[h] THEN since[h] + 1 ELSE since[h]
  BY DelaysAreNat DEF TypeOK, ClocksAgree, Tick, UpToDelay
<1>2. ClocksAgree'
  <2>1. quiet' = since'
    BY DEF ClocksAgree, Tick
  <2>2. \A h \in Host : since'[h] <= DelayFor[h]
    BY <1>1
  <2> QED
    BY <2>1, <2>2 DEF ClocksAgree
<1>3. \A c \in Call :
        \/ call'[c] = call[c] /\ (call[c].at = "pause" => call[c].left \in Nat /\ ~(call[c].left > 0))
        \/ /\ call[c].at \in {"pause", "backoff"} /\ call[c].left > 0
           /\ call'[c] = Moved(c, call[c].at, call[c].attempt, call[c].left - 1)
  <2> SUFFICES ASSUME NEW c \in Call
               PROVE \/ call'[c] = call[c] /\ (call[c].at = "pause" => call[c].left \in Nat /\ ~(call[c].left > 0))
                     \/ /\ call[c].at \in {"pause", "backoff"} /\ call[c].left > 0
                        /\ call'[c] = Moved(c, call[c].at, call[c].attempt, call[c].left - 1)
    OBVIOUS
  <2>1. call[c].at = "pause" => call[c].left \in Nat
    BY Inside
  <2>2. call'[c] = IF call[c].at \in {"pause", "backoff"} /\ call[c].left > 0
                   THEN Moved(c, call[c].at, call[c].attempt, call[c].left - 1) ELSE call[c]
    BY DEF Tick
  <2> QED
    BY <2>1, <2>2
<1>4. \A c \in Call : call'[c] \in CallState
  <2> SUFFICES ASSUME NEW c \in Call PROVE call'[c] \in CallState
    OBVIOUS
  <2>1. CASE call'[c] = call[c]
    BY <2>1 DEF TypeOK
  <2>2. CASE /\ call[c].at \in {"pause", "backoff"} /\ call[c].left > 0
             /\ call'[c] = Moved(c, call[c].at, call[c].attempt, call[c].left - 1)
    <3>1. call[c].at # "idle" /\ call[c].at \in {"turn", "pause", "sent", "backoff"}
      BY <2>2
    <3>2. call[c].left \in Nat /\ call[c].attempt \in 0..MaxRetries - 1
      BY <3>1, Inside
    <3>3. call[c].left - 1 \in Nat
      BY <2>2, <3>2
    <3> QED
      BY <2>2, <3>1, <3>2, <3>3, MovedType
  <2> QED
    BY <1>3, <2>1, <2>2
<1>5. TypeOK'
  <2>1. call' \in [Call -> CallState]
    BY <1>4 DEF Tick
  <2>2. since' \in [Host -> Nat] /\ quiet' \in [Host -> Nat]
    <3>1. since' = [h \in Host |-> IF since[h] < DelayFor[h] THEN since[h] + 1 ELSE since[h]] /\ quiet' = since'
      BY <1>2 DEF Tick, UpToDelay, ClocksAgree
    <3> QED
      BY <1>1, <3>1
  <2> QED
    BY <2>1, <2>2 DEF TypeOK, Tick
<1>6. PauseIsEnough'
  <2> SUFFICES ASSUME NEW c \in Call, call'[c].at = "pause"
               PROVE  /\ HasLock(c)'
                      /\ 10 * (since'[HostAt(c)'] + call'[c].left) >= 7 * DelayFor[HostAt(c)']
    BY DEF PauseIsEnough
  <2>1. call[c].at = "pause" /\ HostAt(c)' = HostAt(c)
    <3>1. CASE call'[c] = call[c]
      BY <3>1 DEF HostAt
    <3>2. CASE call'[c] = Moved(c, call[c].at, call[c].attempt, call[c].left - 1)
      <4>1. call'[c].at = call[c].at /\ call'[c].of = call[c].of
        BY <3>2 DEF Moved
      <4> QED
        BY <4>1 DEF HostAt
    <3> QED
      BY <1>3, <3>1, <3>2
  <2>2. /\ HasLock(c) /\ 10 * (since[HostAt(c)] + call[c].left) >= 7 * DelayFor[HostAt(c)]
        /\ HostAt(c) \in Host /\ call[c].left \in Nat
    BY <2>1, Inside DEF PauseIsEnough
  <2>3. HasLock(c)'
    BY <2>1, <2>2 DEF HasLock, Tick
  <2>4. CASE call'[c] = call[c] /\ ~(call[c].left > 0)
    <3> DEFINE h == HostAt(c)
    <3>1. since'[h] \in Nat /\ since[h] \in Nat /\ since'[h] >= since[h] /\ DelayFor[h] \in Nat
      BY <1>1, <2>2
    <3>2. 10 * (since'[h] + call[c].left) >= 7 * DelayFor[h]
      BY <2>2, <3>1
    <3> QED
      BY <2>1, <2>3, <2>4, <3>2
  <2>5. CASE call'[c] = Moved(c, call[c].at, call[c].attempt, call[c].left - 1)
    <3> DEFINE h == HostAt(c)
    <3>1. call'[c].left = call[c].left - 1 /\ call[c].left - 1 \in Int
      BY <2>2, <2>5 DEF Moved
    <3>2. /\ since[h] \in Nat /\ DelayFor[h] \in Nat
          /\ since'[h] = IF since[h] < DelayFor[h] THEN since[h] + 1 ELSE since[h]
          /\ since[h] <= DelayFor[h]
      BY <1>1, <2>2
    <3>3. call'[c].left >= 0
      <4>1. call[c].left > 0
        BY <1>3, <2>1, <2>2, <3>1
      <4> QED
        BY <2>2, <3>1, <4>1
    <3>4. 10 * (since'[h] + (call[c].left - 1)) >= 7 * DelayFor[h]
      BY <2>2, <3>1, <3>2, <3>3
    <3> QED
      BY <2>1, <2>3, <3>1, <3>4
  <2> QED
    BY <1>3, <2>1, <2>4, <2>5
<1>7. ValidatorsAreEarned'
  <2>1. ASSUME NEW c \in Call, call'[c] # Idle
        PROVE  call[c] # Idle /\ call'[c].given = call[c].given /\ call'[c].of = call[c].of
    <3>1. CASE call'[c] = call[c]
      BY <2>1, <3>1
    <3>2. CASE /\ call[c].at \in {"pause", "backoff"}
               /\ call'[c] = Moved(c, call[c].at, call[c].attempt, call[c].left - 1)
      <4>1. call[c] # Idle
        BY <3>2 DEF Idle
      <4>2. call'[c].given = call[c].given /\ call'[c].of = call[c].of
        BY <3>2 DEF Moved
      <4> QED
        BY <4>1, <4>2
    <3> QED
      BY <1>3, <3>1, <3>2
  <2> QED
    BY <2>1 DEF ValidatorsAreEarned, Earned, Tick
<1> QED
  BY <1>2, <1>5, <1>6, <1>7

LEMMA EditStep == ASSUME HttpInv, NEW r \in Resource, Edit(r) PROVE HttpInv'
<1>1. version' \in [Resource -> Nat]
  BY DEF HttpInv, TypeOK, Edit
<1>2. UNCHANGED <<call, line, since, blocked, cache, seen, quiet>>
  BY DEF Edit
<1> QED
  BY <1>1, <1>2 DEF HttpInv, TypeOK, PauseIsEnough, ClocksAgree, ValidatorsAreEarned, Earned, HasLock, HostAt

---------------------------------------------------------------------------
(* The invariant and the theorems *)

LEMMA InitInv == Init => HttpInv
<1> SUFFICES ASSUME Init PROVE HttpInv
  OBVIOUS
<1> USE DEF Init
<1>1. TypeOK
  <2>1. call \in [Call -> CallState]
    BY DEF CallState
  <2>2. line \in [Host -> Seq(Call)]
    BY EmptySeq
  <2> QED
    BY <2>1, <2>2, HttpAssumption DEF TypeOK
<1>2. PauseIsEnough /\ ValidatorsAreEarned
  BY DEF PauseIsEnough, ValidatorsAreEarned, Earned, Idle
<1>3. ClocksAgree
  BY HttpAssumption DEF ClocksAgree
<1> QED
  BY <1>1, <1>2, <1>3 DEF HttpInv

LEMMA NextInv == HttpInv /\ [Next]_vars => HttpInv'
<1> SUFFICES ASSUME HttpInv, [Next]_vars PROVE HttpInv'
  OBVIOUS
<1>1. CASE \E c \in Call, r \in Resource : Get(c, r)
  BY <1>1, GetStep
<1>2. CASE \E c \in Call : WaitTurn(c) \/ PassTurn(c) \/ Retry(c) \/ Reply(c)
  BY <1>2, WaitTurnStep, PassTurnStep, RetryStep, ReplyStep
<1>3. CASE \E r \in Resource : Edit(r)
  BY <1>3, EditStep
<1>4. CASE Tick
  BY <1>4, TickStep
<1>5. CASE UNCHANGED vars
  BY <1>5 DEF vars, HttpInv, TypeOK, PauseIsEnough, ClocksAgree, ValidatorsAreEarned, Earned, HasLock, HostAt
<1> QED
  BY <1>1, <1>2, <1>3, <1>4, <1>5 DEF Next

LEMMA Invariance == Spec => []HttpInv
  BY InitInv, NextInv, PTL DEF Spec

\* The session keeps its types whatever the servers do (http.py:106-182): in
\* particular no call makes more than MAX_RETRIES attempts.
THEOREM TypeCorrect == Spec => []TypeOK
<1>1. HttpInv => TypeOK
  BY DEF HttpInv
<1> QED
  BY <1>1, Invariance, PTL

\* What a 304 can be about (http.py:105-135, 165-182), for any way of sharing
\* rows of http_cache, any dates and any validators the servers send: the very
\* content, received before, or, by a date alone, other content of that URL.
THEOREM NotModifiedIsSeen == Spec => []NotModifiedMeansSeen
<1>1. HttpInv => NotModifiedMeansSeen
  <2> SUFFICES ASSUME HttpInv, NEW c \in Call, call[c].at = "sent", Unmodified(c)
               PROVE  LET now == Current(call[c].of)
                      IN  \/ now \in seen \cup Garbled
                          \/ /\ "ETag" \notin call[c].given.kinds
                             /\ \E other \in seen \cup Garbled :
                                    UrlOf[other.of] = UrlOf[now.of] /\ Modified(now) <= Modified(other)
    BY DEF NotModifiedMeansSeen
  <2> DEFINE given == call[c].given
             now == Current(call[c].of)
  <2>1. call[c] # Idle /\ given # None
    BY DEF Idle, Unmodified
  <2>2. given.content \in seen \cup Garbled /\ UrlOf[given.content.of] = UrlOf[call[c].of]
    BY <2>1 DEF HttpInv, ValidatorsAreEarned, Earned
  <2>3. now.of = call[c].of
    BY DEF Current
  <2>4. CASE "ETag" \in given.kinds
    BY <2>2, <2>4 DEF Unmodified
  <2>5. CASE "ETag" \notin given.kinds
    <3>1. Modified(now) <= Modified(given.content)
      BY <2>5 DEF Unmodified
    <3> QED
      BY <2>2, <2>3, <2>5, <3>1
  <2> QED
    BY <2>4, <2>5
<1> QED
  BY <1>1, Invariance, PTL

LEMMA SendIsSpaced ==
    ASSUME HttpInv, NEW c \in Call, WaitTurn(c) \/ PassTurn(c), call'[c].at = "sent", call[c].at # "sent"
    PROVE  10 * quiet[HostAt(c)] >= 7 * DelayFor[HostAt(c)]
<1> DEFINE h == HostAt(c)
<1>1. call[c].at # "idle" /\ h \in Host
  BY Inside DEF HttpInv, WaitTurn, PassTurn
<1>2. quiet[h] = since[h] /\ since[h] \in Nat /\ DelayFor[h] \in Nat
  BY <1>1, DelaysAreNat DEF HttpInv, ClocksAgree, TypeOK
<1>3. CASE WaitTurn(c)
  <2>1. ~(DelayFor[h] - since[h] > 0)
    <3> SUFFICES ASSUME DelayFor[h] - since[h] > 0 PROVE FALSE
      OBVIOUS
    <3>1. PICK s \in Jittered(DelayFor[h] - since[h]) : call' = [call EXCEPT ![c] = Moved(c, "pause", call[c].attempt, s)]
      BY <1>3 DEF WaitTurn
    <3>2. call'[c] = Moved(c, "pause", call[c].attempt, s)
      BY <3>1 DEF HttpInv, TypeOK
    <3> QED
      BY <3>2 DEF Moved
  <2> QED
    BY <1>2, <2>1
<1>4. CASE PassTurn(c)
  <2>1. 10 * (since[h] + call[c].left) >= 7 * DelayFor[h] /\ call[c].left = 0
    BY <1>4 DEF HttpInv, PauseIsEnough, PassTurn
  <2> QED
    BY <1>2, <2>1
<1> QED
  BY <1>3, <1>4

\* The turnstile (http.py:90-103) keeps requests to a host apart for any
\* number of coroutines, hosts and delays.
THEOREM RequestsKeepApart == Spec => RequestsAreSpaced
<1> DEFINE A == \A c \in Call : call'[c].at = "sent" /\ call[c].at # "sent" =>
                    10 * quiet[HostAt(c)] >= 7 * DelayFor[HostAt(c)]
<1>1. HttpInv /\ [Next]_vars => [A]_vars
  <2> SUFFICES ASSUME HttpInv, Next, NEW c \in Call, call'[c].at = "sent", call[c].at # "sent"
               PROVE  10 * quiet[HostAt(c)] >= 7 * DelayFor[HostAt(c)]
    OBVIOUS
  <2>1. \A d \in Call : \A new : call' = [call EXCEPT ![d] = new] => call'[c] = IF c = d THEN new ELSE call[c]
    BY DEF HttpInv, TypeOK
  <2>2. CASE \E d \in Call, r \in Resource : Get(d, r)
    BY <2>1, <2>2 DEF Get
  <2>3. CASE \E d \in Call : WaitTurn(d) \/ PassTurn(d)
    <3>1. PICK d \in Call : WaitTurn(d) \/ PassTurn(d)
      BY <2>3
    <3>2. d = c
      BY <2>1, <3>1 DEF WaitTurn, PassTurn, Send
    <3> QED
      BY <3>1, <3>2, SendIsSpaced
  <2>4. CASE \E d \in Call : Retry(d)
    BY <2>1, <2>4 DEF Retry, Moved
  <2>5. CASE \E d \in Call : Reply(d)
    <3>1. PICK d \in Call : Reply(d)
      BY <2>5
    <3>2. call' = [call EXCEPT ![d] = Idle] \/ \E n, s : call' = [call EXCEPT ![d] = Moved(d, "backoff", n, s)]
      BY <3>1 DEF Reply, NotModified, Answered, Refused, Failed, Overloaded
    <3> QED
      BY <2>1, <3>2 DEF Moved, Idle
  <2>6. CASE \E r \in Resource : Edit(r)
    BY <2>6 DEF Edit
  <2>7. CASE Tick
    BY <2>7 DEF Tick, Moved
  <2> QED
    BY <2>2, <2>3, <2>4, <2>5, <2>6, <2>7 DEF Next
<1> QED
  BY <1>1, Invariance, PTL DEF Spec, RequestsAreSpaced
=============================================================================
