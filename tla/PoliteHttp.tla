----------------------------- MODULE PoliteHttp -----------------------------
(***************************************************************************)
(* PoliteSession (pipeline/http.py): the per-host turnstile with its       *)
(* jittered delay, conditional requests, backoff and the stop on a 403,    *)
(* for coroutines that share one session.                                  *)
(*                                                                         *)
(* A coroutine runs to its next await without interruption.  A sleep ends  *)
(* no earlier than it was asked to, and maybe later.  The servers may edit *)
(* a resource, refuse, fail or be overloaded at any request.               *)
(***************************************************************************)
EXTENDS Integers, Sequences

CONSTANTS Call,             \* coroutines that use the session
          Host,
          Resource,         \* what a URL and its parameters name
          UrlOf,            \* http_cache's key: the URL without parameters
          HostOf,           \* the host of each resource
          DelayFor,         \* delay_for each host, in ticks
          DefaultDelay,
          RetryAfter,       \* the Retry-After a server may send; 0 for none
          MaxRetryAfter,    \* MAX_RETRY_AFTER
          MaxRetries,       \* MAX_RETRIES
          MaxVersion,       \* bound on the edits of each resource
          ModifiedAt,       \* the Last-Modified of each version of each resource
          Offers,           \* the sets of validators an answer may carry
          Garbled,          \* the versions whose body is not JSON
          None

ASSUME HttpAssumption ==
    /\ HostOf \in [Resource -> Host]
    /\ DOMAIN UrlOf = Resource
    /\ DelayFor \in [Host -> Nat]
    /\ DefaultDelay \in Nat
    /\ RetryAfter \subseteq Nat
    /\ MaxRetryAfter \in Nat
    /\ MaxRetries \in Nat \ {0}
    /\ MaxVersion \in [Resource -> Nat]
    /\ Offers \subseteq SUBSET {"ETag", "Last-Modified"}

VARIABLES call,         \* where each coroutine is in _request
          line,         \* each host's lock: its holder, then who waits, FIFO
          since,        \* time since _last_hit, up to the delay
          blocked,      \* blocked_hosts
          cache,        \* the row http_cache has for each URL
          version,      \* what each resource holds now
          seen,         \* the versions given to a caller in full (auxiliary)
          quiet         \* time since a request left for a host, up to the delay (auxiliary)

vars == <<call, line, since, blocked, cache, version, seen, quiet>>

Content == [of : Resource, version : Nat]
Urls == {UrlOf[r] : r \in Resource}

\* A row: the content its validators came with, and which of the two there were.
Validators == [content : Content, kinds : SUBSET {"ETag", "Last-Modified"}]

Idle == [at |-> "idle"]
CallState == {Idle} \cup
    [at : {"turn", "pause", "sent", "backoff"}, of : Resource, given : Validators \cup {None},
     attempt : 0..MaxRetries - 1, left : Nat]

TypeOK ==
    /\ call \in [Call -> CallState]
    /\ line \in [Host -> Seq(Call)]
    /\ since \in [Host -> Nat]
    /\ blocked \subseteq Host
    /\ cache \in [Urls -> Validators \cup {None}]
    /\ version \in [Resource -> Nat]
    /\ seen \subseteq Content
    /\ quiet \in [Host -> Nat]

\* No request yet: _last_hit is minus infinity.
Init ==
    /\ call = [c \in Call |-> Idle]
    /\ line = [h \in Host |-> <<>>]
    /\ since = DelayFor
    /\ blocked = {}
    /\ cache = [u \in Urls |-> None]
    /\ version = [r \in Resource |-> 0]
    /\ seen = {}
    /\ quiet = DelayFor

---------------------------------------------------------------------------
(* Sleeps.  A jitter of three tenths is a range of whole ticks.             *)

\* wait * (1 + uniform(-JITTER, JITTER))
Jittered(wait) == {s \in 0 .. 2 * wait : 7 * wait <= 10 * s /\ 10 * s <= 13 * wait}

\* _backoff_for: the server's word up to a maximum, or the delay doubled at
\* every attempt.
BackoffFor(after, attempt) ==
    IF after > 0
    THEN IF after < MaxRetryAfter THEN after ELSE MaxRetryAfter
    ELSE 2 ^ attempt * DefaultDelay

\* backoff * (1 + uniform(0, JITTER))
LongerUpTo(backoff) == {s \in 0 .. 2 * backoff : backoff <= s /\ 10 * s <= 13 * backoff}

---------------------------------------------------------------------------
(* _request *)

HostAt(c) == HostOf[call[c].of]

\* A call that goes on, its resource and its validators the same.
Moved(c, at, attempt, left) ==
    [at |-> at, of |-> call[c].of, given |-> call[c].given, attempt |-> attempt, left |-> left]

\* A host that is blocked raises at once.  The validators are read before the
\* first attempt and sent with every one.
Get(c, r) ==
    /\ call[c] = Idle
    /\ HostOf[r] \notin blocked
    /\ call' = [call EXCEPT ![c] = [at |-> "turn", of |-> r, given |-> cache[UrlOf[r]], attempt |-> 0, left |-> 0]]
    /\ line' = [line EXCEPT ![HostOf[r]] = Append(@, c)]
    /\ UNCHANGED <<since, blocked, cache, version, seen, quiet>>

\* The slip a mutant tries: the turnstile without its lock.
NoLock(c) == TRUE

HasLock(c) == line[HostAt(c)] # <<>> /\ Head(line[HostAt(c)]) = c

\* The request leaves as the turn ends: the lock is not held across it.
Send(c) ==
    /\ call' = [call EXCEPT ![c] = Moved(c, "sent", call[c].attempt, 0)]
    /\ line' = [line EXCEPT ![HostAt(c)] = Tail(@)]
    /\ since' = [since EXCEPT ![HostAt(c)] = 0]
    /\ quiet' = [quiet EXCEPT ![HostAt(c)] = 0]
    /\ UNCHANGED <<blocked, cache, version, seen>>

\* _wait_turn, from the lock to the sleep or, when nothing is left to wait
\* for, to its end.
WaitTurn(c) ==
    /\ call[c].at = "turn"
    /\ HasLock(c)
    /\ LET wait == DelayFor[HostAt(c)] - since[HostAt(c)]
       IN  IF wait > 0
           THEN /\ \E s \in Jittered(wait) :
                       call' = [call EXCEPT ![c] = Moved(c, "pause", call[c].attempt, s)]
                /\ UNCHANGED <<line, since, blocked, cache, version, seen, quiet>>
           ELSE Send(c)

PassTurn(c) ==
    /\ call[c].at = "pause"
    /\ call[c].left = 0
    /\ Send(c)

\* After a backoff the call stands in line again, with its first validators.
Retry(c) ==
    /\ call[c].at = "backoff"
    /\ call[c].left = 0
    /\ call' = [call EXCEPT ![c] = Moved(c, "turn", call[c].attempt, 0)]
    /\ line' = [line EXCEPT ![HostAt(c)] = Append(@, c)]
    /\ UNCHANGED <<since, blocked, cache, version, seen, quiet>>

---------------------------------------------------------------------------
(* Replies *)

Current(r) == [of |-> r, version |-> version[r]]

Modified(content) == ModifiedAt[content.of][content.version]

\* A server looks at If-None-Match when there is one, else at the date of
\* If-Modified-Since.
Unmodified(c) ==
    LET given == call[c].given
        now == Current(call[c].of)
    IN  /\ given # None
        /\ IF "ETag" \in given.kinds
           THEN given.content = now
           ELSE Modified(now) <= Modified(given.content)

\* 304.
NotModified(c) ==
    /\ call[c].at = "sent"
    /\ Unmodified(c)
    /\ call' = [call EXCEPT ![c] = Idle]
    /\ UNCHANGED <<line, since, blocked, cache, version, seen, quiet>>

\* _store_validators: an answer without any leaves the row alone, any other
\* sets both columns.
Stored(r, kinds) ==
    IF kinds = {} THEN cache
    ELSE [cache EXCEPT ![UrlOf[r]] = [content |-> Current(r), kinds |-> kinds]]

\* 200, which a server may send whatever the validators: they are stored before
\* the body is parsed, and a body that is not JSON raises.
Answered(c) ==
    /\ call[c].at = "sent"
    /\ call' = [call EXCEPT ![c] = Idle]
    /\ \E kinds \in Offers : cache' = Stored(call[c].of, kinds)
    /\ seen' = seen \cup ({Current(call[c].of)} \ Garbled)
    /\ UNCHANGED <<line, since, blocked, version, quiet>>

\* 403: the host gets no further call in this session.
Refused(c) ==
    /\ call[c].at = "sent"
    /\ blocked' = blocked \cup {HostAt(c)}
    /\ call' = [call EXCEPT ![c] = Idle]
    /\ UNCHANGED <<line, since, cache, version, seen, quiet>>

\* Slips the mutants try: attempts that are not counted, one attempt too many,
\* and validators stored before the status was looked at.
SameAttempt(n) == n
OneTooMany(n) == n = MaxRetries
StoredAnyway(r) == Stored(r, {"ETag"})

NextAttempt(n) == n + 1

LastAttempt(n) == n = MaxRetries - 1

\* An error reply stores no validators, whatever its headers say.
CacheAfterError(r) == cache

\* 429 or 5xx: back off, and raise after the last attempt.
Overloaded(c, after) ==
    /\ call[c].at = "sent"
    /\ IF LastAttempt(call[c].attempt)
       THEN call' = [call EXCEPT ![c] = Idle]
       ELSE \E s \in LongerUpTo(BackoffFor(after, call[c].attempt)) :
                call' = [call EXCEPT ![c] = Moved(c, "backoff", NextAttempt(call[c].attempt), s)]
    /\ cache' = CacheAfterError(call[c].of)
    /\ UNCHANGED <<line, since, blocked, version, seen, quiet>>

\* Any other error status, a timeout or a lost connection is raised.
Failed(c) ==
    /\ call[c].at = "sent"
    /\ call' = [call EXCEPT ![c] = Idle]
    /\ cache' = CacheAfterError(call[c].of)
    /\ UNCHANGED <<line, since, blocked, version, seen, quiet>>

Reply(c) ==
    \/ NotModified(c) \/ Answered(c) \/ Refused(c) \/ Failed(c)
    \/ \E after \in RetryAfter : Overloaded(c, after)

---------------------------------------------------------------------------

Edit(r) ==
    /\ version[r] < MaxVersion[r]
    /\ version' = [version EXCEPT ![r] = @ + 1]
    /\ UNCHANGED <<call, line, since, blocked, cache, seen, quiet>>

UpToDelay(clock) == [h \in Host |-> IF clock[h] < DelayFor[h] THEN clock[h] + 1 ELSE clock[h]]

\* Time passes for every sleeper.  One whose sleep is over may be woken late.
Tick ==
    /\ since' = UpToDelay(since)
    /\ quiet' = UpToDelay(quiet)
    /\ call' = [c \in Call |-> IF call[c].at \in {"pause", "backoff"} /\ call[c].left > 0
                               THEN Moved(c, call[c].at, call[c].attempt, call[c].left - 1) ELSE call[c]]
    /\ UNCHANGED <<line, blocked, cache, version, seen>>

Next ==
    \/ \E c \in Call, r \in Resource : Get(c, r)
    \/ \E c \in Call : WaitTurn(c) \/ PassTurn(c) \/ Retry(c) \/ Reply(c)
    \/ \E r \in Resource : Edit(r)
    \/ Tick

Spec == Init /\ [][Next]_vars

\* The event loop gets to every coroutine that can go on, a reply arrives or
\* times out after 30 seconds, and time passes.
Fairness ==
    /\ WF_vars(Tick)
    /\ \A c \in Call : WF_vars(WaitTurn(c) \/ PassTurn(c) \/ Retry(c) \/ Reply(c))

FairSpec == Spec /\ Fairness

---------------------------------------------------------------------------
(* Properties *)

\* "Without it, coroutines racing through the gate all read _last_hit before
\* any writes it and none of them waits" (http.py:69): between two requests to
\* a host at least the delay passes, less the jitter, however many coroutines
\* ask for it and whichever of them are sleeping, backing off or late.
RequestsAreSpaced ==
    [][\A c \in Call : call'[c].at = "sent" /\ call[c].at # "sent" =>
           10 * quiet[HostAt(c)] >= 7 * DelayFor[HostAt(c)]]_vars

\* "Returns None on 304 (content unchanged)" (http.py:193): a caller can be
\* told that nothing changed only about content it was given before, with two
\* exceptions that the code has: the content came once with a body that was not
\* JSON, or the row had a date only, and content of that URL (of another page,
\* perhaps) was received with a date no earlier.
NotModifiedMeansSeen ==
    \A c \in Call : call[c].at = "sent" /\ Unmodified(c) =>
        LET now == Current(call[c].of)
        IN  \/ now \in seen \cup Garbled
            \/ /\ "ETag" \notin call[c].given.kinds
               /\ \E other \in seen \cup Garbled :
                      UrlOf[other.of] = UrlOf[now.of] /\ Modified(now) <= Modified(other)

\* "A persistent 503 must not become an unbounded hammer" (test_http.py:143):
\* a call returns or raises, even when its host never recovers and others keep
\* asking for it.
CallsEnd == \A c \in Call : call[c].at # "idle" ~> call[c].at = "idle"
=============================================================================
