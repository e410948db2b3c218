-------------------------------- MODULE Auth --------------------------------
(***************************************************************************)
(* How one process of the API verifies session tokens: the signing keys    *)
(* Supabase publishes are cached, and the threads that serve requests read *)
(* and refill that cache without a lock.  A refill reads the clock, asks   *)
(* the endpoint, stores the keys and only then stamps them with the time   *)
(* it read first, so refills overtake each other at each of these steps.   *)
(*                                                                         *)
(* Time is counted in steps of the clock.  A key is published once and     *)
(* withdrawn once; a token is named by the key that signed it.             *)
(***************************************************************************)
EXTENDS Integers

CONSTANTS
  Thread,     \* the threads that serve requests
  Key,        \* signing keys, by kid
  Legacy,     \* stands for the shared secret: the tokens without a kid
  SecretSet,  \* whether SUPABASE_JWT_SECRET is configured
  TTL,        \* _JWKS_TTL_SECONDS
  Patience,   \* bound: the longest verification of one token
  Horizon     \* bound on the clock

ASSUME AuthAssumption ==
  /\ Legacy \notin Key
  /\ SecretSet \in BOOLEAN
  /\ TTL \in Nat /\ Patience \in Nat /\ Horizon \in Nat

VARIABLES
  clock,      \* time.time()
  from,       \* history: when each key was published
  until,      \* history: when it was withdrawn
  keys,       \* _jwks_cache["keys"]
  fetchedAt,  \* _jwks_cache["fetched_at"]
  refilled,   \* history: the newest time any refill of this process stamped
  call        \* what each thread is executing

provider == <<from, until>>
cache == <<keys, fetchedAt, refilled>>
vars == <<clock, provider, cache, call>>

-----------------------------------------------------------------------------
NotYet == Horizon + 1
Never == -TTL - 1        \* fetched_at is 0.0 at first, longer ago than the TTL

Call == [pc: {"idle", "legacy", "look", "fetch", "store", "stamp", "take"},
         kid: Key \cup {Legacy},
         now: 0..Horizon,               \* the time read first
         response: SUBSET Key,          \* what the endpoint answered
         seen: Never..Horizon]          \* history: refilled, when the call began

TypeOK ==
  /\ clock \in 0..Horizon
  /\ from \in [Key -> 0..NotYet]
  /\ until \in [Key -> 0..NotYet]
  /\ keys \in SUBSET Key
  /\ fetchedAt \in Never..Horizon
  /\ refilled \in Never..Horizon
  /\ call \in [Thread -> Call]

Published == {k \in Key : from[k] # NotYet /\ until[k] = NotYet}

Idle == [pc |-> "idle", kid |-> Legacy, now |-> 0, response |-> {}, seen |-> Never]

Fresh == keys = {} /\ fetchedAt = Never /\ refilled = Never

Init ==
  /\ clock = 0
  /\ from \in [Key -> {0, NotYet}]
  /\ until = [k \in Key |-> NotYet]
  /\ Published # {}
  /\ Fresh
  /\ call = [th \in Thread |-> Idle]

-----------------------------------------------------------------------------
At(th, pc) == call[th].pc = pc
Move(th, pc) == call' = [call EXCEPT ![th].pc = pc]
Return(th) == call' = [call EXCEPT ![th] = Idle]

\* decode_supabase_jwt reads the header of a token: one with a kid needs the
\* cached keys, and the first thing _fetch_jwks does is to read the clock.
Begin(th, k) ==
  /\ At(th, "idle")
  /\ k \in Key => from[k] # NotYet
  /\ call' = [call EXCEPT ![th] =
                [pc |-> IF k = Legacy THEN "legacy" ELSE "look", kid |-> k,
                 now |-> clock, response |-> {}, seen |-> refilled]]
  /\ UNCHANGED <<clock, provider, cache>>

\* A token that is expired, broken or for another audience, a legacy token
\* without a secret configured: 401.
Refuse(th) ==
  /\ \/ At(th, "legacy")
     \/ At(th, "take") /\ call[th].kid \in keys
  /\ Return(th)
  /\ UNCHANGED <<clock, provider, cache>>

AcceptLegacy(th) ==
  /\ At(th, "legacy") /\ SecretSet
  /\ Return(th)
  /\ UNCHANGED <<clock, provider, cache>>

\* Mutant: keys once fetched are used for good.
LookForNone(th) ==
  /\ At(th, "look")
  /\ Move(th, IF keys = {} THEN "fetch" ELSE "take")
  /\ UNCHANGED <<clock, provider, cache>>

\* The cache serves unless it is empty or older than the TTL.
Look(th) ==
  /\ At(th, "look")
  /\ Move(th, IF call[th].now - fetchedAt > TTL \/ keys = {} THEN "fetch" ELSE "take")
  /\ UNCHANGED <<clock, provider, cache>>

\* The endpoint answers with the keys published at that moment.
Answered(th) ==
  /\ At(th, "fetch")
  /\ call' = [call EXCEPT ![th].pc = "store", ![th].response = Published]
  /\ UNCHANGED <<clock, provider, cache>>

\* It is down, too slow or answers with an error: the token is refused, even
\* though the cache may hold its key.
Unavailable(th) ==
  /\ At(th, "fetch")
  /\ Return(th)
  /\ UNCHANGED <<clock, provider, cache>>

\* Mutant: the answer does not replace keys that are there.
StoreFirst(th) ==
  /\ At(th, "store")
  /\ keys' = IF keys = {} THEN call[th].response ELSE keys
  /\ Move(th, "stamp")
  /\ UNCHANGED <<clock, provider, fetchedAt, refilled>>

Store(th) ==
  /\ At(th, "store")
  /\ keys' = call[th].response
  /\ Move(th, "stamp")
  /\ UNCHANGED <<clock, provider, fetchedAt, refilled>>

Newer(a, b) == IF a > b THEN a ELSE b

\* Mutant: the time of the refill is not recorded.
StampNot(th) ==
  /\ At(th, "stamp")
  /\ refilled' = Newer(call[th].now, refilled)
  /\ Move(th, "take")
  /\ UNCHANGED <<clock, provider, keys, fetchedAt>>

Stamp(th) ==
  /\ At(th, "stamp")
  /\ fetchedAt' = call[th].now
  /\ refilled' = Newer(call[th].now, refilled)
  /\ Move(th, "take")
  /\ UNCHANGED <<clock, provider, keys>>

\* The keys are read from the cache once more, whoever stored them, and the
\* token is decoded with the one its kid names, or refused for want of it.
Accept(th) ==
  /\ At(th, "take") /\ call[th].kid \in keys
  /\ Return(th)
  /\ UNCHANGED <<clock, provider, cache>>

RefuseUnknown(th) ==
  /\ At(th, "take") /\ call[th].kid \notin keys
  /\ Return(th)
  /\ UNCHANGED <<clock, provider, cache>>

-----------------------------------------------------------------------------
\* The project rotates its keys; one is always published.
Publish(k) ==
  /\ from[k] = NotYet
  /\ from' = [from EXCEPT ![k] = clock]
  /\ UNCHANGED <<clock, until, cache, call>>

Withdraw(k) ==
  /\ k \in Published /\ Published # {k}
  /\ until' = [until EXCEPT ![k] = clock]
  /\ UNCHANGED <<clock, from, cache, call>>

\* No verification outlasts Patience: the request to the endpoint has a timeout.
Tick ==
  /\ clock < Horizon
  /\ \A th \in Thread : ~At(th, "idle") => clock < call[th].now + Patience
  /\ clock' = clock + 1
  /\ UNCHANGED <<provider, cache, call>>

\* A new process starts with an empty cache.
Crash ==
  /\ keys' = {} /\ fetchedAt' = Never /\ refilled' = Never
  /\ call' = [th \in Thread |-> Idle]
  /\ UNCHANGED <<clock, provider>>

Verify(th) ==
  \/ \E k \in Key \cup {Legacy} : Begin(th, k)
  \/ Refuse(th) \/ AcceptLegacy(th)
  \/ Look(th) \/ Answered(th) \/ Unavailable(th) \/ Store(th) \/ Stamp(th)
  \/ Accept(th) \/ RefuseUnknown(th)

Next ==
  \/ \E th \in Thread : Verify(th)
  \/ \E k \in Key : Publish(k) \/ Withdraw(k)
  \/ Tick \/ Crash

Spec == Init /\ [][Next]_vars

-----------------------------------------------------------------------------
\* A set of keys is as of time t or later: none of it was withdrawn before t,
\* and what it lacks was not published before t, or is withdrawn by now.
AsOf(S, t) ==
  /\ \A k \in S : until[k] >= t
  /\ \A k \in Key \ S : from[k] >= t \/ until[k] <= clock

\* The strengthening.  Every verification is younger than Patience.  What a
\* thread received is as of the time it read; whatever overtook it, the cache
\* is as of Patience before its stamp, before the stamp a thread is about to
\* set, and before the TTL of a thread that decided to use it.
ThreadOK(th) ==
  LET c == call[th]
  IN /\ c.pc # "idle" => c.now <= clock /\ clock <= c.now + Patience
     /\ c.pc \in {"look", "fetch", "store", "stamp", "take"} => c.kid \in Key
     /\ c.pc \in {"look", "fetch", "store", "stamp", "take"} => c.seen <= refilled
     /\ c.pc = "fetch" => c.now - c.seen > TTL - Patience
     /\ c.pc = "store" => AsOf(c.response, c.now) /\ c.response # {}
     /\ c.pc = "stamp" => AsOf(keys, c.now - Patience) /\ keys # {}
     /\ c.pc = "take" => AsOf(keys, c.now - TTL - Patience) /\ keys # {}

CacheOK ==
  /\ keys # {} => AsOf(keys, fetchedAt - Patience)
  /\ keys = {} => Fresh
  /\ refilled <= clock
  /\ fetchedAt <= refilled /\ refilled <= fetchedAt + Patience

RotationOK ==
  /\ \A k \in Key : from[k] = NotYet \/ from[k] <= clock
  /\ \A k \in Key : until[k] = NotYet \/ (until[k] <= clock /\ from[k] # NotYet)
  /\ Published # {}

AuthInv == TypeOK /\ RotationOK /\ CacheOK /\ \A th \in Thread : ThreadOK(th)

\* However refills overtake each other, a token is accepted only by a key that
\* is published or was withdrawn no longer ago than the TTL and the time two
\* verifications may take.
AcceptsOnlyRecent ==
  [][\A th \in Thread :
       Accept(th) => until[call[th].kid] >= clock - TTL - 2 * Patience]_vars

\* After a rotation tokens of the new key are refused as unknown for no longer
\* than that: an older answer that overtakes a newer one does not stay.
RefusesOnlyNew ==
  [][\A th \in Thread :
       RefuseUnknown(th) => \/ from[call[th].kid] >= clock - TTL - 2 * Patience
                            \/ until[call[th].kid] <= clock]_vars

\* An outage of the endpoint refuses nobody whose request begins soon after a
\* refill: within the TTL, less what a slow refill took.
OutageHurtsOnlyOld ==
  [][\A th \in Thread :
       Unavailable(th) => call[th].now - call[th].seen > TTL - Patience]_vars
=============================================================================
