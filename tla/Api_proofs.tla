----------------------------- MODULE Api_proofs -----------------------------
(***************************************************************************)
(* Proofs about the API's own processes, for any number of threads,        *)
(* requests, keys, accounts and estates.                                   *)
(*                                                                         *)
(* Auth: how far behind the published keys the cache can be although       *)
(* refills store and stamp in steps of their own and overtake each other.  *)
(* Accounts and DevControl: what the deletion of an account and the        *)
(* developer dashboard may say although accounts, estates and flags change *)
(* between the statements of a request.                                    *)
(***************************************************************************)
EXTENDS Auth, DevControl, TLAPS

-----------------------------------------------------------------------------
(* Being as of a time.                                                     *)

LEMMA AsOfEarlier ==
  ASSUME TypeOK, NEW S \in SUBSET Key, NEW t \in Int, NEW u \in Int,
         AsOf(S, t), u <= t
  PROVE  AsOf(S, u)
<1>1. \A k \in Key : from[k] \in Int /\ until[k] \in Int
  BY AuthAssumption DEF TypeOK, NotYet
<1>. QED  BY <1>1 DEF AsOf

\* What is published now is as of now, so as of any time before.
LEMMA PublishedAsOf ==
  ASSUME TypeOK, RotationOK, NEW t \in Int, t <= clock
  PROVE  AsOf(Published, t) /\ Published # {}
<1>1. \A k \in Key : /\ from[k] \in Int /\ until[k] \in Int
                     /\ from[k] = NotYet => from[k] >= t
                     /\ until[k] = NotYet => until[k] >= t
                     /\ until[k] # NotYet => until[k] <= clock
  BY AuthAssumption DEF TypeOK, RotationOK, NotYet
<1>. QED  BY <1>1 DEF AsOf, Published, RotationOK

\* Rotation and time leave every set as of the times that have passed.
LEMMA AsOfStable ==
  ASSUME TypeOK, NEW S \in SUBSET Key, NEW t \in Int, t <= clock, AsOf(S, t),
         Tick \/ \E k \in Key : Publish(k) \/ Withdraw(k)
  PROVE  AsOf(S, t)'
<1>1. clock \in Int /\ \A k \in Key : from[k] \in Int /\ until[k] \in Int
  BY AuthAssumption DEF TypeOK, NotYet
<1>2. CASE Tick
  BY <1>1, <1>2 DEF Tick, AsOf, provider
<1>3. ASSUME NEW k \in Key, Publish(k) PROVE AsOf(S, t)'
  BY <1>1, <1>3 DEF Publish, AsOf, TypeOK
<1>4. ASSUME NEW k \in Key, Withdraw(k) PROVE AsOf(S, t)'
  BY <1>1, <1>4 DEF Withdraw, AsOf, TypeOK
<1>. QED  BY <1>2, <1>3, <1>4

-----------------------------------------------------------------------------
(* The invariant.                                                          *)

LEMMA IdleOK == Idle \in Call /\ Idle.pc = "idle"
  BY AuthAssumption DEF Idle, Call, Never

LEMMA FreshOK == ASSUME Fresh, clock \in 0..Horizon PROVE CacheOK
  BY AuthAssumption DEF Fresh, CacheOK, Never

LEMMA InitInv == Init => AuthInv
<1> SUFFICES ASSUME Init PROVE AuthInv
  OBVIOUS
<1> USE AuthAssumption
<1>1. TypeOK
  BY IdleOK DEF Init, TypeOK, Fresh, NotYet, Never
<1>2. RotationOK
  BY DEF Init, RotationOK
<1>3. CacheOK
  BY FreshOK DEF Init
<1>4. ASSUME NEW th \in Thread PROVE ThreadOK(th)
  BY IdleOK DEF Init, ThreadOK
<1>. QED  BY <1>1, <1>2, <1>3, <1>4 DEF AuthInv

\* A thread is not disturbed by the steps of others, provided that what they
\* put into the cache is at most Patience old.
LEMMA Frame ==
  ASSUME AuthInv, TypeOK', NEW u \in Thread, call'[u] = call[u],
         UNCHANGED <<clock, provider>>, refilled <= refilled',
         keys' = keys \/ (keys' # {} /\ AsOf(keys', clock - Patience))
  PROVE  ThreadOK(u)'
<1> DEFINE c == call[u]
<1>1. /\ TypeOK /\ ThreadOK(u) /\ c \in Call
      /\ clock \in Int /\ c.now \in Int /\ c.seen \in Int
      /\ refilled \in Int /\ refilled' \in Int
  BY AuthAssumption DEF AuthInv, TypeOK, Call, Never
<1>2. UNCHANGED <<clock, from, until>>
  BY DEF provider
<1>3. /\ c.pc = "stamp" => AsOf(keys', c.now - Patience) /\ keys' # {}
      /\ c.pc = "take" => AsOf(keys', c.now - TTL - Patience) /\ keys' # {}
  <2>1. CASE keys' = keys
    BY <1>1, <2>1 DEF ThreadOK
  <2>2. CASE keys' # {} /\ AsOf(keys', clock - Patience)
    <3>1. keys' \in SUBSET Key
      BY DEF TypeOK
    <3>2. c.pc \in {"stamp", "take"} => c.now <= clock
      BY <1>1 DEF ThreadOK
    <3>. QED  BY <1>1, <2>2, <3>1, <3>2, AsOfEarlier, AuthAssumption
  <2>. QED  BY <2>1, <2>2
<1>4. /\ c.pc = "stamp" => AsOf(keys, c.now - Patience)'
      /\ c.pc = "take" => AsOf(keys, c.now - TTL - Patience)'
  BY <1>2, <1>3 DEF AsOf
<1>5. c.pc = "store" => AsOf(c.response, c.now)'
  BY <1>1, <1>2 DEF ThreadOK, AsOf
<1>6. /\ c.pc # "idle" => c.now <= clock' /\ clock' <= c.now + Patience
      /\ c.pc \in {"look", "fetch", "store", "stamp", "take"} =>
           c.kid \in Key /\ c.seen <= refilled'
      /\ c.pc = "fetch" => c.now - c.seen > TTL - Patience
      /\ c.pc = "store" => c.response # {}
  BY <1>1, <1>2 DEF ThreadOK
<1>. QED  BY <1>3, <1>4, <1>5, <1>6 DEF ThreadOK

\* The steps of a thread that leave the cache alone.
LEMMA ReadInv ==
  ASSUME AuthInv, NEW th \in Thread, NEW c \in Call,
         call' = [call EXCEPT ![th] = c], UNCHANGED <<clock, provider, cache>>,
         ThreadOK(th)'
  PROVE  AuthInv'
<1> USE AuthAssumption
<1>1. UNCHANGED <<clock, from, until, keys, fetchedAt, refilled>>
  BY DEF provider, cache
<1>2. TypeOK'
  BY <1>1 DEF AuthInv, TypeOK
<1>3. RotationOK' /\ CacheOK'
  BY <1>1 DEF AuthInv, RotationOK, CacheOK, Published, Fresh, AsOf
<1>4. ASSUME NEW u \in Thread, u # th PROVE ThreadOK(u)'
  <2>1. call'[u] = call[u] /\ refilled \in Int
    BY <1>4 DEF AuthInv, TypeOK, Never
  <2>. QED  BY <1>1, <1>2, <2>1, Frame
<1>. QED  BY <1>2, <1>3, <1>4 DEF AuthInv

LEMMA ReturnInv ==
  ASSUME AuthInv, NEW th \in Thread, Return(th), UNCHANGED <<clock, provider, cache>>
  PROVE  AuthInv'
<1>1. call' = [call EXCEPT ![th] = Idle] /\ call'[th] = Idle
  BY DEF Return, AuthInv, TypeOK
<1>2. ThreadOK(th)'
  BY <1>1, IdleOK DEF ThreadOK
<1>. QED  BY <1>1, <1>2, IdleOK, ReadInv

LEMMA BeginInv ==
  ASSUME AuthInv, NEW th \in Thread, NEW k \in Key \cup {Legacy}, Begin(th, k)
  PROVE  AuthInv'
<1> DEFINE c == [pc |-> IF k = Legacy THEN "legacy" ELSE "look", kid |-> k,
                 now |-> clock, response |-> {}, seen |-> refilled]
<1>1. /\ c \in Call /\ call' = [call EXCEPT ![th] = c] /\ call'[th] = c
      /\ UNCHANGED <<clock, provider, cache>>
  BY DEF Begin, Call, AuthInv, TypeOK
<1>2. /\ c.pc \in {"legacy", "look"} /\ c.now = clock /\ c.seen = refilled
      /\ c.pc = "look" => c.kid \in Key
  BY DEF Begin
<1>3. clock' = clock /\ refilled' = refilled /\ clock \in Int /\ refilled \in Int
  BY <1>1, AuthAssumption DEF cache, AuthInv, TypeOK, Never
<1> HIDE DEF c
<1>4. ThreadOK(th)'
  BY <1>1, <1>2, <1>3, AuthAssumption DEF ThreadOK
<1>. QED  BY <1>1, <1>4, ReadInv

\* The step _fetch_jwks decides in: an old stamp means that no refill the call
\* could know of is newer, a young one that the cache is young enough.
LEMMA LookInv ==
  ASSUME AuthInv, NEW th \in Thread, Look(th)
  PROVE  AuthInv'
<1> USE AuthAssumption
<1> DEFINE old == call[th].now - fetchedAt > TTL \/ keys = {}
<1> DEFINE pc == IF old THEN "fetch" ELSE "take"
<1>0. PICK c : c = [call[th] EXCEPT !.pc = pc]
  OBVIOUS
<1>1. /\ TypeOK /\ CacheOK /\ ThreadOK(th) /\ call[th] \in Call /\ call[th].pc = "look"
      /\ fetchedAt \in Int /\ refilled \in Int /\ clock \in Int
      /\ call[th].now \in Int /\ call[th].seen \in Int /\ call[th].now >= 0
  BY DEF AuthInv, TypeOK, Look, At, Call, Never
<1>2. /\ c \in Call /\ c.pc = pc /\ c.kid = call[th].kid /\ c.now = call[th].now
      /\ c.seen = call[th].seen /\ c.response = call[th].response
  BY <1>0, <1>1 DEF Call
<1>3. call' = [call EXCEPT ![th] = c] /\ UNCHANGED <<clock, provider, cache>>
  BY <1>0 DEF Look, Move
<1>4. call'[th] = c /\ UNCHANGED <<clock, from, until, keys, refilled>>
  BY <1>1, <1>3 DEF provider, cache, TypeOK
<1>5. old => call[th].now - call[th].seen > TTL - Patience
  BY <1>1 DEF CacheOK, ThreadOK, Fresh, Never
<1>6. ~old => AsOf(keys, call[th].now - TTL - Patience) /\ keys # {}
  <2>1. SUFFICES ASSUME ~old PROVE AsOf(keys, call[th].now - TTL - Patience)
    OBVIOUS
  <2>2. AsOf(keys, fetchedAt - Patience) /\ call[th].now - TTL - Patience <= fetchedAt - Patience
    BY <1>1, <2>1 DEF CacheOK
  <2>. QED  BY <1>1, <2>2, AsOfEarlier DEF TypeOK
<1>7. ~old => AsOf(keys, c.now - TTL - Patience)' /\ keys' # {}
  BY <1>2, <1>4, <1>6 DEF AsOf
<1>8. ThreadOK(th)'
  BY <1>1, <1>2, <1>4, <1>5, <1>7 DEF ThreadOK
<1>. QED  BY <1>2, <1>3, <1>8, ReadInv

LEMMA AnsweredInv ==
  ASSUME AuthInv, NEW th \in Thread, Answered(th)
  PROVE  AuthInv'
<1> USE AuthAssumption
<1>0. PICK c : c = [call[th] EXCEPT !.pc = "store", !.response = Published]
  OBVIOUS
<1>1. /\ TypeOK /\ RotationOK /\ ThreadOK(th) /\ call[th] \in Call /\ call[th].pc = "fetch"
      /\ call[th].now \in Int
  BY DEF AuthInv, TypeOK, Answered, At, Call
<1>2. /\ c \in Call /\ c.pc = "store" /\ c.kid = call[th].kid /\ c.now = call[th].now
      /\ c.seen = call[th].seen /\ c.response = Published
  BY <1>0, <1>1 DEF Call, Published
<1>3. call' = [call EXCEPT ![th] = c] /\ UNCHANGED <<clock, provider, cache>>
  BY <1>0 DEF Answered
<1>4. call'[th] = c /\ UNCHANGED <<clock, from, until, refilled>>
  BY <1>1, <1>3 DEF provider, cache, TypeOK
<1>5. AsOf(Published, call[th].now) /\ Published # {}
  BY <1>1, PublishedAsOf DEF ThreadOK
<1>6. AsOf(c.response, c.now)'
  BY <1>2, <1>4, <1>5 DEF AsOf
<1>7. ThreadOK(th)'
  BY <1>1, <1>2, <1>4, <1>5, <1>6 DEF ThreadOK
<1>. QED  BY <1>2, <1>3, <1>7, ReadInv

\* What is stored was asked for at most Patience ago, so that it is young
\* enough for the stamp in force and for every thread under way.
LEMMA StoreInv ==
  ASSUME AuthInv, NEW th \in Thread, Store(th)
  PROVE  AuthInv'
<1> USE AuthAssumption
<1>0. PICK c : c = [call[th] EXCEPT !.pc = "stamp"]
  OBVIOUS
<1>1. /\ TypeOK /\ CacheOK /\ RotationOK /\ ThreadOK(th)
      /\ call[th] \in Call /\ call[th].pc = "store"
      /\ call[th].now \in Int /\ clock \in Int /\ fetchedAt \in Int /\ refilled \in Int
  BY DEF AuthInv, TypeOK, Store, At, Call, Never
<1>2. /\ c \in Call /\ c.pc = "stamp" /\ c.kid = call[th].kid /\ c.now = call[th].now
      /\ c.seen = call[th].seen /\ c.response = call[th].response
  BY <1>0, <1>1 DEF Call
<1>3. call' = [call EXCEPT ![th] = c]
  BY <1>0 DEF Store, Move
<1>4. /\ keys' = call[th].response /\ keys' \in SUBSET Key /\ keys' # {}
      /\ UNCHANGED <<clock, from, until, fetchedAt, refilled>>
  BY <1>1 DEF Store, provider, Call, ThreadOK
<1>5. TypeOK'
  BY <1>2, <1>3, <1>4 DEF AuthInv, TypeOK
<1>6. AsOf(keys', call[th].now) /\ call[th].now <= clock /\ clock <= call[th].now + Patience
  BY <1>1, <1>4 DEF ThreadOK
<1>7. /\ AsOf(keys', clock - Patience)
      /\ AsOf(keys', call[th].now - Patience)
      /\ AsOf(keys', fetchedAt - Patience)
  BY <1>1, <1>4, <1>6, AsOfEarlier DEF CacheOK
<1>8. AsOf(keys, fetchedAt - Patience)' /\ AsOf(keys, c.now - Patience)'
  BY <1>2, <1>4, <1>7 DEF AsOf
<1>9. RotationOK' /\ CacheOK'
  BY <1>1, <1>4, <1>8 DEF RotationOK, CacheOK, Published
<1>10. ThreadOK(th)'
  <2>1. call'[th] = c
    BY <1>1, <1>3 DEF TypeOK
  <2>. QED  BY <1>1, <1>2, <1>4, <1>8, <2>1 DEF ThreadOK
<1>11. ASSUME NEW u \in Thread, u # th PROVE ThreadOK(u)'
  <2>1. call'[u] = call[u]
    BY <1>1, <1>3, <1>11 DEF TypeOK
  <2>. QED  BY <1>1, <1>4, <1>5, <1>7, <2>1, Frame DEF provider
<1>. QED  BY <1>5, <1>9, <1>10, <1>11 DEF AuthInv

\* A stamp may be older than the one it overwrites, by Patience at most.
LEMMA StampInv ==
  ASSUME AuthInv, NEW th \in Thread, Stamp(th)
  PROVE  AuthInv'
<1> USE AuthAssumption
<1>0. PICK c : c = [call[th] EXCEPT !.pc = "take"]
  OBVIOUS
<1>1. /\ TypeOK /\ CacheOK /\ RotationOK /\ ThreadOK(th)
      /\ call[th] \in Call /\ call[th].pc = "stamp"
      /\ call[th].now \in 0..Horizon /\ clock \in Int /\ refilled \in Never..Horizon
      /\ call[th].seen \in Int
  BY DEF AuthInv, TypeOK, Stamp, At, Call, Never
<1>2. /\ c \in Call /\ c.pc = "take" /\ c.kid = call[th].kid /\ c.now = call[th].now
      /\ c.seen = call[th].seen /\ c.response = call[th].response
  BY <1>0, <1>1 DEF Call
<1>3. call' = [call EXCEPT ![th] = c]
  BY <1>0 DEF Stamp, Move
<1>4. /\ fetchedAt' = call[th].now /\ refilled' = Newer(call[th].now, refilled)
      /\ UNCHANGED <<clock, from, until, keys>>
  BY DEF Stamp, provider
<1>5. /\ refilled <= refilled' /\ refilled' <= clock
      /\ fetchedAt' <= refilled' /\ refilled' <= fetchedAt' + Patience
      /\ fetchedAt' \in Never..Horizon /\ refilled' \in Never..Horizon
  BY <1>1, <1>4 DEF Newer, CacheOK, ThreadOK, Never
<1>6. TypeOK'
  BY <1>1, <1>2, <1>3, <1>4, <1>5 DEF TypeOK
<1>7. AsOf(keys, call[th].now - Patience) /\ keys # {}
  BY <1>1 DEF ThreadOK
<1>8. AsOf(keys, call[th].now - TTL - Patience)
  BY <1>1, <1>7, AsOfEarlier DEF TypeOK
<1>9. AsOf(keys, fetchedAt - Patience)' /\ AsOf(keys, c.now - TTL - Patience)'
  BY <1>2, <1>4, <1>7, <1>8 DEF AsOf
<1>10. RotationOK' /\ CacheOK'
  BY <1>1, <1>4, <1>5, <1>7, <1>9 DEF RotationOK, CacheOK, Published
<1>11. ThreadOK(th)'
  <2>1. call'[th] = c
    BY <1>1, <1>3 DEF TypeOK
  <2>2. refilled \in Int /\ refilled' \in Int
    BY <1>1, <1>5 DEF Never
  <2>. QED  BY <1>1, <1>2, <1>4, <1>5, <1>7, <1>9, <2>1, <2>2 DEF ThreadOK
<1>12. ASSUME NEW u \in Thread, u # th PROVE ThreadOK(u)'
  <2>1. call'[u] = call[u]
    BY <1>1, <1>3, <1>12 DEF TypeOK
  <2>. QED  BY <1>4, <1>5, <1>6, <2>1, Frame DEF provider
<1>. QED  BY <1>6, <1>10, <1>11, <1>12 DEF AuthInv

LEMMA VerifyInv ==
  ASSUME AuthInv, NEW th \in Thread, Verify(th)
  PROVE  AuthInv'
<1>1. ASSUME Refuse(th) \/ AcceptLegacy(th) \/ Unavailable(th) \/ Accept(th) \/ RefuseUnknown(th)
      PROVE  AuthInv'
  BY <1>1, ReturnInv DEF Refuse, AcceptLegacy, Unavailable, Accept, RefuseUnknown
<1>. QED  BY <1>1, BeginInv, LookInv, AnsweredInv, StoreInv, StampInv DEF Verify

\* Time and rotation.
LEMMA WorldInv ==
  ASSUME AuthInv, Tick \/ \E k \in Key : Publish(k) \/ Withdraw(k)
  PROVE  AuthInv'
<1> USE AuthAssumption
<1>1. TypeOK /\ CacheOK /\ RotationOK /\ clock \in Int
  BY DEF AuthInv, TypeOK
<1>2. UNCHANGED <<keys, fetchedAt, refilled, call>>
  BY DEF Tick, Publish, Withdraw, cache
<1>3. /\ clock' \in 0..Horizon /\ clock <= clock'
      /\ \A th \in Thread : ~At(th, "idle") => clock' <= call[th].now + Patience
  <2>1. \A th \in Thread : ~At(th, "idle") =>
          clock <= call[th].now + Patience /\ call[th].now \in Int
    BY DEF AuthInv, ThreadOK, At, TypeOK, Call
  <2>. QED  BY <1>1, <2>1 DEF Tick, Publish, Withdraw, TypeOK
<1>4. TypeOK'
  BY <1>1, <1>2, <1>3 DEF TypeOK, Tick, Publish, Withdraw, NotYet, provider
<1>5. RotationOK'
  <2>1. CASE Tick
    BY <1>1, <2>1 DEF Tick, RotationOK, provider, Published, TypeOK, NotYet
  <2>2. ASSUME NEW k \in Key, Publish(k) PROVE RotationOK'
    BY <1>1, <2>2 DEF Publish, RotationOK, Published, TypeOK, NotYet
  <2>3. ASSUME NEW k \in Key, Withdraw(k) PROVE RotationOK'
    BY <1>1, <2>3 DEF Withdraw, RotationOK, Published, TypeOK, NotYet
  <2>. QED  BY <2>1, <2>2, <2>3
<1>6. ASSUME NEW S \in SUBSET Key, NEW t \in Int, t <= clock, AsOf(S, t)
      PROVE  AsOf(S, t)'
  BY <1>1, <1>6, AsOfStable
<1>7. CacheOK'
  <2>1. fetchedAt \in Int /\ refilled \in Int /\ keys \in SUBSET Key
    BY <1>1 DEF TypeOK, Never
  <2>2. AsOf(keys, fetchedAt - Patience) => AsOf(keys, fetchedAt - Patience)'
    <3>1. fetchedAt - Patience \in Int /\ fetchedAt - Patience <= clock
      BY <1>1, <2>1 DEF CacheOK
    <3>2. PICK S, t : S = keys /\ t = fetchedAt - Patience
      OBVIOUS
    <3>3. AsOf(S, t) => AsOf(S, t)'
      BY <1>6, <2>1, <3>1, <3>2
    <3>. QED  BY <1>2, <3>2, <3>3 DEF AsOf
  <2>. QED  BY <1>1, <1>2, <1>3, <2>1, <2>2 DEF CacheOK, Fresh
<1>8. ASSUME NEW th \in Thread PROVE ThreadOK(th)'
  <2>0. PICK c : c = call[th]
    OBVIOUS
  <2>1. /\ ThreadOK(th) /\ c \in Call /\ c.now \in Int /\ c.response \in SUBSET Key
        /\ keys \in SUBSET Key /\ call'[th] = c
    BY <1>1, <1>2, <2>0 DEF AuthInv, TypeOK, Call
  <2>2. c.pc # "idle" => c.now <= clock /\ c.now <= clock' /\ clock' <= c.now + Patience
    BY <1>1, <1>3, <2>0, <2>1 DEF ThreadOK, At
  <2>3. /\ c.pc = "store" => AsOf(c.response, c.now)'
        /\ c.pc = "stamp" => AsOf(keys, c.now - Patience)'
        /\ c.pc = "take" => AsOf(keys, c.now - TTL - Patience)'
    <3>1. PICK S : S = keys
      OBVIOUS
    <3>2. /\ c.pc = "store" => AsOf(c.response, c.now)'
          /\ c.pc = "stamp" => AsOf(S, c.now - Patience)'
          /\ c.pc = "take" => AsOf(S, c.now - TTL - Patience)'
      BY <1>1, <1>6, <2>0, <2>1, <2>2, <3>1 DEF ThreadOK
    <3>. QED  BY <1>2, <3>1, <3>2 DEF AsOf
  <2>. QED  BY <1>2, <2>0, <2>1, <2>2, <2>3 DEF ThreadOK
<1>. QED  BY <1>4, <1>5, <1>7, <1>8 DEF AuthInv

LEMMA CrashInv == AuthInv /\ Crash => AuthInv'
<1> SUFFICES ASSUME AuthInv, Crash PROVE AuthInv'
  OBVIOUS
<1>1. UNCHANGED <<clock, from, until>> /\ Fresh' /\ call' = [th \in Thread |-> Idle]
  BY DEF Crash, provider, Fresh, Never
<1>2. TypeOK'
  BY <1>1, IdleOK, AuthAssumption DEF AuthInv, TypeOK, Fresh, Never
<1>3. RotationOK'
  BY <1>1 DEF AuthInv, RotationOK, Published
<1>4. CacheOK'
  BY <1>1, AuthAssumption DEF AuthInv, TypeOK, Fresh, CacheOK, Never
<1>5. ASSUME NEW th \in Thread PROVE ThreadOK(th)'
  BY <1>1, IdleOK DEF ThreadOK
<1>. QED  BY <1>2, <1>3, <1>4, <1>5 DEF AuthInv

LEMMA AuthStep == AuthInv /\ [Next]_vars => AuthInv'
<1> SUFFICES ASSUME AuthInv, [Next]_vars PROVE AuthInv'
  OBVIOUS
<1>1. CASE UNCHANGED vars
  BY <1>1 DEF vars, provider, cache, AuthInv, TypeOK, RotationOK, CacheOK, ThreadOK,
     Published, Fresh, AsOf
<1>. QED  BY <1>1, VerifyInv, WorldInv, CrashInv DEF Next

LEMMA AuthCorrect == Spec => []AuthInv
  BY InitInv, AuthStep, PTL DEF Spec

-----------------------------------------------------------------------------
\* Times, keys and the variables of the threads keep their types.
THEOREM TypeCorrect == Spec => []TypeOK
<1>1. AuthInv => TypeOK
  BY DEF AuthInv
<1>. QED  BY AuthCorrect, <1>1, PTL

\* For any number of threads and keys: a token is accepted only by a key that
\* was withdrawn at most the TTL and twice the patience ago.
THEOREM AcceptsOnlyRecentCorrect == Spec => AcceptsOnlyRecent
<1> DEFINE Kept == \A th \in Thread :
             Accept(th) => until[call[th].kid] >= clock - TTL - 2 * Patience
<1>1. ASSUME AuthInv, NEW th \in Thread, Accept(th)
      PROVE  until[call[th].kid] >= clock - TTL - 2 * Patience
  <2>1. /\ AsOf(keys, call[th].now - TTL - Patience) /\ clock <= call[th].now + Patience
        /\ call[th].kid \in keys /\ call[th].kid \in Key
        /\ call[th].now \in Int /\ clock \in Int /\ until[call[th].kid] \in Int
    BY <1>1, AuthAssumption DEF Accept, At, AuthInv, ThreadOK, TypeOK, Call, NotYet
  <2>. QED  BY <2>1, AuthAssumption DEF AsOf
<1>2. AuthInv /\ [Next]_vars => [Kept]_vars
  BY <1>1
<1>. QED  BY <1>2, AuthCorrect, PTL DEF Spec, AcceptsOnlyRecent

\* ... and refused as unknown only if its key was published at most that long
\* ago, or was withdrawn.
THEOREM RefusesOnlyNewCorrect == Spec => RefusesOnlyNew
<1> DEFINE Kept == \A th \in Thread :
             RefuseUnknown(th) => \/ from[call[th].kid] >= clock - TTL - 2 * Patience
                                  \/ until[call[th].kid] <= clock
<1>1. ASSUME AuthInv, NEW th \in Thread, RefuseUnknown(th)
      PROVE  \/ from[call[th].kid] >= clock - TTL - 2 * Patience
             \/ until[call[th].kid] <= clock
  <2>1. /\ AsOf(keys, call[th].now - TTL - Patience) /\ clock <= call[th].now + Patience
        /\ call[th].kid \notin keys /\ call[th].kid \in Key
        /\ call[th].now \in Int /\ clock \in Int /\ from[call[th].kid] \in Int
    BY <1>1, AuthAssumption DEF RefuseUnknown, At, AuthInv, ThreadOK, TypeOK, Call, NotYet
  <2>. QED  BY <2>1, AuthAssumption DEF AsOf
<1>2. AuthInv /\ [Next]_vars => [Kept]_vars
  BY <1>1
<1>. QED  BY <1>2, AuthCorrect, PTL DEF Spec, RefusesOnlyNew

\* While the endpoint is down nobody is refused whose request began within the
\* TTL, less the patience, of a refill that had ended by then.
THEOREM OutageHurtsOnlyOldCorrect == Spec => OutageHurtsOnlyOld
<1> DEFINE Kept == \A th \in Thread :
             Unavailable(th) => call[th].now - call[th].seen > TTL - Patience
<1>1. ASSUME AuthInv, NEW th \in Thread, Unavailable(th)
      PROVE  call[th].now - call[th].seen > TTL - Patience
  BY <1>1 DEF Unavailable, At, AuthInv, ThreadOK
<1>2. AuthInv /\ [Next]_vars => [Kept]_vars
  BY <1>1
<1>. QED  BY <1>2, AuthCorrect, PTL DEF Spec, OutageHurtsOnlyOld

-----------------------------------------------------------------------------
(* The deletion of an account.                                             *)

LEMMA NoDeletionOK == NoDeletion \in Deletion /\ NoDeletion.pc = "idle"
  BY DEF NoDeletion, Deletion

LEMMA NotStaff == NULL \notin StaffRoles /\ "resident" \notin StaffRoles
  BY AccountsAssumption DEF StaffRoles, AppRole

LEMMA AccountsInitInv == AccountsInit => AccountsInv
<1> SUFFICES ASSUME AccountsInit PROVE AccountsInv
  OBVIOUS
<1>1. AccountsTypeOK
  BY AccountsAssumption, NoDeletionOK DEF AccountsInit, AccountsTypeOK
<1>2. ASSUME NEW s \in Session PROVE DeletionOK(s)
  BY NoDeletionOK DEF AccountsInit, DeletionOK
<1>. QED  BY <1>1, <1>2 DEF AccountsInv

\* What an account may turn into, as long as nobody is given a role.
Onward(u) ==
  /\ account[u] # "none" => account'[u] # "none" /\ role'[u] \in {role[u], NULL}
  /\ account[u] = "gone" => account'[u] = "gone"

\* A request is not disturbed by what happens to accounts.
LEMMA DeletionFrame ==
  ASSUME AccountsTypeOK, NEW s \in Session, DeletionOK(s), deletion'[s] = deletion[s],
         \A u \in User : Onward(u)
  PROVE  DeletionOK(s)'
<1> DEFINE c == deletion[s]
<1>1. CASE c.pc = "idle"
  BY <1>1 DEF DeletionOK
<1>2. CASE c.pc # "idle"
  <2>1. /\ c.by \in User /\ account[c.by] # "none" /\ Onward(c.by)
        /\ account[c.by] \in {"none", "live", "gone"}
    BY <1>2 DEF AccountsTypeOK, DeletionOK
  <2>. QED  BY <1>2, <2>1, NotStaff DEF DeletionOK, Onward, Live
<1>. QED  BY <1>1, <1>2

\* The steps of a request: its own state, and what they do to accounts.
LEMMA EraseType ==
  ASSUME AccountsTypeOK, NEW u \in User, Erase(u)
  PROVE  /\ account' \in [User -> {"none", "live", "gone"}]
         /\ role' \in [User -> Role \cup {NULL}]
         /\ RoleIffLive'
         /\ account'[u] = "gone" /\ role'[u] = NULL
         /\ Live(u) => \A v \in User : Onward(v)
<1>1. account' \in [User -> {"none", "live", "gone"}] /\ role' \in [User -> Role \cup {NULL}]
  BY DEF AccountsTypeOK, Erase
<1>2. \A v \in User : /\ account'[v] = IF v = u THEN "gone" ELSE account[v]
                      /\ role'[v] = IF v = u THEN NULL ELSE role[v]
  BY DEF AccountsTypeOK, Erase
<1>. QED  BY <1>1, <1>2 DEF AccountsTypeOK, RoleIffLive, Live, Onward

\* A step of a request that leaves it idle or in a state that is right.
LEMMA DeletionSteps ==
  ASSUME AccountsInv, NEW s \in Session, NEW c \in Deletion,
         deletion' = [deletion EXCEPT ![s] = c],
         /\ account' \in [User -> {"none", "live", "gone"}]
         /\ role' \in [User -> Role \cup {NULL}]
         /\ RoleIffLive',
         UNCHANGED <<referenced, changes>>,
         \A u \in User : Onward(u),
         DeletionOK(s)'
  PROVE  AccountsInv'
<1>1. AccountsTypeOK'
  BY DEF AccountsInv, AccountsTypeOK
<1>2. ASSUME NEW t \in Session, t # s PROVE DeletionOK(t)'
  BY <1>2, DeletionFrame DEF AccountsInv, AccountsTypeOK
<1>. QED  BY <1>1, <1>2 DEF AccountsInv

LEMMA SameAccounts ==
  ASSUME AccountsTypeOK, UNCHANGED <<account, role>>
  PROVE  /\ account' \in [User -> {"none", "live", "gone"}]
         /\ role' \in [User -> Role \cup {NULL}]
         /\ RoleIffLive'
         /\ \A u \in User : Onward(u)
  BY DEF AccountsTypeOK, RoleIffLive, Live, Onward

LEMMA EndDeletionInv ==
  ASSUME AccountsInv, NEW s \in Session, EndDeletion(s),
         /\ account' \in [User -> {"none", "live", "gone"}]
         /\ role' \in [User -> Role \cup {NULL}]
         /\ RoleIffLive',
         UNCHANGED <<referenced, changes>>,
         \A u \in User : Onward(u)
  PROVE  AccountsInv'
<1>1. deletion'[s] = NoDeletion
  BY DEF AccountsInv, AccountsTypeOK, EndDeletion
<1>2. DeletionOK(s)'
  BY <1>1, NoDeletionOK DEF DeletionOK
<1>. QED  BY <1>2, NoDeletionOK, DeletionSteps DEF EndDeletion

LEMMA DeleteInv ==
  ASSUME AccountsInv, NEW s \in Session, Delete(s)
  PROVE  AccountsInv'
<1> DEFINE c == deletion[s]
<1>0. AccountsTypeOK /\ DeletionOK(s) /\ c \in Deletion
  BY DEF AccountsInv, AccountsTypeOK
<1>1. ASSUME NEW u \in User, DeleteBegin(s, u) PROVE AccountsInv'
  <2> DEFINE new == [NoDeletion EXCEPT !.pc = "role", !.by = u, !.gone = ~Live(u)]
  <2>1. /\ new \in Deletion /\ new.pc = "role" /\ new.by = u
        /\ new.gone => account[u] = "gone"
    BY <1>0, <1>1 DEF NoDeletion, Deletion, Live, DeleteBegin, AccountsTypeOK
  <2>2. deletion' = [deletion EXCEPT ![s] = new] /\ deletion'[s] = new
    BY <1>0, <1>1 DEF DeleteBegin, AccountsTypeOK
  <2>3. DeletionOK(s)'
    BY <1>1, <2>1, <2>2 DEF DeletionOK, DeleteBegin
  <2> HIDE DEF new
  <2>. QED  BY <1>0, <1>1, <2>1, <2>2, <2>3, SameAccounts, DeletionSteps DEF DeleteBegin
<1>2. CASE DeleteRole(s)
  <2>1. CASE EndDeletion(s)
    BY <1>0, <1>2, <2>1, SameAccounts, EndDeletionInv DEF DeleteRole
  <2>2. CASE role[c.by] \notin StaffRoles
    <3> DEFINE new == [c EXCEPT !.pc = "admin_api"]
    <3>1. /\ new \in Deletion /\ new.pc = "admin_api" /\ new.by = c.by
          /\ new.gone = c.gone /\ c.pc = "role"
      BY <1>0, <1>2 DEF Deletion, DeleteRole, Deleting
    <3>2. deletion' = [deletion EXCEPT ![s] = new] /\ deletion'[s] = new
      BY <1>0, <1>2, <2>2 DEF DeleteRole, AccountsTypeOK
    <3>3. DeletionOK(s)'
      BY <1>0, <1>2, <2>2, <3>1, <3>2 DEF DeletionOK, DeleteRole
    <3> HIDE DEF new
    <3>. QED  BY <1>0, <1>2, <3>1, <3>2, <3>3, SameAccounts, DeletionSteps DEF DeleteRole
  <2>. QED  BY <1>2, <2>1, <2>2 DEF DeleteRole
<1>3. ASSUME NEW status \in {"200", "404", "error"}, Answer(s, status),
             Deleting(s, "admin_api"),
             /\ account' \in [User -> {"none", "live", "gone"}]
             /\ role' \in [User -> Role \cup {NULL}]
             /\ RoleIffLive',
             UNCHANGED <<referenced, changes>>,
             \A u \in User : Onward(u),
             status \in {"200", "404"} => account'[c.by] = "gone"
      PROVE  AccountsInv'
  <2> DEFINE new == [c EXCEPT !.pc = "answer", !.status = status]
  <2>1. /\ new \in Deletion /\ new.pc = "answer" /\ new.by = c.by
        /\ new.gone = c.gone /\ new.status = status /\ c.pc = "admin_api"
    BY <1>0, <1>3 DEF Deletion, Deleting
  <2>2. deletion' = [deletion EXCEPT ![s] = new] /\ deletion'[s] = new
    BY <1>0, <1>3 DEF Answer, AccountsTypeOK
  <2>3. c.by \in User /\ account'[c.by] # "none" /\ (c.gone => account'[c.by] = "gone")
    BY <1>0, <1>3, <2>1 DEF DeletionOK, Onward
  <2>4. DeletionOK(s)'
    BY <1>3, <2>1, <2>2, <2>3 DEF DeletionOK, Live
  <2> HIDE DEF new
  <2>. QED  BY <1>3, <2>1, <2>2, <2>4, DeletionSteps
<1>4. CASE AdminDeletes(s)
  <2>1. c.by \in User
    BY <1>0, <1>4 DEF AdminDeletes, Deleting, DeletionOK
  <2>. QED  BY <1>0, <1>3, <1>4, <2>1, EraseType DEF AdminDeletes
<1>5. CASE AdminMissing(s)
  <2>1. account'[c.by] = "gone" /\ UNCHANGED <<account, role>>
    BY <1>0, <1>5 DEF AdminMissing, Deleting, DeletionOK, AccountsTypeOK, Live
  <2>. QED  BY <1>0, <1>3, <1>5, <2>1, SameAccounts DEF AdminMissing
<1>6. CASE AdminErrs(s) \/ AdminTimesOut(s)
  <2>1. c.by \in User /\ MayErase(c.by) /\ Deleting(s, "admin_api") /\ UNCHANGED <<referenced, changes>>
    BY <1>0, <1>6 DEF AdminErrs, AdminTimesOut, Deleting, DeletionOK
  <2>2. /\ account' \in [User -> {"none", "live", "gone"}]
        /\ role' \in [User -> Role \cup {NULL}]
        /\ RoleIffLive'
        /\ \A u \in User : Onward(u)
    BY <1>0, <2>1, SameAccounts, EraseType DEF MayErase
  <2>. QED  BY <1>3, <1>6, <2>1, <2>2, EndDeletionInv DEF AdminErrs, AdminTimesOut
<1>7. CASE Succeed(s) \/ Fail(s)
  BY <1>0, <1>7, SameAccounts, EndDeletionInv DEF Succeed, Fail
<1>. QED  BY <1>1, <1>2, <1>4, <1>5, <1>6, <1>7 DEF Delete

LEMMA ChangeType == ASSUME AccountsTypeOK, Change PROVE changes' \in 0..MaxChanges
  BY AccountsAssumption DEF AccountsTypeOK, Change

LEMMA OthersInv ==
  ASSUME AccountsInv, NEW u \in User, SignUp(u) \/ Refer(u) \/ Remove(u)
  PROVE  AccountsInv'
<1>0. AccountsTypeOK
  BY DEF AccountsInv
<1>1. ASSUME AccountsTypeOK', UNCHANGED deletion, \A v \in User : Onward(v)
      PROVE  AccountsInv'
  BY <1>0, <1>1, DeletionFrame DEF AccountsInv
<1>2. CASE SignUp(u)
  <2>1. \A v \in User : /\ account'[v] = IF v = u THEN "live" ELSE account[v]
                        /\ role'[v] = IF v = u THEN "resident" ELSE role[v]
    BY <1>0, <1>2 DEF AccountsTypeOK, SignUp
  <2>2. AccountsTypeOK' /\ \A v \in User : Onward(v)
    BY <1>0, <1>2, <2>1, ChangeType, AccountsAssumption
    DEF AccountsTypeOK, SignUp, RoleIffLive, Live, Onward, AppRole
  <2>. QED  BY <1>1, <1>2, <2>2 DEF SignUp
<1>3. CASE Refer(u)
  <2>1. AccountsTypeOK' /\ \A v \in User : Onward(v)
    BY <1>0, <1>3, ChangeType, SameAccounts DEF AccountsTypeOK, Refer
  <2>. QED  BY <1>1, <1>3, <2>1 DEF Refer
<1>4. CASE Remove(u)
  <2>1. AccountsTypeOK' /\ \A v \in User : Onward(v)
    BY <1>0, <1>4, ChangeType, EraseType DEF AccountsTypeOK, Remove
  <2>. QED  BY <1>1, <1>4, <2>1 DEF Remove
<1>. QED  BY <1>2, <1>3, <1>4

\* A request that is past the check of the role notices that the role changes.
LEMMA SetRoleInv ==
  ASSUME AccountsInv, NEW u \in User, NEW r \in Role, SetRole(u, r)
  PROVE  AccountsInv'
<1>0. AccountsTypeOK
  BY DEF AccountsInv
<1>1. \A v \in User : role'[v] = IF v = u THEN r ELSE role[v]
  BY <1>0 DEF AccountsTypeOK, SetRole
<1>2. r # NULL
  BY AccountsAssumption
<1>3. ASSUME NEW s \in Session
      PROVE  /\ deletion'[s] \in Deletion
             /\ deletion'[s] = [deletion[s] EXCEPT !.moved =
                                  @ \/ (deletion[s].pc = "admin_api" /\ deletion[s].by = u)]
  BY <1>0 DEF AccountsTypeOK, SetRole, Deleting, Deletion
<1>4. AccountsTypeOK'
  BY <1>0, <1>1, <1>2, <1>3, ChangeType DEF AccountsTypeOK, SetRole, RoleIffLive, Live
<1>5. ASSUME NEW s \in Session PROVE DeletionOK(s)'
  <2> DEFINE c == deletion[s]
  <2>1. DeletionOK(s) /\ c \in Deletion
    BY <1>0 DEF AccountsInv, AccountsTypeOK
  <2>2. /\ deletion'[s].pc = c.pc /\ deletion'[s].by = c.by /\ deletion'[s].gone = c.gone
        /\ deletion'[s].status = c.status
        /\ deletion'[s].moved <=> c.moved \/ (c.pc = "admin_api" /\ c.by = u)
    BY <1>3, <2>1 DEF Deletion
  <2>3. account' = account
    BY DEF SetRole
  <2>. QED  BY <1>1, <2>1, <2>2, <2>3 DEF DeletionOK, Live
<1>. QED  BY <1>4, <1>5 DEF AccountsInv

-----------------------------------------------------------------------------
(* The views of the dashboard.                                             *)

LEMMA OrType == ASSUME NEW T PROVE Or(T) \in {TRUE, NULL, FALSE}
  BY Zenon DEF Or

LEMMA CoalesceType ==
  ASSUME NEW b \in {TRUE, NULL, FALSE} PROVE Coalesce(b) \in BOOLEAN
  BY Zenon DEF Coalesce

\* SQL's OR of terms none of which is unknown.
LEMMA OrKnown ==
  ASSUME NEW T \in SUBSET BOOLEAN
  PROVE  /\ Or(T) \in BOOLEAN
         /\ Or(T) = TRUE <=> TRUE \in T
<1>1. NULL \notin T
  BY DevControlAssumption
<1>2. CASE TRUE \in T
  <2>1. Or(T) = TRUE
    BY <1>2, Zenon DEF Or
  <2>. QED  BY <1>2, <2>1, Zenon
<1>3. CASE TRUE \notin T
  <2>1. Or(T) = FALSE
    BY <1>1, <1>3, Zenon DEF Or
  <2>. QED  BY <1>3, <2>1, Zenon
<1>. QED  BY <1>2, <1>3

\* A coalesced condition is never unknown, so that everybody who is there is in
\* one of the two views.
LEMMA TestKnown ==
  ASSUME NEW u
  PROVE  /\ RuleTest(u) \in BOOLEAN /\ ManualTest(u) \in BOOLEAN
         /\ Or({RuleTest(u), ManualTest(u)}) \in BOOLEAN
         /\ Or({RuleTest(u), ManualTest(u)}) = TRUE <=> RuleTest(u) \/ ManualTest(u)
<1>1. RuleTest(u) \in BOOLEAN /\ ManualTest(u) \in BOOLEAN
  BY OrType, CoalesceType, Zenon DEF RuleTest, ManualTest
<1>2. TRUE \in {RuleTest(u), ManualTest(u)} <=> RuleTest(u) \/ ManualTest(u)
  BY <1>1, Zenon
<1>3. {RuleTest(u), ManualTest(u)} \in SUBSET BOOLEAN
  BY <1>1, Zenon
<1>. QED  BY <1>1, <1>2, <1>3, OrKnown, Zenon

LEMMA UserViews ==
  ASSUME NEW u
  PROVE  UserView(u) = IF ~Live(u) THEN "absent"
                       ELSE IF RuleTest(u) \/ ManualTest(u) THEN "test" ELSE "live"
<1> DEFINE isTest == Or({RuleTest(u), ManualTest(u)})
<1>1. isTest \in BOOLEAN /\ (isTest = TRUE <=> RuleTest(u) \/ ManualTest(u))
  BY TestKnown, Zenon
<1>2. UserView(u) = CASE ~Live(u) -> "absent"
                      [] Live(u) /\ isTest = TRUE -> "test"
                      [] Live(u) /\ isTest = FALSE -> "live"
                      [] OTHER -> "neither"
  BY Zenon DEF UserView
<1> HIDE DEF isTest
<1>3. CASE isTest = TRUE
  BY <1>1, <1>2, <1>3
<1>4. CASE isTest = FALSE
  BY <1>1, <1>2, <1>4
<1>. QED  BY <1>1, <1>3, <1>4, Zenon

LEMMA Views ==
  ASSUME NEW x \in Thing
  PROVE  /\ ViewOf(x) \in {"absent", "test", "live"}
         /\ x \in Present /\ x \in flags => ViewOf(x) = "test"
<1>1. CASE x \in User
  <2>1. ViewOf(x) = UserView(x)
    BY <1>1, Zenon DEF ViewOf
  <2>2. ASSUME x \in flags PROVE ManualTest(x)
    <3> DEFINE T == {In(estateOf[x], ByFlag), x \in flags}
    <3>1. TRUE \in T
      BY <2>2, Zenon
    <3>2. Or(T) = TRUE
      BY <3>1, Zenon DEF Or
    <3>3. Coalesce(Or(T)) = TRUE
      BY <3>2, DevControlAssumption, Zenon DEF Coalesce
    <3>. QED  BY <3>3, Zenon DEF ManualTest
  <2>. QED  BY <2>1, <2>2, UserViews DEF Present
<1>2. CASE x \in Estate /\ x \notin User
  BY <1>2 DEF ViewOf, EstateView, Present, ByRule, ByFlag
<1>. QED  BY <1>1, <1>2 DEF Thing

\* Whatever is in the test view has a reason to be; without a flag of its own,
\* that is a rule or the flag of its estate.
LEMMA Reasons ==
  ASSUME NEW x \in Thing
  PROVE  /\ ViewOf(x) = "test" => Source(x) \in {"rule", "manual"}
         /\ x \notin flags => \/ Source(x) \in {NULL, "rule"}
                              \/ x \in User /\ estateOf[x] \in ByFlag
<1>1. ViewOf(x) = "test" => Source(x) \in {"rule", "manual"}
  BY Zenon DEF Source
<1>2. ASSUME x \notin flags, Source(x) \notin {NULL, "rule"}
      PROVE  x \in User /\ estateOf[x] \in ByFlag
  <2>1. /\ ViewOf(x) = "test" /\ x \notin ByRule
        /\ x \in User => ~RuleTest(x)
    BY <1>2, Zenon DEF Source
  <2>2. x \in User
    <3> SUFFICES ASSUME x \notin User PROVE FALSE
      OBVIOUS
    <3>. QED  BY <1>2, <2>1 DEF Thing, ViewOf, EstateView, ByFlag
  <2>3. ManualTest(x)
    BY <2>1, <2>2, UserViews DEF ViewOf
  <2> DEFINE T == {In(estateOf[x], ByFlag), x \in flags}
  <2>4. Or(T) = TRUE
    <3>1. Coalesce(Or(T))
      BY <2>3, Zenon DEF ManualTest
    <3>2. Or(T) \in {TRUE, NULL, FALSE}
      BY OrType, Zenon
    <3>. QED  BY <3>1, <3>2, Zenon DEF Coalesce
  <2>5. TRUE \in T
    BY <2>4, DevControlAssumption, Zenon DEF Or
  <2>6. In(estateOf[x], ByFlag) = TRUE
    BY <1>2, <2>5, Zenon
  <2>7. estateOf[x] \in ByFlag
    BY <2>6, DevControlAssumption, Zenon DEF In
  <2>. QED  BY <2>2, <2>7
<1>. QED  BY <1>1, <1>2

\* The views depend on accounts, roles, estates and flags, and on nothing else.
LEMMA ViewFrame ==
  ASSUME UNCHANGED <<account, role, world>>
  PROVE  /\ \A x : ViewOf(x)' = ViewOf(x)
         /\ Present' = Present /\ flags' = flags
<1>1. ASSUME NEW x PROVE ViewOf(x)' = ViewOf(x)
  BY Zenon DEF ViewOf, UserView, EstateView, Live, RuleTest, ManualTest, ByRule, ByFlag, world
<1>2. Present' = Present
  BY <1>1 DEF Present
<1>. QED  BY <1>1, <1>2 DEF world

-----------------------------------------------------------------------------
(* The requests of the dashboard.                                          *)

LEMMA NothingOK == Nothing \in Request /\ Nothing.pc = "idle" /\ RequestOK(Nothing)
  BY DevControlAssumption
  DEF Nothing, Request, Scope, RequestOK, CountOK, ListOK, FlagOK

LEMMA DashboardInitInv == DashboardInit => DashboardInv
<1> SUFFICES ASSUME DashboardInit PROVE DashboardInv
  OBVIOUS
<1>1. AccountsInv
  BY AccountsInitInv DEF DashboardInit
<1>2. DashboardTypeOK
  BY <1>1, NothingOK DEF AccountsInv, DashboardInit, DashboardTypeOK
<1>3. ASSUME NEW d \in Desk PROVE DeskOK(d)
  BY NothingOK DEF DashboardInit, DeskOK
<1>. QED  BY <1>1, <1>2, <1>3 DEF DashboardInv

\* A step that leaves the views alone: it is enough that the new state of the
\* request is right as things are.
LEMMA PutInv ==
  ASSUME DashboardInv, NEW d \in Desk, NEW r \in Request, RequestOK(r), Put(d, r),
         UNCHANGED <<account, role, world>>, AccountsInv'
  PROVE  DashboardInv'
<1>1. DashboardTypeOK'
  BY DEF DashboardInv, AccountsInv, DashboardTypeOK, Put, world, Live
<1>2. \A e \in Desk : desk'[e] = IF e = d THEN r ELSE desk[e]
  BY DEF DashboardInv, DashboardTypeOK, Put
<1>3. ASSUME NEW e \in Desk PROVE DeskOK(e)'
  <2> PICK q : q = desk'[e]
    OBVIOUS
  <2>1. RequestOK(q)
    BY <1>2 DEF DashboardInv, DeskOK, RequestOK
  <2>. QED  BY <2>1, ViewFrame DEF DeskOK, RequestOK, CountOK, ListOK, FlagOK, Steady
<1>. QED  BY <1>1, <1>3 DEF DashboardInv

\* A request that notices what else happens: of what it has not seen move, the
\* view and the flag are as they were.
LEMMA NoticeInv ==
  ASSUME DashboardInv, DashboardTypeOK', AccountsInv', NEW e \in Desk,
         NEW moved \in SUBSET Thing, DeskOK(e),
         desk'[e] = IF desk[e].pc = "idle" THEN desk[e]
                    ELSE [desk[e] EXCEPT !.moved = @ \cup moved],
         \A x \in Thing \ moved :
            IF desk[e].pc = "write" THEN x \in Present => ViewOf(x)' # "absent"
            ELSE ViewOf(x)' = ViewOf(x) /\ (x \in flags' <=> x \in flags)
  PROVE  DeskOK(e)'
<1> DEFINE r == desk[e]
           q == desk'[e]
<1>1. r \in Request
  BY DEF DashboardInv, DashboardTypeOK
<1>2. CASE r.pc = "idle"
  BY <1>2 DEF DeskOK, RequestOK, CountOK, ListOK, FlagOK
<1>3. CASE r.pc # "idle"
  <2>1. /\ q.pc = r.pc /\ q.by = r.by /\ q.scope = r.scope /\ q.target = r.target
        /\ q.on = r.on /\ q.read = r.read /\ q.always = r.always /\ q.ever = r.ever
        /\ q.other = r.other /\ q.rows = r.rows /\ q.moved = r.moved \cup moved
    BY <1>1, <1>3 DEF Request
  <2>2. CASE r.pc = "write"
    <3>1. FlagOK(desk[e])'
      BY <2>1, <2>2 DEF DeskOK, RequestOK, FlagOK, Present
    <3>. QED  BY <2>1, <2>2, <3>1 DEF DeskOK, RequestOK, CountOK, ListOK
  <2>3. CASE r.pc # "write"
    <3>1. \A x \in q.always \cup q.ever \cup Thing :
             x \in Present' \ q.moved =>
               x \in Present \ r.moved /\ ViewOf(x)' = ViewOf(x)
      BY <2>1, <2>3 DEF Present
    <3>2. CountOK(desk[e])'
      BY <2>1, <3>1 DEF DeskOK, RequestOK, CountOK, Steady, Present
    <3>3. ListOK(desk[e])'
      BY <2>1, <3>1 DEF DeskOK, RequestOK, ListOK, Steady, Present
    <3>4. FlagOK(desk[e])'
      BY <2>1, <2>3 DEF DeskOK, RequestOK, FlagOK, Present
    <3>. QED  BY <1>3, <2>1, <3>2, <3>3, <3>4 DEF DeskOK, RequestOK
  <2>. QED  BY <2>2, <2>3
<1>. QED  BY <1>2, <1>3

\* A step that only writes the state of one request.
LEMMA AloneInv ==
  ASSUME DashboardInv, NEW d \in Desk, NEW r \in Request, RequestOK(r), Put(d, r),
         UNCHANGED <<accounts, world>>
  PROVE  DashboardInv'
<1>1. AccountsInv'
  <2>1. AccountsTypeOK'
    BY DEF DashboardInv, AccountsInv, AccountsTypeOK, accounts, RoleIffLive, Live
  <2>2. ASSUME NEW s \in Session PROVE DeletionOK(s)'
    BY DEF DashboardInv, AccountsInv, DeletionOK, accounts, Live
  <2>. QED  BY <2>1, <2>2 DEF AccountsInv
<1>. QED  BY <1>1, PutInv DEF accounts

LEMMA PutNothingInv ==
  ASSUME DashboardInv, NEW d \in Desk, Put(d, Nothing), UNCHANGED <<accounts, world>>
  PROVE  DashboardInv'
  BY NothingOK, AloneInv

\* A developer asks.
LEMMA AskInv ==
  ASSUME DashboardInv, NEW d \in Desk, NEW u \in User,
         \/ \E scope \in Scope : AskOverview(d, u, scope)
         \/ \E x \in Thing, on \in BOOLEAN : AskFlag(d, u, x, on)
  PROVE  DashboardInv'
<1> DEFINE Started(r) == r.read = 0 /\ r.always = Thing /\ r.ever = {} /\ r.rows = {}
<1>0. Nothing \in Request /\ Started(Nothing)
  BY NothingOK DEF Nothing
<1>1. ASSUME NEW scope \in Scope, AskOverview(d, u, scope) PROVE DashboardInv'
  <2> DEFINE r == [Nothing EXCEPT !.pc = "role", !.by = u, !.scope = scope]
  <2>1. r \in Request /\ r.pc = "role" /\ r.by = u /\ Started(r)
    BY <1>0 DEF Request, Started
  <2> HIDE DEF r
  <2>2. RequestOK(r)
    BY <2>1 DEF Started, RequestOK, CountOK, ListOK, FlagOK
  <2>. QED  BY <1>1, <2>1, <2>2, AloneInv DEF AskOverview, r
<1>2. ASSUME NEW x \in Thing, NEW on \in BOOLEAN, AskFlag(d, u, x, on) PROVE DashboardInv'
  <2> DEFINE r == [Nothing EXCEPT !.pc = "role", !.by = u, !.target = x, !.on = on]
  <2>0. r \in Request /\ r.pc = "role" /\ r.by = u /\ Started(r)
    BY <1>0, <1>2 DEF Request, Started
  <2> HIDE DEF r
  <2>1. RequestOK(r)
    BY <2>0 DEF Started, RequestOK, CountOK, ListOK, FlagOK
  <2>2. AccountsTypeOK'
    BY <1>2, ChangeType
    DEF DashboardInv, AccountsInv, AccountsTypeOK, AskFlag, RoleIffLive, Live
  <2>3. ASSUME NEW s \in Session PROVE DeletionOK(s)'
    BY <1>2 DEF DashboardInv, AccountsInv, DeletionOK, AskFlag, Live
  <2>4. AccountsInv'
    BY <2>2, <2>3 DEF AccountsInv
  <2>. QED  BY <1>2, <2>0, <2>1, <2>4, PutInv DEF AskFlag, r
<1>. QED  BY <1>1, <1>2

\* The role is read: the request goes on, or ends.
LEMMA AdmitInv ==
  ASSUME DashboardInv, NEW d \in Desk,
         NEW pc \in {"overview", "exists", "listed"}, Admit(d, pc),
         [desk[d] EXCEPT !.pc = pc] \in Request => RequestOK([desk[d] EXCEPT !.pc = pc])
  PROVE  DashboardInv'
<1> DEFINE r == [desk[d] EXCEPT !.pc = pc]
<1>1. r \in Request
  BY DEF DashboardInv, DashboardTypeOK, Request
<1>2. RequestOK(r)
  BY <1>1
<1> HIDE DEF r
<1>3. CASE Put(d, r)
  BY <1>1, <1>2, <1>3, AloneInv DEF Admit
<1>4. CASE Put(d, Nothing)
  BY <1>4, PutNothingInv DEF Admit
<1>. QED  BY <1>3, <1>4 DEF Admit, r

LEMMA RequireRoleInv ==
  ASSUME DashboardInv, NEW d \in Desk, RequireRole(d)
  PROVE  DashboardInv'
<1>1. /\ desk[d] \in Request /\ desk[d].pc = "role"
      /\ RequestOK(desk[d])
  BY DEF DashboardInv, DashboardTypeOK, RequireRole, DeskOK
<1>2. CASE desk[d].target = NULL
  <2> DEFINE r == [desk[d] EXCEPT !.pc = "overview"]
  <2>1. RequestOK(r)
    BY <1>1, DevControlAssumption
    DEF Request, RequestOK, CountOK, ListOK, FlagOK, Steady, Present
  <2>. QED  BY <1>2, <2>1, AdmitInv DEF RequireRole
<1>3. CASE desk[d].target # NULL
  <2> DEFINE r == [desk[d] EXCEPT !.pc = "exists"]
  <2>1. RequestOK(r)
    BY <1>1, <1>3 DEF Request, RequestOK, CountOK, ListOK, FlagOK
  <2>. QED  BY <1>3, <2>1, AdmitInv DEF RequireRole
<1>. QED  BY <1>2, <1>3

\* A statement of the overview adds to what all of them and some of them
\* counted what the view is now.
LEMMA OverviewReadInv ==
  ASSUME DashboardInv, NEW d \in Desk, OverviewRead(d)
  PROVE  DashboardInv'
<1> DEFINE r == desk[d]
           V == View(r.scope)
           next == [r EXCEPT !.pc = IF r.read + 1 = Statements THEN "other" ELSE "overview",
                             !.read = @ + 1, !.always = @ \cap V, !.ever = @ \cup V]
<1>1. r \in Request /\ r.pc = "overview" /\ RequestOK(r)
  BY DEF DashboardInv, DashboardTypeOK, OverviewRead, DeskOK
<1>2. /\ V \subseteq Thing
      /\ \A x \in Thing : x \in V <=> ViewOf(x) = r.scope
  BY DEF View
<1> HIDE DEF V
<1>3. r.read \in Nat /\ r.read < Statements /\ Statements \in Nat
  BY <1>1, DevControlAssumption DEF Request, RequestOK, CountOK
<1>4. next \in Request
  <2>1. r.read + 1 \in 0..Statements
    BY <1>3
  <2>2. (r.always \cap V) \in SUBSET Thing /\ (r.ever \cup V) \in SUBSET Thing
    BY <1>1, <1>2 DEF Request
  <2>. QED  BY <1>1, <2>1, <2>2 DEF Request
<1>5. /\ next.pc = IF r.read + 1 = Statements THEN "other" ELSE "overview"
      /\ next.read = r.read + 1 /\ next.always = r.always \cap V
      /\ next.ever = r.ever \cup V /\ next.moved = r.moved /\ next.scope = r.scope
      /\ next.rows = r.rows /\ next.by = r.by
  BY <1>1 DEF Request
<1>6. Put(d, next) /\ UNCHANGED <<accounts, world>>
  BY DEF OverviewRead, V
<1> HIDE DEF next
<1>7. CountOK(next)
  <2>1. ASSUME NEW x \in Steady(next)
        PROVE  /\ x \in next.always <=> ViewOf(x) = next.scope
               /\ x \in next.ever <=> ViewOf(x) = next.scope
    <3>1. x \in Steady(r) /\ x \in Thing
      BY <1>5, <2>1 DEF Steady, Present
    <3>2. /\ x \in r.always <=> r.read = 0 \/ ViewOf(x) = r.scope
          /\ x \in r.ever <=> r.read > 0 /\ ViewOf(x) = r.scope
      BY <1>1, <3>1 DEF RequestOK, CountOK
    <3>. QED  BY <1>2, <1>5, <3>1, <3>2
  <2>. QED  BY <1>3, <1>5, <2>1 DEF CountOK
<1>8. RequestOK(next)
  BY <1>1, <1>5, <1>7 DEF RequestOK, ListOK, FlagOK
<1>. QED  BY <1>4, <1>6, <1>8, AloneInv

LEMMA OverviewOtherInv ==
  ASSUME DashboardInv, NEW d \in Desk, OverviewOther(d)
  PROVE  DashboardInv'
<1> DEFINE r == desk[d]
<1>1. r \in Request /\ r.pc = "other" /\ RequestOK(r)
  BY DEF DashboardInv, DashboardTypeOK, OverviewOther, DeskOK
<1>2. PICK scope \in Scope \ {r.scope} :
        Put(d, [r EXCEPT !.pc = "shown", !.other = View(scope)])
  BY DEF OverviewOther
<1> DEFINE next == [r EXCEPT !.pc = "shown", !.other = View(scope)]
<1>3. next \in Request
  BY <1>1 DEF Request, View
<1>4. /\ next.pc = "shown" /\ next.read = r.read /\ next.always = r.always
      /\ next.ever = r.ever /\ next.moved = r.moved /\ next.scope = r.scope
      /\ next.rows = r.rows /\ next.by = r.by /\ next.other = View(scope)
  BY <1>1 DEF Request
<1>5. \A x \in Steady(r) : x \in View(scope) <=> ViewOf(x) # r.scope
  <2> SUFFICES ASSUME NEW x \in Steady(r) PROVE x \in View(scope) <=> ViewOf(x) # r.scope
    OBVIOUS
  <2>1. x \in Thing /\ ViewOf(x) # "absent"
    BY DEF Steady, Present
  <2>2. ViewOf(x) \in {"live", "test"}
    BY <2>1, Views
  <2>3. r.scope \in {"live", "test"} /\ scope \in {"live", "test"} /\ scope # r.scope
    BY <1>1 DEF Request, Scope
  <2>. QED  BY <2>1, <2>2, <2>3 DEF View
<1> HIDE DEF next
<1>6. CountOK(next)
  BY <1>1, <1>4, <1>5 DEF RequestOK, CountOK, Steady
<1>7. RequestOK(next)
  BY <1>1, <1>4, <1>6 DEF RequestOK, ListOK, FlagOK
<1>. QED  BY <1>2, <1>3, <1>7, AloneInv DEF OverviewOther, next

\* The lists are asked for, and admitted, with what the overview counted.
LEMMA ListingInv ==
  ASSUME DashboardInv, NEW d \in Desk, AskLists(d) \/ ListsRole(d)
  PROVE  DashboardInv'
<1>1. /\ desk[d] \in Request /\ RequestOK(desk[d])
  BY DEF DashboardInv, DashboardTypeOK, DeskOK
<1>2. CASE AskLists(d)
  <2> DEFINE r == [desk[d] EXCEPT !.pc = "list_role"]
  <2>1. desk[d].pc = "shown" /\ desk[d].rows = {}
    BY <1>2 DEF AskLists
  <2>2. r \in Request /\ RequestOK(r)
    BY <1>1, <2>1 DEF Request, RequestOK, CountOK, ListOK, FlagOK, Steady
  <2> HIDE DEF r
  <2>. QED  BY <1>2, <2>2, AloneInv DEF AskLists, r
<1>3. CASE ListsRole(d)
  <2> DEFINE r == [desk[d] EXCEPT !.pc = "listed"]
  <2>1. desk[d].pc = "list_role"
    BY <1>3 DEF ListsRole
  <2>2. RequestOK(r)
    BY <1>1, <2>1 DEF Request, RequestOK, CountOK, ListOK, FlagOK, Steady
  <2>. QED  BY <1>3, <2>2, AdmitInv DEF ListsRole
<1>. QED  BY <1>2, <1>3

\* The lists hold the view as it is now, unless the list of users is full.
LEMMA ListsInv ==
  ASSUME DashboardInv, NEW d \in Desk, Lists(d)
  PROVE  DashboardInv'
<1> DEFINE r == desk[d]
           V == View(r.scope)
<1>1. r \in Request /\ r.pc = "listed" /\ RequestOK(r)
  BY DEF DashboardInv, DashboardTypeOK, Lists, DeskOK
<1>2. PICK page \in Pages(V \cap User) :
        Put(d, [r EXCEPT !.pc = "shown", !.rows = page \cup (V \cap Estate)])
  BY DEF Lists
<1>3. /\ page \subseteq V \cap User
      /\ page = V \cap User \/ Cardinality(page) = Limit
  BY <1>2 DEF Pages, kSubset
<1> DEFINE rows == page \cup (V \cap Estate)
           next == [r EXCEPT !.pc = "shown", !.rows = rows]
<1>4. V \subseteq Thing /\ \A x \in Thing : x \in V <=> ViewOf(x) = r.scope
  BY DEF View
<1> HIDE DEF V
<1>5. /\ rows \subseteq V /\ rows \cap User = page
      /\ page = V \cap User => rows = V
  BY <1>3, <1>4, DevControlAssumption DEF Thing
<1> HIDE DEF rows
<1>6. next \in Request
  BY <1>1, <1>4, <1>5 DEF Request
<1>7. /\ next.pc = "shown" /\ next.read = r.read /\ next.always = r.always
      /\ next.ever = r.ever /\ next.moved = r.moved /\ next.scope = r.scope
      /\ next.rows = rows /\ next.by = r.by /\ next.other = r.other
  BY <1>1 DEF Request
<1>8. ASSUME NEW x \in Steady(r)
      PROVE  \/ x \in rows <=> ViewOf(x) = r.scope
             \/ x \in User /\ Cardinality(rows \cap User) = Limit
  <2>1. x \in Thing
    BY DEF Steady, Present
  <2>2. CASE page = V \cap User
    BY <1>4, <1>5, <2>1, <2>2
  <2>3. CASE Cardinality(page) = Limit /\ x \in User
    BY <1>5, <2>3
  <2>4. CASE x \in Estate
    BY <1>3, <1>4, <1>5, <2>1, <2>4, DevControlAssumption DEF rows
  <2>. QED  BY <1>3, <2>1, <2>2, <2>3, <2>4 DEF Thing
<1> HIDE DEF next
<1>9. CountOK(next)
  BY <1>1, <1>7 DEF RequestOK, CountOK, Steady
<1>10. RequestOK(next)
  BY <1>1, <1>7, <1>8, <1>9 DEF RequestOK, ListOK, FlagOK, Steady
<1>. QED  BY <1>2, <1>6, <1>10, AloneInv DEF Lists, next, rows, V

\* The row to flag exists, or the request ends.
LEMMA FlagExistsInv ==
  ASSUME DashboardInv, NEW d \in Desk, FlagExists(d)
  PROVE  DashboardInv'
<1> DEFINE r == [desk[d] EXCEPT !.pc = "write", !.moved = {}]
<1>1. desk[d] \in Request /\ desk[d].pc = "exists" /\ RequestOK(desk[d])
  BY DEF DashboardInv, DashboardTypeOK, FlagExists, DeskOK
<1>2. CASE desk[d].target \in Present
  <2>1. r \in Request
    BY <1>1 DEF Request
  <2>2. RequestOK(r)
    BY <1>1, <1>2 DEF Request, RequestOK, CountOK, ListOK, FlagOK
  <2> HIDE DEF r
  <2>. QED  BY <1>2, <2>1, <2>2, AloneInv DEF FlagExists, r
<1>3. CASE desk[d].target \notin Present
  BY <1>3, PutNothingInv DEF FlagExists
<1>. QED  BY <1>2, <1>3

\* What is noticed is what changed: nothing else did.
LEMMA NoticedInv ==
  ASSUME DashboardInv, DashboardTypeOK', AccountsInv', NEW e \in Desk, NEW requests,
         requests[e] = desk[e], Notice(requests)
  PROVE  DeskOK(e)'
<1> DEFINE gone == {x \in Thing : ViewOf(x)' = "absent"}
           changed == {x \in Thing :
                          ViewOf(x)' # ViewOf(x) \/ (x \in flags') # (x \in flags)}
           moved == IF desk[e].pc = "write" THEN changed \cap gone ELSE changed
<1>1. desk'[e] = IF desk[e].pc = "idle" THEN desk[e]
                 ELSE [desk[e] EXCEPT !.moved = @ \cup moved]
  BY DEF Notice
<1>2. \A x \in Thing \ moved :
         IF desk[e].pc = "write" THEN x \in Present => ViewOf(x)' # "absent"
         ELSE ViewOf(x)' = ViewOf(x) /\ (x \in flags' <=> x \in flags)
  BY DEF Present
<1>3. moved \in SUBSET Thing
  OBVIOUS
<1>4. DeskOK(e)
  BY DEF DashboardInv
<1> HIDE DEF moved
<1>. QED  BY <1>1, <1>2, <1>3, <1>4, NoticeInv

\* The types of what a step makes requests notice.
LEMMA NoticeType ==
  ASSUME DashboardTypeOK, NEW requests \in [Desk -> Request], Notice(requests)
  PROVE  desk' \in [Desk -> Request]
<1> DEFINE gone == {x \in Thing : ViewOf(x)' = "absent"}
           changed == {x \in Thing :
                          ViewOf(x)' # ViewOf(x) \/ (x \in flags') # (x \in flags)}
<1>1. changed \in SUBSET Thing /\ changed \cap gone \in SUBSET Thing
  OBVIOUS
<1>2. desk' = [d \in Desk |->
                CASE desk[d].pc = "idle" -> requests[d]
                  [] desk[d].pc = "write" ->
                       [requests[d] EXCEPT !.moved = @ \cup (changed \cap gone)]
                  [] OTHER -> [requests[d] EXCEPT !.moved = @ \cup changed]]
  BY DEF Notice
<1> HIDE DEF gone, changed
<1>3. ASSUME NEW r \in Request, NEW S \in SUBSET Thing
      PROVE  [r EXCEPT !.moved = @ \cup S] \in Request
  BY DEF Request
<1>4. ASSUME NEW d \in Desk
      PROVE  (CASE desk[d].pc = "idle" -> requests[d]
                [] desk[d].pc = "write" ->
                     [requests[d] EXCEPT !.moved = @ \cup (changed \cap gone)]
                [] OTHER -> [requests[d] EXCEPT !.moved = @ \cup changed]) \in Request
  BY <1>1, <1>3
<1>. QED  BY <1>2, <1>4

LEMMA FlagWriteInv ==
  ASSUME DashboardInv, NEW d \in Desk, FlagWrite(d)
  PROVE  DashboardInv'
<1> DEFINE r == desk[d]
           asked == [desk EXCEPT ![d].pc = "after"]
<1>1. /\ r \in Request /\ r.pc = "write" /\ RequestOK(r)
      /\ DashboardTypeOK /\ desk \in [Desk -> Request]
  BY DEF DashboardInv, DashboardTypeOK, FlagWrite, DeskOK
<1>2. r.target \in Thing /\ r.target \in Present \cup r.moved
  BY <1>1 DEF RequestOK, FlagOK
<1>3. AccountsInv'
  <2>1. AccountsTypeOK'
    BY DEF DashboardInv, AccountsInv, AccountsTypeOK, accounts, RoleIffLive, Live, FlagWrite
  <2>2. ASSUME NEW s \in Session PROVE DeletionOK(s)'
    BY DEF DashboardInv, AccountsInv, DeletionOK, accounts, Live, FlagWrite
  <2>. QED  BY <2>1, <2>2 DEF AccountsInv
<1>4. asked \in [Desk -> Request]
  <2>1. [r EXCEPT !.pc = "after"] \in Request
    BY <1>1 DEF Request
  <2>. QED  BY <1>1, <2>1
<1>5. asked[d] = [r EXCEPT !.pc = "after"] /\ \A e \in Desk \ {d} : asked[e] = desk[e]
  BY <1>1
<1>6. Notice(asked)
  BY DEF FlagWrite
<1> HIDE DEF asked
<1>7. DashboardTypeOK'
  <2>1. desk' \in [Desk -> Request]
    BY <1>1, <1>4, <1>6, NoticeType
  <2>2. flags' \in SUBSET Thing
    BY <1>1, <1>2 DEF DashboardTypeOK, FlagWrite
  <2>. QED  BY <1>1, <1>3, <2>1, <2>2
       DEF AccountsInv, DashboardTypeOK, FlagWrite, accounts, Live
<1>8. DeskOK(d)'
  <2> DEFINE gone == {x \in Thing : ViewOf(x)' = "absent"}
             changed == {x \in Thing :
                            ViewOf(x)' # ViewOf(x) \/ (x \in flags') # (x \in flags)}
  <2>1. desk'[d] = [asked[d] EXCEPT !.moved = @ \cup (changed \cap gone)]
    BY <1>1, <1>6 DEF Notice
  <2> PICK x \in Thing : x = r.target
    BY <1>2
  <2>2. x \in Present => ViewOf(x)' # "absent" \/ x \in changed \cap gone
    BY DEF Present
  <2> HIDE DEF gone, changed
  <2>3. /\ desk'[d].pc = "after" /\ desk'[d].by = r.by /\ desk'[d].target = r.target
        /\ desk'[d].on = r.on /\ desk'[d].rows = r.rows
        /\ desk'[d].moved = r.moved \cup (changed \cap gone)
    BY <1>1, <1>5, <2>1 DEF Request
  <2>4. r.target \in flags' <=> r.on
    BY <1>1 DEF FlagWrite, Request
  <2>5. x \in desk'[d].moved \/ ViewOf(x)' # "absent"
    BY <1>2, <2>2, <2>3
  <2>6. FlagOK(desk[d])'
    BY <1>2, <2>3, <2>4, <2>5 DEF FlagOK, Present
  <2>. QED  BY <1>1, <2>3, <2>6 DEF DeskOK, RequestOK, CountOK, ListOK
<1>9. ASSUME NEW e \in Desk, e # d PROVE DeskOK(e)'
  BY <1>3, <1>5, <1>6, <1>7, <1>9, NoticedInv
<1>. QED  BY <1>3, <1>7, <1>8, <1>9 DEF DashboardInv

LEMMA DevelopInv ==
  ASSUME DashboardInv, NEW d \in Desk, Develop(d)
  PROVE  DashboardInv'
<1>1. CASE Leave(d) \/ FlagAnswer(d) \/ FlagLost(d)
  BY <1>1, PutNothingInv DEF Leave, FlagAnswer, FlagLost
<1>. QED  BY <1>1, AskInv, RequireRoleInv, OverviewReadInv, OverviewOtherInv, ListingInv,
             ListsInv, FlagExistsInv, FlagWriteInv DEF Develop

-----------------------------------------------------------------------------
(* What else happens.                                                      *)

\* A step that requests only notice keeps the invariant if it keeps the types
\* of accounts and of the rest of the world.
LEMMA MovedInv ==
  ASSUME DashboardInv, AccountsInv', Notice(desk),
         /\ estates' \in SUBSET Estate
         /\ demo' \in SUBSET Estate
         /\ estateOf' \in [User -> Estate \cup {NULL}]
         /\ \A u \in User : estateOf'[u] # NULL => account'[u] = "live" /\ estateOf'[u] \in estates'
         /\ flags' \in SUBSET Thing
  PROVE  DashboardInv'
<1>1. DashboardTypeOK /\ desk \in [Desk -> Request]
  BY DEF DashboardInv, DashboardTypeOK
<1>2. desk' \in [Desk -> Request]
  BY <1>1, NoticeType
<1>3. DashboardTypeOK'
  BY <1>2 DEF AccountsInv, DashboardTypeOK, Live
<1>4. ASSUME NEW e \in Desk PROVE DeskOK(e)'
  BY <1>3, NoticedInv
<1>. QED  BY <1>3, <1>4 DEF DashboardInv

LEMMA AccountsMoveInv == DashboardInv /\ AccountsMove => DashboardInv'
<1> SUFFICES ASSUME DashboardInv, AccountsMove PROVE DashboardInv'
  OBVIOUS
<1>1. AccountsInv'
  BY DeleteInv, OthersInv, SetRoleInv DEF DashboardInv, AccountsMove
<1>2. DashboardTypeOK
  BY DEF DashboardInv
<1>3. \A u \in User : estateOf'[u] = IF account'[u] = "live" THEN estateOf[u] ELSE NULL
  BY DEF AccountsMove
<1>4. estateOf' \in [User -> Estate \cup {NULL}]
  BY <1>2 DEF DashboardTypeOK, AccountsMove
<1>. QED  BY <1>1, <1>2, <1>3, <1>4, MovedInv DEF DashboardTypeOK, AccountsMove

LEMMA EstatesInv ==
  ASSUME DashboardInv,
         \/ \E u \in User, e \in Estate \cup {NULL} : (e = NULL \/ e \in estates) /\ Settle(u, e)
         \/ \E e \in Estate : Rename(e) \/ RemoveEstate(e)
  PROVE  DashboardInv'
<1>1. /\ DashboardTypeOK /\ AccountsTypeOK
      /\ Change /\ UNCHANGED <<account, role, referenced, deletion>> /\ Notice(desk)
  BY DEF DashboardInv, AccountsInv, Settle, Rename, RemoveEstate
<1>2. AccountsInv'
  <2>1. AccountsTypeOK'
    BY <1>1, ChangeType DEF AccountsTypeOK, RoleIffLive, Live
  <2>2. ASSUME NEW s \in Session PROVE DeletionOK(s)'
    BY <1>1 DEF DashboardInv, AccountsInv, DeletionOK, Live
  <2>. QED  BY <2>1, <2>2 DEF AccountsInv
<1>3. ASSUME NEW u \in User, NEW e \in Estate \cup {NULL}, e = NULL \/ e \in estates,
             Settle(u, e)
      PROVE  DashboardInv'
  <2>1. /\ estateOf' \in [User -> Estate \cup {NULL}]
        /\ \A v \in User : estateOf'[v] = IF v = u THEN e ELSE estateOf[v]
    BY <1>1, <1>3 DEF DashboardTypeOK, Settle
  <2>. QED  BY <1>1, <1>2, <1>3, <2>1, MovedInv DEF DashboardTypeOK, Settle, Live
<1>4. ASSUME NEW e \in Estate, Rename(e) PROVE DashboardInv'
  BY <1>1, <1>2, <1>4, MovedInv DEF DashboardTypeOK, Rename, Live
<1>5. ASSUME NEW e \in Estate, RemoveEstate(e) PROVE DashboardInv'
  <2>1. /\ estateOf' \in [User -> Estate \cup {NULL}]
        /\ \A v \in User : estateOf'[v] = IF estateOf[v] = e THEN NULL ELSE estateOf[v]
    BY <1>1, <1>5 DEF DashboardTypeOK, RemoveEstate
  <2>. QED  BY <1>1, <1>2, <1>5, <2>1, MovedInv DEF DashboardTypeOK, RemoveEstate, Live
<1>. QED  BY <1>3, <1>4, <1>5

LEMMA DashboardStutter == DashboardInv /\ UNCHANGED dashboard => DashboardInv'
<1> SUFFICES ASSUME DashboardInv, UNCHANGED dashboard PROVE DashboardInv'
  OBVIOUS
<1>1. UNCHANGED <<account, role, referenced, changes, deletion, world, estates, demo,
                  estateOf, flags, desk>>
  BY DEF dashboard, accounts, world
<1>2. AccountsInv'
  <2>1. AccountsTypeOK'
    BY <1>1 DEF DashboardInv, AccountsInv, AccountsTypeOK, RoleIffLive, Live
  <2>2. ASSUME NEW s \in Session PROVE DeletionOK(s)'
    BY <1>1 DEF DashboardInv, AccountsInv, DeletionOK, Live
  <2>. QED  BY <2>1, <2>2 DEF AccountsInv
<1>3. DashboardTypeOK'
  BY <1>1, <1>2 DEF AccountsInv, DashboardInv, DashboardTypeOK, Live
<1>4. ASSUME NEW e \in Desk PROVE DeskOK(e)'
  <2>1. DeskOK(e)
    BY DEF DashboardInv
  <2>. QED  BY <1>1, <2>1, ViewFrame
       DEF DeskOK, RequestOK, CountOK, ListOK, FlagOK, Steady
<1>. QED  BY <1>2, <1>3, <1>4 DEF DashboardInv

LEMMA DashboardStep == DashboardInv /\ [DashboardNext]_dashboard => DashboardInv'
  BY DevelopInv, AccountsMoveInv, EstatesInv, DashboardStutter DEF DashboardNext

LEMMA DashboardCorrect == DashboardSpec => []DashboardInv
  BY DashboardInitInv, DashboardStep, PTL DEF DashboardSpec

-----------------------------------------------------------------------------
\* Accounts, requests, flags and estates keep their types; an account has a
\* profile just as long as it lives, and nobody who is gone is in an estate.
THEOREM DashboardTypeCorrect == DashboardSpec => []DashboardTypeOK
<1>1. DashboardInv => DashboardTypeOK
  BY DEF DashboardInv
<1>. QED  BY DashboardCorrect, <1>1, PTL

\* For any number of users, estates, requests and statements: an overview
\* counts whoever keeps their view while it is read in all figures of its own
\* view, or else as one of the other view.
THEOREM CountedOnceCorrect == DashboardSpec => []CountedOnce
<1>1. DashboardInv => CountedOnce
  <2> SUFFICES ASSUME DashboardInv, NEW d \in Desk, desk[d].pc = "shown",
                      NEW x \in Present \ desk[d].moved
               PROVE  \/ x \in desk[d].always /\ x \notin desk[d].other
                      \/ x \notin desk[d].ever /\ x \in desk[d].other
    BY DEF CountedOnce
  <2> DEFINE r == desk[d]
  <2>1. CountOK(r) /\ r.read > 0 /\ r.read # 0
    BY DevControlAssumption DEF DashboardInv, DeskOK, RequestOK, CountOK
  <2>2. /\ x \in r.always <=> ViewOf(x) = r.scope
        /\ x \in r.ever <=> ViewOf(x) = r.scope
        /\ x \in r.other <=> ViewOf(x) # r.scope
    BY <2>1 DEF CountOK, Steady
  <2>. QED  BY <2>2
<1>. QED  BY DashboardCorrect, <1>1, PTL

\* ... and the lists show whom the overview counted, unless the list of users
\* is as long as it may be.
THEOREM ListsWhatItCountsCorrect == DashboardSpec => []ListsWhatItCounts
<1>1. DashboardInv => ListsWhatItCounts
  <2> SUFFICES ASSUME DashboardInv, NEW d \in Desk, desk[d].pc = "shown",
                      desk[d].rows # {}, NEW x \in Present \ desk[d].moved
               PROVE  \/ x \in desk[d].rows <=> x \in desk[d].always
                      \/ x \in User /\ Cardinality(desk[d].rows \cap User) = Limit
    BY DEF ListsWhatItCounts
  <2> DEFINE r == desk[d]
  <2>1. CountOK(r) /\ ListOK(r) /\ r.read # 0
    BY DevControlAssumption DEF DashboardInv, DeskOK, RequestOK, CountOK
  <2>2. x \in r.always <=> ViewOf(x) = r.scope
    BY <2>1 DEF CountOK, Steady
  <2>3. \/ x \in r.rows <=> ViewOf(x) = r.scope
        \/ x \in User /\ Cardinality(r.rows \cap User) = Limit
    BY <2>1 DEF ListOK, Steady
  <2>. QED  BY <2>2, <2>3
<1>. QED  BY DashboardCorrect, <1>1, PTL

\* set_flag answers with what it did, unless others moved the target since.
THEOREM AnswerIsCurrentCorrect == DashboardSpec => AnswerIsCurrent
<1> DEFINE Kept ==
      \A d \in Desk :
        LET x == desk[d].target
        IN /\ FlagLost(d) => x \in desk[d].moved
           /\ FlagAnswer(d) /\ x \notin desk[d].moved =>
                IF desk[d].on THEN Source(x) # NULL
                ELSE \/ Source(x) \in {NULL, "rule"}
                     \/ x \in User /\ estateOf[x] \in ByFlag
<1>1. ASSUME DashboardInv, NEW d \in Desk, FlagLost(d)
      PROVE  desk[d].target \in desk[d].moved
  BY <1>1 DEF DashboardInv, DeskOK, RequestOK, FlagOK, FlagLost
<1>2. ASSUME DashboardInv, NEW d \in Desk, FlagAnswer(d),
             desk[d].target \notin desk[d].moved
      PROVE  IF desk[d].on THEN Source(desk[d].target) # NULL
             ELSE \/ Source(desk[d].target) \in {NULL, "rule"}
                  \/ desk[d].target \in User /\ estateOf[desk[d].target] \in ByFlag
  <2> PICK x : x = desk[d].target
    OBVIOUS
  <2>1. x \in Thing /\ x \in Present /\ (x \in flags <=> desk[d].on)
    BY <1>2 DEF DashboardInv, DeskOK, RequestOK, FlagOK, FlagAnswer
  <2>2. CASE desk[d].on
    <3>1. ViewOf(x) = "test"
      BY <2>1, <2>2, Views
    <3>2. Source(x) # NULL
      BY <2>1, <3>1, Reasons, DevControlAssumption
    <3>. QED  BY <2>2, <3>2
  <2>3. CASE ~desk[d].on
    BY <2>1, <2>3, Reasons
  <2>. QED  BY <2>2, <2>3
<1>3. DashboardInv => [Kept]_dashboard
  BY <1>1, <1>2
<1>. QED  BY <1>3, DashboardCorrect, PTL DEF AnswerIsCurrent

\* A client that is told its account is deleted is told the truth, and one that
\* tries again for an account that is gone already is told that the deletion
\* failed only if the Admin API itself fails that time.
THEOREM DeletionAnswersTrueCorrect == DashboardSpec => DeletionAnswersTrue
<1> DEFINE Kept == \A s \in Session : /\ Succeed(s) => ~Live(deletion[s].by)
                                      /\ Fail(s) /\ deletion[s].gone =>
                                           deletion[s].status = "error"
<1>1. ASSUME DashboardInv, NEW s \in Session
      PROVE  /\ Succeed(s) => ~Live(deletion[s].by)
             /\ Fail(s) /\ deletion[s].gone => deletion[s].status = "error"
  BY <1>1 DEF DashboardInv, AccountsInv, DeletionOK, Succeed, Fail, Deleting, Done
<1>2. DashboardInv => [Kept]_accounts
  BY <1>1
<1>. QED  BY <1>2, DashboardCorrect, PTL DEF DeletionAnswersTrue

\* Staff do not delete themselves.
THEOREM StaffStayCorrect == DashboardSpec => StaffStay
<1> DEFINE Kept ==
      \A u \in User :
        role[u] \in StaffRoles /\ account'[u] = "gone" =>
          \/ Remove(u)
          \/ \E s \in Session : deletion[s].by = u /\ deletion[s].moved
<1>1. ASSUME DashboardInv, DashboardNext, NEW u \in User,
             role[u] \in StaffRoles, account'[u] = "gone"
      PROVE  \/ Remove(u)
             \/ \E s \in Session : deletion[s].by = u /\ deletion[s].moved
  <2>1. account[u] # "gone" /\ AccountsTypeOK
    BY <1>1, NotStaff DEF DashboardInv, AccountsInv, AccountsTypeOK, RoleIffLive, Live
  <2>2. ASSUME NEW v \in User, Erase(v) PROVE v = u
    BY <1>1, <2>1, <2>2 DEF AccountsTypeOK, Erase
  <2>3. ASSUME NEW s \in Session, Delete(s)
        PROVE  deletion[s].by = u /\ deletion[s].moved
    <3>1. DeletionOK(s)
      BY <1>1 DEF DashboardInv, AccountsInv
    <3>2. AdminDeletes(s) \/ AdminErrs(s) \/ AdminTimesOut(s)
      BY <1>1, <2>1, <2>3
      DEF Delete, DeleteBegin, DeleteRole, AdminMissing, Succeed, Fail
    <3>3. Deleting(s, "admin_api") /\ Erase(deletion[s].by)
      BY <1>1, <2>1, <3>2 DEF AdminDeletes, AdminErrs, AdminTimesOut, MayErase
    <3>4. deletion[s].by \in User
          /\ (deletion[s].moved \/ role[deletion[s].by] \notin StaffRoles)
      BY <3>1, <3>3 DEF DeletionOK, Deleting
    <3>. QED  BY <1>1, <2>2, <3>3, <3>4
  <2>4. ASSUME NEW v \in User, SignUp(v) \/ Refer(v) \/ Remove(v) PROVE Remove(u)
    BY <1>1, <2>1, <2>2, <2>4 DEF SignUp, Refer, Remove, AccountsTypeOK
  <2>5. AccountsMove
    BY <1>1, <2>1
    DEF DashboardNext, Develop, AskOverview, AskFlag, RequireRole, OverviewRead,
        OverviewOther, AskLists, ListsRole, Admit, Lists, Leave, FlagExists, FlagWrite,
        FlagAnswer, FlagLost, Settle, Rename, RemoveEstate, accounts
  <2>6. ASSUME NEW v \in User, NEW r \in Role, SetRole(v, r) PROVE FALSE
    BY <1>1, <2>1, <2>6 DEF SetRole
  <2>. QED  BY <2>3, <2>4, <2>5, <2>6 DEF AccountsMove
<1>2. DashboardInv /\ UNCHANGED dashboard => UNCHANGED accounts
  BY DEF dashboard
<1>3. DashboardInv /\ [DashboardNext]_dashboard => [Kept]_accounts
  BY <1>1, <1>2
<1>. QED  BY <1>3, DashboardCorrect, PTL DEF DashboardSpec, StaffStay
=============================================================================
