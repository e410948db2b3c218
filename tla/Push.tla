-------------------------------- MODULE Push --------------------------------
(***************************************************************************)
(* Getting notifications onto phones.  A statement that inserts            *)
(* notifications is an event; its trigger queues one request to the API,   *)
(* except for emergencies, which the client that posted them broadcasts    *)
(* itself.  A thread of the API reads the tokens of the recipients, hands  *)
(* the messages to Expo in chunks and deletes the tokens Expo calls dead.  *)
(* Meanwhile people sign in on devices, whose tokens then become theirs.   *)
(*                                                                         *)
(* Nothing is retried: a request that pg_net or a dying worker loses is    *)
(* lost.  What a message says is abstracted to whether it is within the    *)
(* limits of the API's schema, and its estate to the only one there is.    *)
(***************************************************************************)
EXTENDS Naturals, SequencesExt

CONSTANTS
  Session,      \* calls of register_push_token in progress
  Worker,       \* threads of the API that handle requests
  Profile,      \* the people of the estate
  Token,        \* push tokens: each identifies a device
  Event,        \* statements that insert notifications
  ChunkSize,    \* _CHUNK_SIZE: messages per request to Expo
  NULL

Endpoint == {"notify_batch", "broadcast"}

EventRow == [to: SUBSET Profile, emergency: BOOLEAN,
             fits: BOOLEAN]      \* title and body within 120 and 500 characters

Job == [event: Event, via: Endpoint,
        msgs: Seq(Token),        \* the messages, by the token they go to
        at: Nat,                 \* how many of them earlier chunks took
        dead: SUBSET Token]      \* dead_tokens

Call == [pc: {"delete", "wait", "insert"}, by: Profile, token: Token,
         rivals: SUBSET Profile] \* history: who else got the token meanwhile

ASSUME PushAssumption ==
  /\ ChunkSize \in Nat \ {0}
  /\ NULL \notin Session \cup Worker \cup Profile \cup Token
  /\ NULL \notin EventRow \cup Job \cup Call
  /\ IsFiniteSet(Token)

VARIABLES
  owner,        \* push_tokens.profile_id by token, which is unique
  lock,         \* the session whose uncommitted DELETE holds the row
  gone,         \* Expo answers DeviceNotRegistered for this token, for ever
  event,        \* whom the notifications of a statement are for, and of what kind
  request,      \* the request of an event to each endpoint
  posted,       \* how often a message about an event was handed to Expo
  job,          \* what each thread is sending
  call          \* what each session is registering

tokenVars == <<owner, lock>>
sendVars == <<request, posted, job>>
vars == <<tokenVars, gone, event, sendVars, call>>

-----------------------------------------------------------------------------
TypeOK ==
  /\ owner \in [Token -> Profile \cup {NULL}]
  /\ lock \in [Token -> Session \cup {NULL}]
  /\ gone \in [Token -> BOOLEAN]
  /\ event \in [Event -> EventRow \cup {NULL}]
  /\ request \in [Event -> [Endpoint -> {"none", "queued", "sending", "done",
                                         "refused", "lost"}]]
  /\ posted \in [Event -> [Token -> Nat]]
  /\ job \in [Worker -> Job \cup {NULL}]
  /\ call \in [Session -> Call \cup {NULL}]

Init ==
  /\ owner = [t \in Token |-> NULL]
  /\ lock = [t \in Token |-> NULL]
  /\ gone = [t \in Token |-> FALSE]
  /\ event = [e \in Event |-> NULL]
  /\ request = [e \in Event |-> [n \in Endpoint |-> "none"]]
  /\ posted = [e \in Event |-> [t \in Token |-> 0]]
  /\ job = [w \in Worker |-> NULL]
  /\ call = [s \in Session |-> NULL]

-----------------------------------------------------------------------------
\* Devices.  register_push_token deletes the row of whoever had the token, then
\* inserts one for the caller unless the token has a row again.
At(s, pc) == call[s] # NULL /\ call[s].pc = pc

Register(s, p, t) ==
  /\ call[s] = NULL
  /\ call' = [call EXCEPT ![s] = [pc |-> "delete", by |-> p, token |-> t, rivals |-> {}]]
  /\ UNCHANGED <<tokenVars, gone, event, sendVars>>

\* Mutant: the row is left to the upsert.
RegisterKeep(s) ==
  /\ At(s, "delete")
  /\ call' = [call EXCEPT ![s].pc = "insert"]
  /\ UNCHANGED <<tokenVars, gone, event, sendVars>>

\* The DELETE waits for another transaction that is deleting the row it sees.
RegisterDelete(s) ==
  LET t == call[s].token
      others == owner[t] \notin {call[s].by, NULL}
  IN
  /\ At(s, "delete")
  /\ IF others /\ lock[t] # NULL
     THEN call' = [call EXCEPT ![s].pc = "wait"] /\ UNCHANGED lock
     ELSE /\ call' = [call EXCEPT ![s].pc = "insert"]
          /\ lock' = IF others THEN [lock EXCEPT ![t] = s] ELSE lock
  /\ UNCHANGED <<owner, gone, event, sendVars>>

\* p has got token t.  A DELETE that waited finds the row gone, and does not
\* see the one that took its place.
Overtaken(t, p, s) ==
  [x \in Session |->
     IF x = s THEN NULL
     ELSE IF call[x] = NULL \/ call[x].token # t THEN call[x]
     ELSE [call[x] EXCEPT !.rivals = @ \cup {p},
                          !.pc = IF @ = "wait" THEN "insert" ELSE @]]

\* The INSERT waits for a transaction that is deleting the row in its way.  On
\* conflict it updates the platform and leaves the owner alone.
RegisterInsert(s) ==
  LET c == call[s]
      t == c.token
  IN
  /\ At(s, "insert")
  /\ lock[t] \in {s, NULL}
  /\ IF lock[t] = s \/ owner[t] = NULL
     THEN /\ owner' = [owner EXCEPT ![t] = c.by]
          /\ call' = Overtaken(t, c.by, s)
     ELSE call' = [call EXCEPT ![s] = NULL] /\ UNCHANGED owner
  /\ lock' = [lock EXCEPT ![t] = NULL]
  /\ UNCHANGED <<gone, event, sendVars>>

\* The call fails; whoever waited for its lock deletes the row after all.
Rollback(s) ==
  LET t == call[s].token
  IN
  /\ call[s] # NULL
  /\ lock' = [x \in Token |-> IF lock[x] = s THEN NULL ELSE lock[x]]
  /\ call' = [x \in Session |->
                IF x = s THEN NULL
                ELSE IF lock[t] = s /\ At(x, "wait") /\ call[x].token = t
                     THEN [call[x] EXCEPT !.pc = "delete"]
                ELSE call[x]]
  /\ UNCHANGED <<owner, gone, event, sendVars>>

\* Under push_tokens_owner_all a client also upserts and deletes a row itself,
\* if nobody else has the token.
UpsertOwn(p, t) ==
  /\ lock[t] = NULL /\ owner[t] = NULL
  /\ owner' = [owner EXCEPT ![t] = p]
  /\ call' = Overtaken(t, p, NULL)
  /\ UNCHANGED <<lock, gone, event, sendVars>>

DeleteOwn(t) ==
  /\ lock[t] = NULL /\ owner[t] # NULL
  /\ owner' = [owner EXCEPT ![t] = NULL]
  /\ UNCHANGED <<lock, gone, event, sendVars, call>>

\* The app is uninstalled: Expo never accepts the token again.
DeviceGone(t) ==
  /\ gone' = [gone EXCEPT ![t] = TRUE]
  /\ UNCHANGED <<tokenVars, event, sendVars, call>>

-----------------------------------------------------------------------------
\* Requests.
SetRequest(e, n, st) == request' = [request EXCEPT ![e][n] = st]

\* Mutant: emergencies are not left out.
InsertAndAlwaysPush(e, row) ==
  /\ event[e] = NULL
  /\ event' = [event EXCEPT ![e] = row]
  /\ SetRequest(e, "notify_batch", "queued")
  /\ UNCHANGED <<tokenVars, gone, posted, job, call>>

\* push_notify_on_insert_batch: one request for the rows of a statement that
\* are not emergencies, none if there are none.
InsertNotifications(e, row) ==
  /\ event[e] = NULL
  /\ event' = [event EXCEPT ![e] = row]
  /\ IF row.emergency \/ row.to = {}
     THEN UNCHANGED request
     ELSE SetRequest(e, "notify_batch", "queued")
  /\ UNCHANGED <<tokenVars, gone, posted, job, call>>

\* Whoever posted an emergency calls /alerts/broadcast next, once.
CallBroadcast(e) ==
  /\ event[e] # NULL /\ event[e].emergency
  /\ request[e]["broadcast"] = "none"
  /\ SetRequest(e, "broadcast", "queued")
  /\ UNCHANGED <<tokenVars, gone, event, posted, job, call>>

\* A full queue, a timeout or an API that is down.
LoseRequest(e, n) ==
  /\ request[e][n] = "queued"
  /\ SetRequest(e, n, "lost")
  /\ UNCHANGED <<tokenVars, gone, event, posted, job, call>>

\* The schema of the request turns down all of it for one text that is too long.
Refuse(e, n) ==
  /\ request[e][n] = "queued" /\ ~event[e].fits
  /\ SetRequest(e, n, "refused")
  /\ UNCHANGED <<tokenVars, gone, event, posted, job, call>>

\* The devices a handler reads: those of the recipients, or all of the estate
\* but the one the emergency was posted from.
Devices(e, n, poster) ==
  IF n = "notify_batch" THEN {t \in Token : owner[t] \in event[e].to}
  ELSE {t \in Token : owner[t] # NULL} \ poster

Handle(w, e, n) ==
  /\ job[w] = NULL
  /\ request[e][n] = "queued" /\ event[e].fits
  /\ SetRequest(e, n, "sending")
  /\ \E poster \in {{}} \cup {{t} : t \in Token} :
       \E msgs \in SetToSeqs(Devices(e, n, poster)) :
         job' = [job EXCEPT ![w] = [event |-> e, via |-> n, msgs |-> msgs,
                                    at |-> 0, dead |-> {}]]
  /\ UNCHANGED <<tokenVars, gone, event, posted, call>>

-----------------------------------------------------------------------------
\* send_push_messages.
Sending(w) == job[w] # NULL /\ job[w].at < Len(job[w].msgs)
Sent(w) == job[w] # NULL /\ job[w].at >= Len(job[w].msgs)

\* The positions of the next chunk.
ChunkEnd(j) ==
  IF j.at + ChunkSize < Len(j.msgs) THEN j.at + ChunkSize ELSE Len(j.msgs)
Chunk(j) == (j.at + 1)..ChunkEnd(j)

\* Mutant: tickets are matched with the messages from the first one on.
ReportedFromFirst(j) == {j.msgs[i - j.at] : i \in {k \in Chunk(j) : gone[j.msgs[k]]}}

\* The tokens of a chunk whose tickets say DeviceNotRegistered.
Reported(j) == {j.msgs[i] : i \in {k \in Chunk(j) : gone[j.msgs[k]]}}

\* A chunk is handed to Expo.
Post(j) ==
  posted' = [posted EXCEPT ![j.event] =
    [t \in Token |-> @[t] + Cardinality({i \in Chunk(j) : j.msgs[i] = t})]]

\* Mutant: the first chunk that fails ends the sending.
ChunkFailsForGood(w) ==
  LET j == job[w]
  IN
  /\ Sending(w)
  /\ Post(j)
  /\ job' = [job EXCEPT ![w].at = Len(j.msgs)]
  /\ UNCHANGED <<tokenVars, gone, event, request, call>>

\* No answer, or not one that can be read: on with the next chunk.
ChunkFails(w) ==
  LET j == job[w]
  IN
  /\ Sending(w)
  /\ Post(j)
  /\ job' = [job EXCEPT ![w].at = ChunkEnd(j)]
  /\ UNCHANGED <<tokenVars, gone, event, request, call>>

ChunkAnswered(w) ==
  LET j == job[w]
  IN
  /\ Sending(w)
  /\ Post(j)
  /\ job' = [job EXCEPT ![w].at = ChunkEnd(j), ![w].dead = @ \cup Reported(j)]
  /\ UNCHANGED <<tokenVars, gone, event, request, call>>

\* The dead tokens are deleted, whoever has them by now, and the request is
\* answered.
Prune(w) ==
  LET j == job[w]
  IN
  /\ Sent(w)
  /\ \A t \in j.dead : lock[t] = NULL
  /\ owner' = [t \in Token |-> IF t \in j.dead THEN NULL ELSE owner[t]]
  /\ job' = [job EXCEPT ![w] = NULL]
  /\ SetRequest(j.event, j.via, "done")
  /\ UNCHANGED <<lock, gone, event, posted, call>>

\* The process of the thread dies, or the handler raises.
Crash(w) ==
  /\ job[w] # NULL
  /\ job' = [job EXCEPT ![w] = NULL]
  /\ SetRequest(job[w].event, job[w].via, "lost")
  /\ UNCHANGED <<tokenVars, gone, event, posted, call>>

-----------------------------------------------------------------------------
Device ==
  \/ \E s \in Session : \/ \E p \in Profile, t \in Token : Register(s, p, t)
                        \/ RegisterDelete(s) \/ RegisterInsert(s) \/ Rollback(s)
  \/ \E t \in Token : \/ \E p \in Profile : UpsertOwn(p, t)
                      \/ DeleteOwn(t)
                      \/ DeviceGone(t)

Delivery ==
  \/ \E e \in Event : \/ \E row \in EventRow : InsertNotifications(e, row)
                      \/ CallBroadcast(e)
                      \/ \E n \in Endpoint : \/ LoseRequest(e, n)
                                             \/ Refuse(e, n)
                                             \/ \E w \in Worker : Handle(w, e, n)
  \/ \E w \in Worker : ChunkFails(w) \/ ChunkAnswered(w) \/ Prune(w) \/ Crash(w)

Next == Device \/ Delivery

Spec == Init /\ [][Next]_vars

-----------------------------------------------------------------------------
\* An event goes one way; a message of a job is posted once its chunk was, and
\* one job sends an event; whoever is about to register a token has deleted it,
\* or found it to be his, nobody's or a rival's.
EventOK(e) ==
  /\ request[e]["notify_batch"] # "none" => event[e] # NULL /\ ~event[e].emergency
  /\ request[e]["broadcast"] # "none" => event[e] # NULL /\ event[e].emergency
  /\ (\A n \in Endpoint : request[e][n] \in {"none", "queued"}) =>
       \A t \in Token : posted[e][t] = 0
  /\ \A t \in Token : posted[e][t] <= 1

JobOK(w) ==
  LET j == job[w]
  IN
  j # NULL =>
    /\ request[j.event][j.via] = "sending"
    /\ \A x \in Worker : job[x] # NULL /\ job[x].event = j.event => x = w
    /\ j.at <= Len(j.msgs)
    /\ \A i, k \in DOMAIN j.msgs : j.msgs[i] = j.msgs[k] => i = k
    /\ \A t \in j.dead : gone[t]
    /\ \A t \in Token :
         posted[j.event][t] = IF \E i \in 1..j.at : j.msgs[i] = t THEN 1 ELSE 0

CallOK(s) ==
  LET c == call[s]
  IN  At(s, "insert") => \/ lock[c.token] = s
                         \/ owner[c.token] \in {c.by, NULL} \cup c.rivals

PushInv ==
  /\ TypeOK
  /\ \A e \in Event : EventOK(e)
  /\ \A w \in Worker : JobOK(w)
  /\ \A s \in Session : CallOK(s)

\* No device is pushed the same event twice: not by two chunks, not by the
\* trigger and the broadcast of an emergency both.
PushedOnce ==
  \A e \in Event, t \in Token : posted[e][t] <= 1

\* When a handler is through, every device it read was tried, although chunks
\* on the way failed.
EveryDeviceTried ==
  \A w \in Worker :
    Sent(w) => \A i \in DOMAIN job[w].msgs : posted[job[w].event][job[w].msgs[i]] > 0

\* Pruning deletes the tokens Expo called dead and no other, whatever was
\* registered between the answer and the deletion.
PrunesOnlyDead ==
  [][\A w \in Worker, t \in Token :
       Prune(w) /\ owner'[t] # owner[t] => gone[t]]_vars

\* "This token is mine now": when register_push_token returns, the token is the
\* caller's, or that of somebody who got it during the call.
RegisteredIsMine ==
  [][\A s \in Session :
       RegisterInsert(s) =>
         owner'[call[s].token] \in {call[s].by} \cup call[s].rivals]_vars
=============================================================================
