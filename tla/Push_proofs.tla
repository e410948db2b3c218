----------------------------- MODULE Push_proofs -----------------------------
(***************************************************************************)
(* Proofs about Push: for any number of devices, threads and events and    *)
(* any size of chunks, nobody is pushed the same event twice, no device is *)
(* skipped and only dead tokens are pruned.                                *)
(***************************************************************************)
EXTENDS Push, FiniteSetTheorems, TLAPS

-----------------------------------------------------------------------------
(* Devices: what happens to tokens leaves requests alone.                  *)

LEMMA DeviceFrame ==
  ASSUME PushInv, TypeOK', UNCHANGED <<event, sendVars>>,
         \A t \in Token : gone[t] => gone'[t],
         \A s \in Session : CallOK(s)'
  PROVE  PushInv'
<1>1. \A e \in Event : EventOK(e)'
  BY DEF PushInv, EventOK, sendVars
<1>2. ASSUME NEW w \in Worker PROVE JobOK(w)'
  <2>1. job[w] # NULL => job[w].dead \subseteq Token
    BY DEF PushInv, TypeOK, Job
  <2>. QED  BY <2>1 DEF PushInv, JobOK, sendVars
<1>. QED  BY <1>1, <1>2 DEF PushInv

\* A call of one session changes, and no token.
LEMMA SetCall ==
  ASSUME TypeOK, NEW s \in Session, NEW c \in Call \cup {NULL},
         call' = [call EXCEPT ![s] = c]
  PROVE  /\ call' \in [Session -> Call \cup {NULL}] /\ call'[s] = c
         /\ \A x \in Session \ {s} : call'[x] = call[x]
  BY DEF TypeOK

LEMMA SetPc ==
  ASSUME TypeOK, NEW s \in Session, call[s] # NULL, NEW pc \in {"delete", "wait", "insert"},
         call' = [call EXCEPT ![s].pc = pc]
  PROVE  /\ call' \in [Session -> Call \cup {NULL}]
         /\ call'[s] \in Call /\ call'[s].pc = pc
         /\ call'[s].by = call[s].by /\ call'[s].token = call[s].token
         /\ call'[s].rivals = call[s].rivals
         /\ \A x \in Session \ {s} : call'[x] = call[x]
<1>1. call[s] \in Call
  BY DEF TypeOK
<1>2. PICK c : c = [call[s] EXCEPT !.pc = pc]
  OBVIOUS
<1>3. /\ c \in Call /\ c.pc = pc /\ c.by = call[s].by /\ c.token = call[s].token
      /\ c.rivals = call[s].rivals
  BY <1>1, <1>2 DEF Call
<1>4. call' = [call EXCEPT ![s] = c]
  BY <1>2
<1>. QED  BY <1>3, <1>4, SetCall

\* p gets token t in a call of s, or in no call.
LEMMA OvertakenType ==
  ASSUME TypeOK, NEW t \in Token, NEW p \in Profile, NEW s,
         call' = Overtaken(t, p, s)
  PROVE  /\ call' \in [Session -> Call \cup {NULL}]
         /\ \A x \in Session : call'[x] # NULL =>
              /\ x # s /\ call[x] # NULL
              /\ call'[x].by = call[x].by /\ call'[x].token = call[x].token
              /\ call[x].token = t => p \in call'[x].rivals
              /\ call[x].token # t => call'[x] = call[x]
<1>1. ASSUME NEW x \in Session, call'[x] # NULL
      PROVE  /\ call'[x] \in Call
             /\ x # s /\ call[x] # NULL
             /\ call'[x].by = call[x].by /\ call'[x].token = call[x].token
             /\ call[x].token = t => p \in call'[x].rivals
             /\ call[x].token # t => call'[x] = call[x]
  <2>1. call'[x] = IF x = s THEN NULL
                   ELSE IF call[x] = NULL \/ call[x].token # t THEN call[x]
                   ELSE [call[x] EXCEPT !.rivals = @ \cup {p},
                                        !.pc = IF @ = "wait" THEN "insert" ELSE @]
    BY DEF Overtaken
  <2>2. x # s /\ call[x] # NULL
    BY <1>1, <2>1
  <2>3. call[x] \in Call
    BY <2>2 DEF TypeOK
  <2>4. CASE call[x].token # t
    BY <2>1, <2>2, <2>3, <2>4
  <2>5. CASE call[x].token = t
    <3>1. PICK pc : pc = IF call[x].pc = "wait" THEN "insert" ELSE call[x].pc
      OBVIOUS
    <3>2. pc \in {"delete", "wait", "insert"}
      BY <2>3, <3>1 DEF Call
    <3>. PICK r : r = call[x].rivals \cup {p}
      OBVIOUS
    <3>3. r \in SUBSET Profile /\ p \in r
      BY <2>3 DEF Call
    <3>4. call'[x] = [call[x] EXCEPT !.rivals = r, !.pc = pc]
      BY <2>1, <2>2, <2>5, <3>1
    <3>5. /\ call'[x] \in Call /\ call'[x].by = call[x].by
          /\ call'[x].token = call[x].token /\ p \in call'[x].rivals
      BY <2>3, <3>2, <3>3, <3>4 DEF Call
    <3>. QED  BY <2>2, <2>5, <3>5
  <2>. QED  BY <2>4, <2>5
<1>2. call' = [x \in Session |-> call'[x]]
  BY DEF Overtaken
<1>. QED  BY <1>1, <1>2

LEMMA RegisterStep ==
  ASSUME PushInv, NEW s \in Session, NEW p \in Profile, NEW t \in Token, Register(s, p, t)
  PROVE  PushInv'
<1>1. PICK c : c = [pc |-> "delete", by |-> p, token |-> t, rivals |-> {}]
  OBVIOUS
<1>2. c \in Call /\ c.pc = "delete"
  BY <1>1 DEF Call
<1>3. /\ TypeOK /\ call' = [call EXCEPT ![s] = c]
      /\ UNCHANGED <<owner, lock, gone, event, sendVars>>
  BY <1>1 DEF Register, PushInv, tokenVars
<1>4. /\ call' \in [Session -> Call \cup {NULL}] /\ call'[s] = c
      /\ \A x \in Session \ {s} : call'[x] = call[x]
  BY <1>2, <1>3, SetCall
<1>5. TypeOK'
  BY <1>3, <1>4 DEF TypeOK, sendVars
<1>6. \A x \in Session : CallOK(x)'
  BY <1>2, <1>3, <1>4 DEF PushInv, CallOK, At
<1>. QED  BY <1>3, <1>5, <1>6, DeviceFrame

LEMMA DeleteStep ==
  ASSUME PushInv, NEW s \in Session, RegisterDelete(s)
  PROVE  PushInv'
<1>0. PICK t \in Token : t = call[s].token
  BY DEF RegisterDelete, At, PushInv, TypeOK, Call
<1>1. /\ TypeOK /\ call[s] # NULL
      /\ \/ call' = [call EXCEPT ![s].pc = "wait"] /\ UNCHANGED lock
         \/ /\ call' = [call EXCEPT ![s].pc = "insert"]
            /\ \/ owner[t] \notin {call[s].by, NULL} /\ lock[t] = NULL
                  /\ lock' = [lock EXCEPT ![t] = s]
               \/ owner[t] \in {call[s].by, NULL} /\ UNCHANGED lock
      /\ UNCHANGED <<owner, gone, event, sendVars>>
  BY <1>0 DEF RegisterDelete, At, PushInv
<1>2. CASE call' = [call EXCEPT ![s].pc = "wait"] /\ UNCHANGED lock
  <2>1. /\ call' \in [Session -> Call \cup {NULL}] /\ call'[s].pc = "wait"
        /\ \A x \in Session \ {s} : call'[x] = call[x]
    BY <1>1, <1>2, SetPc
  <2>2. TypeOK'
    BY <1>1, <1>2, <2>1 DEF TypeOK, sendVars
  <2>3. \A x \in Session : CallOK(x)'
    BY <1>1, <1>2, <2>1 DEF PushInv, CallOK, At
  <2>. QED  BY <1>1, <2>2, <2>3, DeviceFrame
<1>3. CASE /\ call' = [call EXCEPT ![s].pc = "insert"]
           /\ \/ owner[t] \notin {call[s].by, NULL} /\ lock[t] = NULL
                 /\ lock' = [lock EXCEPT ![t] = s]
              \/ owner[t] \in {call[s].by, NULL} /\ UNCHANGED lock
  <2>1. /\ call' \in [Session -> Call \cup {NULL}] /\ call'[s].pc = "insert"
        /\ call'[s].by = call[s].by /\ call'[s].token = t
        /\ \A x \in Session \ {s} : call'[x] = call[x]
    BY <1>0, <1>1, <1>3, SetPc
  <2>2. lock' \in [Token -> Session \cup {NULL}]
    BY <1>1, <1>3 DEF TypeOK
  <2>3. TypeOK'
    BY <1>1, <2>1, <2>2 DEF TypeOK, sendVars
  <2>4. \A x \in Token : lock[x] # NULL => lock'[x] = lock[x]
    BY <1>1, <1>3 DEF TypeOK
  <2>5. CallOK(s)'
    BY <1>1, <1>3, <2>1 DEF CallOK, At, TypeOK
  <2>6. ASSUME NEW x \in Session \ {s} PROVE CallOK(x)'
    <3>1. CASE At(x, "insert")
      <4>1. call[x].token \in Token /\ x # NULL
        BY <1>1, <3>1, PushAssumption DEF At, TypeOK, Call
      <4>. QED  BY <1>1, <2>1, <2>4, <4>1 DEF PushInv, CallOK, At
    <3>. QED  BY <2>1, <3>1 DEF CallOK, At
  <2>. QED  BY <1>1, <2>3, <2>5, <2>6, DeviceFrame
<1>. QED  BY <1>1, <1>2, <1>3

LEMMA InsertStep ==
  ASSUME PushInv, NEW s \in Session, RegisterInsert(s)
  PROVE  PushInv'
<1>0. PICK t \in Token, p \in Profile : t = call[s].token /\ p = call[s].by
  BY DEF RegisterInsert, At, PushInv, TypeOK, Call
<1>1. /\ TypeOK /\ lock[t] \in {s, NULL}
      /\ \/ owner' = [owner EXCEPT ![t] = p] /\ call' = Overtaken(t, p, s)
         \/ call' = [call EXCEPT ![s] = NULL] /\ UNCHANGED owner
      /\ lock' = [lock EXCEPT ![t] = NULL]
      /\ UNCHANGED <<gone, event, sendVars>>
  BY <1>0 DEF RegisterInsert, PushInv
<1>2. \A x \in Session \ {s} : \A y \in Token : lock[y] = x => lock'[y] = x
  BY <1>1, PushAssumption DEF TypeOK
<1>3. CASE owner' = [owner EXCEPT ![t] = p] /\ call' = Overtaken(t, p, s)
  <2>1. /\ call' \in [Session -> Call \cup {NULL}]
        /\ \A x \in Session : call'[x] # NULL =>
             /\ x # s /\ call[x] # NULL
             /\ call'[x].by = call[x].by /\ call'[x].token = call[x].token
             /\ call[x].token = t => p \in call'[x].rivals
             /\ call[x].token # t => call'[x] = call[x]
    BY <1>1, <1>3, OvertakenType
  <2>2. TypeOK'
    BY <1>1, <1>3, <2>1 DEF TypeOK, sendVars
  <2>3. ASSUME NEW x \in Session, At(x, "insert")' PROVE CallOK(x)'
    <3>1. call'[x] # NULL /\ call'[x].token = call[x].token /\ call[x].token \in Token
      BY <1>1, <2>1, <2>3 DEF At, TypeOK, Call
    <3>2. CASE call[x].token = t
      BY <1>1, <1>3, <2>1, <3>1, <3>2 DEF CallOK, TypeOK
    <3>3. CASE call[x].token # t
      <4>1. At(x, "insert") /\ x # s
        BY <2>1, <2>3, <3>1, <3>3 DEF At
      <4>2. owner'[call[x].token] = owner[call[x].token]
        BY <1>1, <1>3, <3>1, <3>3 DEF TypeOK
      <4>. QED  BY <1>2, <2>1, <3>1, <3>3, <4>1, <4>2 DEF PushInv, CallOK
    <3>. QED  BY <3>2, <3>3
  <2>4. \A x \in Session : CallOK(x)'
    BY <2>3 DEF CallOK
  <2>. QED  BY <1>1, <2>2, <2>4, DeviceFrame
<1>4. CASE call' = [call EXCEPT ![s] = NULL] /\ UNCHANGED owner
  <2>1. /\ call' \in [Session -> Call \cup {NULL}] /\ call'[s] = NULL
        /\ \A x \in Session \ {s} : call'[x] = call[x]
    BY <1>1, <1>4, SetCall
  <2>2. TypeOK'
    BY <1>1, <1>4, <2>1 DEF TypeOK, sendVars
  <2>3. ASSUME NEW x \in Session PROVE CallOK(x)'
    <3>1. CASE At(x, "insert")'
      <4>1. x # s /\ At(x, "insert") /\ call[x].token \in Token
        BY <1>1, <2>1, <3>1 DEF At, TypeOK, Call
      <4>. QED  BY <1>2, <1>4, <2>1, <4>1 DEF PushInv, CallOK
    <3>. QED  BY <3>1 DEF CallOK
  <2>4. \A x \in Session : CallOK(x)'
    BY <2>3
  <2>. QED  BY <1>1, <2>2, <2>4, DeviceFrame
<1>. QED  BY <1>1, <1>3, <1>4

LEMMA RollbackStep ==
  ASSUME PushInv, NEW s \in Session, Rollback(s)
  PROVE  PushInv'
<1>0. PICK t : t = call[s].token
  OBVIOUS
<1>1. /\ TypeOK
      /\ lock' = [x \in Token |-> IF lock[x] = s THEN NULL ELSE lock[x]]
      /\ call' = [x \in Session |->
                    IF x = s THEN NULL
                    ELSE IF lock[t] = s /\ At(x, "wait") /\ call[x].token = t
                         THEN [call[x] EXCEPT !.pc = "delete"]
                    ELSE call[x]]
      /\ UNCHANGED <<owner, gone, event, sendVars>>
  BY <1>0 DEF Rollback, PushInv
<1>2. ASSUME NEW x \in Session
      PROVE  /\ call'[x] \in Call \cup {NULL}
             /\ call'[x] # NULL => (x # s /\ call'[x] = call[x]) \/ call'[x].pc = "delete"
  <2>1. CASE call'[x] = [call[x] EXCEPT !.pc = "delete"] /\ At(x, "wait")
    <3>1. call[x] \in Call
      BY <1>1, <2>1 DEF At, TypeOK
    <3>2. call'[x] \in Call /\ call'[x].pc = "delete"
      BY <2>1, <3>1 DEF Call
    <3>. QED  BY <3>2
  <2>2. CASE call'[x] = NULL
    BY <2>2
  <2>3. CASE x # s /\ call'[x] = call[x]
    BY <1>1, <2>3 DEF TypeOK
  <2>. QED  BY <1>1, <2>1, <2>2, <2>3
<1>3. call' \in [Session -> Call \cup {NULL}]
  BY <1>1, <1>2
<1>4. TypeOK'
  BY <1>1, <1>3 DEF TypeOK, sendVars
<1>5. ASSUME NEW x \in Session PROVE CallOK(x)'
  <2>1. CASE At(x, "insert")'
    <3>1. x # s /\ call'[x] = call[x]
      BY <1>2, <2>1 DEF At
    <3>2. At(x, "insert") /\ call[x].token \in Token
      BY <1>1, <2>1, <3>1 DEF At, TypeOK, Call
    <3>. QED  BY <1>1, <3>1, <3>2 DEF PushInv, CallOK
  <2>. QED  BY <2>1 DEF CallOK
<1>6. \A x \in Session : CallOK(x)'
  BY <1>5
<1>. QED  BY <1>1, <1>4, <1>6, DeviceFrame

LEMMA UpsertStep ==
  ASSUME PushInv, NEW p \in Profile, NEW t \in Token, UpsertOwn(p, t)
  PROVE  PushInv'
<1>1. /\ TypeOK /\ owner' = [owner EXCEPT ![t] = p] /\ call' = Overtaken(t, p, NULL)
      /\ UNCHANGED <<lock, gone, event, sendVars>>
  BY DEF UpsertOwn, PushInv
<1>2. /\ call' \in [Session -> Call \cup {NULL}]
      /\ \A x \in Session : call'[x] # NULL =>
           /\ call[x] # NULL
           /\ call'[x].by = call[x].by /\ call'[x].token = call[x].token
           /\ call[x].token = t => p \in call'[x].rivals
           /\ call[x].token # t => call'[x] = call[x]
  BY <1>1, OvertakenType
<1>3. TypeOK'
  BY <1>1, <1>2 DEF TypeOK, sendVars
<1>4. ASSUME NEW x \in Session, At(x, "insert")' PROVE CallOK(x)'
  <2>1. call'[x] # NULL /\ call'[x].token = call[x].token /\ call[x].token \in Token
    BY <1>1, <1>2, <1>4 DEF At, TypeOK, Call
  <2>2. CASE call[x].token = t
    BY <1>1, <1>2, <2>1, <2>2 DEF CallOK, TypeOK
  <2>3. CASE call[x].token # t
    <3>1. At(x, "insert") /\ owner'[call[x].token] = owner[call[x].token]
      BY <1>1, <1>2, <1>4, <2>1, <2>3 DEF At, TypeOK
    <3>. QED  BY <1>1, <1>2, <2>1, <2>3, <3>1 DEF PushInv, CallOK
  <2>. QED  BY <2>2, <2>3
<1>5. \A x \in Session : CallOK(x)'
  BY <1>4 DEF CallOK
<1>. QED  BY <1>1, <1>3, <1>5, DeviceFrame

\* Tokens that lose their rows leave every call as it is.
LEMMA FreedCalls ==
  ASSUME PushInv, UNCHANGED <<lock, call>>,
         \A t \in Token : owner'[t] \in {owner[t], NULL}
  PROVE  \A s \in Session : CallOK(s)'
<1> SUFFICES ASSUME NEW s \in Session, At(s, "insert") PROVE CallOK(s)'
  BY DEF CallOK, At
<1>1. call[s].token \in Token
  BY DEF At, PushInv, TypeOK, Call
<1>. QED  BY <1>1 DEF PushInv, CallOK

LEMMA DeviceStep == ASSUME PushInv, Device PROVE PushInv'
<1>1. ASSUME NEW t \in Token, DeleteOwn(t) \/ DeviceGone(t) PROVE PushInv'
  <2>1. /\ \A x \in Token : owner'[x] \in {owner[x], NULL}
        /\ \A x \in Token : gone[x] => gone'[x]
        /\ TypeOK' /\ UNCHANGED <<lock, call, event, sendVars>>
    BY <1>1 DEF DeleteOwn, DeviceGone, PushInv, TypeOK, tokenVars, sendVars
  <2>. QED  BY <2>1, FreedCalls, DeviceFrame
<1>. QED  BY <1>1, RegisterStep, DeleteStep, InsertStep, RollbackStep, UpsertStep DEF Device

-----------------------------------------------------------------------------
(* Requests.                                                               *)

LEMMA SetRequestType ==
  ASSUME TypeOK, NEW e \in Event, NEW n \in Endpoint,
         NEW st \in {"none", "queued", "sending", "done", "refused", "lost"},
         SetRequest(e, n, st)
  PROVE  /\ request' \in [Event -> [Endpoint -> {"none", "queued", "sending", "done",
                                                 "refused", "lost"}]]
         /\ request'[e][n] = st
         /\ \A m \in Endpoint \ {n} : request'[e][m] = request[e][m]
         /\ \A x \in Event \ {e} : request'[x] = request[x]
  BY DEF TypeOK, SetRequest

\* A step on the requests of one event that nobody is sending yet.
LEMMA RequestFrame ==
  ASSUME PushInv, TypeOK', NEW e \in Event, EventOK(e)',
         \A x \in Event \ {e} : request'[x] = request[x] /\ event'[x] = event[x],
         \A n \in Endpoint : request[e][n] = "sending" => request'[e][n] = "sending",
         UNCHANGED <<tokenVars, gone, posted, job, call>>
  PROVE  PushInv'
<1>1. \A x \in Event : EventOK(x)'
  BY DEF PushInv, EventOK
<1>2. ASSUME NEW w \in Worker PROVE JobOK(w)'
  <2>1. job[w] # NULL => job[w].event \in Event /\ job[w].via \in Endpoint
    BY DEF PushInv, TypeOK, Job
  <2>. QED  BY <2>1 DEF PushInv, JobOK
<1>3. \A x \in Session : CallOK(x)'
  BY FreedCalls DEF PushInv, tokenVars, TypeOK
<1>. QED  BY <1>1, <1>2, <1>3 DEF PushInv

LEMMA InsertNotificationsStep ==
  ASSUME PushInv, NEW e \in Event, NEW row \in EventRow, InsertNotifications(e, row)
  PROVE  PushInv'
<1>1. /\ TypeOK /\ EventOK(e) /\ event[e] = NULL
      /\ event' = [event EXCEPT ![e] = row]
      /\ \/ UNCHANGED request
         \/ ~row.emergency /\ SetRequest(e, "notify_batch", "queued")
      /\ UNCHANGED <<tokenVars, gone, posted, job, call>>
  BY DEF InsertNotifications, PushInv
<1>2. /\ event' \in [Event -> EventRow \cup {NULL}] /\ event'[e] = row /\ row # NULL
      /\ \A x \in Event \ {e} : event'[x] = event[x]
  BY <1>1, PushAssumption DEF TypeOK
<1>3. /\ request[e]["notify_batch"] = "none" /\ request[e]["broadcast"] = "none"
      /\ \A t \in Token : posted[e][t] = 0
  BY <1>1 DEF EventOK, Endpoint
<1>4. CASE UNCHANGED request
  <2>1. TypeOK'
    BY <1>1, <1>2, <1>4 DEF TypeOK, tokenVars
  <2>2. EventOK(e)'
    BY <1>1, <1>2, <1>3, <1>4 DEF EventOK
  <2>. QED  BY <1>1, <1>2, <1>4, <2>1, <2>2, RequestFrame
<1>5. CASE ~row.emergency /\ SetRequest(e, "notify_batch", "queued")
  <2>1. /\ request' \in [Event -> [Endpoint -> {"none", "queued", "sending", "done",
                                                "refused", "lost"}]]
        /\ request'[e]["notify_batch"] = "queued" /\ request'[e]["broadcast"] = "none"
        /\ \A x \in Event \ {e} : request'[x] = request[x]
    BY <1>1, <1>3, <1>5, SetRequestType DEF Endpoint
  <2>2. TypeOK'
    BY <1>1, <1>2, <2>1 DEF TypeOK, tokenVars
  <2>3. EventOK(e)'
    BY <1>1, <1>2, <1>3, <1>5, <2>1 DEF EventOK
  <2>. QED  BY <1>1, <1>2, <1>3, <2>1, <2>2, <2>3, RequestFrame DEF Endpoint
<1>. QED  BY <1>1, <1>4, <1>5

LEMMA CallBroadcastStep ==
  ASSUME PushInv, NEW e \in Event, CallBroadcast(e)
  PROVE  PushInv'
<1>1. /\ TypeOK /\ EventOK(e) /\ event[e] # NULL /\ event[e].emergency
      /\ request[e]["broadcast"] = "none" /\ SetRequest(e, "broadcast", "queued")
      /\ UNCHANGED <<tokenVars, gone, event, posted, job, call>>
  BY DEF CallBroadcast, PushInv
<1>2. /\ request' \in [Event -> [Endpoint -> {"none", "queued", "sending", "done",
                                              "refused", "lost"}]]
      /\ request'[e]["broadcast"] = "queued"
      /\ request'[e]["notify_batch"] = request[e]["notify_batch"]
      /\ \A x \in Event \ {e} : request'[x] = request[x]
  BY <1>1, SetRequestType DEF Endpoint
<1>3. TypeOK'
  BY <1>1, <1>2 DEF TypeOK, tokenVars
<1>4. EventOK(e)'
  BY <1>1, <1>2 DEF EventOK, Endpoint
<1>. QED  BY <1>1, <1>2, <1>3, <1>4, RequestFrame DEF Endpoint

LEMMA DropStep ==
  ASSUME PushInv, NEW e \in Event, NEW n \in Endpoint, LoseRequest(e, n) \/ Refuse(e, n)
  PROVE  PushInv'
<1>1. PICK st \in {"lost", "refused"} :
        /\ TypeOK /\ EventOK(e) /\ request[e][n] = "queued" /\ SetRequest(e, n, st)
        /\ UNCHANGED <<tokenVars, gone, event, posted, job, call>>
  BY DEF LoseRequest, Refuse, PushInv
<1>2. /\ request' \in [Event -> [Endpoint -> {"none", "queued", "sending", "done",
                                              "refused", "lost"}]]
      /\ request'[e][n] = st
      /\ \A m \in Endpoint \ {n} : request'[e][m] = request[e][m]
      /\ \A x \in Event \ {e} : request'[x] = request[x]
  BY <1>1, SetRequestType
<1>3. TypeOK'
  BY <1>1, <1>2 DEF TypeOK, tokenVars
<1>4. EventOK(e)'
  BY <1>1, <1>2 DEF EventOK, Endpoint
<1>. QED  BY <1>1, <1>2, <1>3, <1>4, RequestFrame

\* A thread takes a queued request, which is the only one its event has.
LEMMA HandleStep ==
  ASSUME PushInv, NEW w \in Worker, NEW e \in Event, NEW n \in Endpoint, Handle(w, e, n)
  PROVE  PushInv'
<1>1. PICK poster \in {{}} \cup {{t} : t \in Token} :
        \E msgs \in SetToSeqs(Devices(e, n, poster)) :
          job' = [job EXCEPT ![w] = [event |-> e, via |-> n, msgs |-> msgs,
                                     at |-> 0, dead |-> {}]]
  BY DEF Handle
<1>2. PICK msgs \in SetToSeqs(Devices(e, n, poster)) :
        job' = [job EXCEPT ![w] = [event |-> e, via |-> n, msgs |-> msgs,
                                   at |-> 0, dead |-> {}]]
  BY <1>1
<1>3. /\ msgs \in Seq(Token)
      /\ \A i, k \in DOMAIN msgs : msgs[i] = msgs[k] => i = k
  <2>1. Devices(e, n, poster) \in SUBSET Token
    BY DEF Devices
  <2>2. PICK D \in SUBSET Token : D = Devices(e, n, poster)
    BY <2>1
  <2>3. Cardinality(D) \in Nat
    BY PushAssumption, FS_Subset, FS_CardinalityType
  <2>4. /\ msgs \in [1..Cardinality(D) -> D]
        /\ \A i, k \in 1..Cardinality(D) : i # k => msgs[i] # msgs[k]
    BY <2>2 DEF SetToSeqs
  <2>. QED  BY <2>3, <2>4
<1>4. PICK j : j = [event |-> e, via |-> n, msgs |-> msgs, at |-> 0, dead |-> {}]
  OBVIOUS
<1>5. /\ j \in Job /\ j # NULL
      /\ j.event = e /\ j.via = n /\ j.msgs = msgs /\ j.at = 0 /\ j.dead = {}
  <2>1. j \in Job
    BY <1>3, <1>4 DEF Job
  <2>. QED  BY <1>4, <2>1, PushAssumption
<1>6. /\ TypeOK /\ EventOK(e) /\ job[w] = NULL /\ request[e][n] = "queued"
      /\ SetRequest(e, n, "sending")
      /\ UNCHANGED <<tokenVars, gone, event, posted, call>>
  BY DEF Handle, PushInv
<1>7. /\ job' \in [Worker -> Job \cup {NULL}] /\ job'[w] = j
      /\ \A x \in Worker \ {w} : job'[x] = job[x]
  BY <1>2, <1>4, <1>5, <1>6 DEF TypeOK
<1>8. /\ request' \in [Event -> [Endpoint -> {"none", "queued", "sending", "done",
                                              "refused", "lost"}]]
      /\ request'[e][n] = "sending"
      /\ \A m \in Endpoint \ {n} : request'[e][m] = request[e][m]
      /\ \A x \in Event \ {e} : request'[x] = request[x]
  BY <1>6, SetRequestType
<1>9. \A m \in Endpoint \ {n} : request[e][m] = "none"
  BY <1>6 DEF EventOK, Endpoint
<1>10. TypeOK'
  BY <1>6, <1>7, <1>8 DEF TypeOK, tokenVars
<1>11. \A x \in Event : EventOK(x)'
  BY <1>6, <1>8 DEF PushInv, EventOK, Endpoint
<1>12. ASSUME NEW x \in Worker, job[x] # NULL PROVE job[x].event # e
  <2>1. job[x].via \in Endpoint
    BY <1>6, <1>12 DEF TypeOK, Job
  <2>. QED  BY <1>6, <1>9, <1>12, <2>1 DEF PushInv, JobOK
<1>13. JobOK(w)'
  <2>1. \A t \in Token : posted'[e][t] = 0
    BY <1>6, <1>9 DEF EventOK
  <2>2. \A x \in Worker : job'[x] # NULL /\ job'[x].event = e => x = w
    BY <1>7, <1>12
  <2>3. 1..0 = {} /\ 0 <= Len(msgs)
    BY <1>3
  <2>. QED  BY <1>3, <1>5, <1>7, <1>8, <2>1, <2>2, <2>3 DEF JobOK
<1>14. ASSUME NEW x \in Worker \ {w} PROVE JobOK(x)'
  <2>1. CASE job[x] # NULL
    <3>1. job[x].event \in Event \ {e}
      BY <1>6, <1>12, <2>1 DEF TypeOK, Job
    <3>. QED  BY <1>5, <1>6, <1>7, <1>8, <2>1, <3>1 DEF PushInv, JobOK
  <2>. QED  BY <1>7, <2>1 DEF JobOK
<1>15. \A x \in Session : CallOK(x)'
  BY <1>6, FreedCalls DEF tokenVars, TypeOK
<1>. QED  BY <1>10, <1>11, <1>13, <1>14, <1>15 DEF PushInv

-----------------------------------------------------------------------------
(* Sending.                                                                *)

LEMMA ChunkType ==
  ASSUME NEW j \in Job, j.at < Len(j.msgs)
  PROVE  /\ ChunkEnd(j) \in Nat /\ j.at < ChunkEnd(j) /\ ChunkEnd(j) <= Len(j.msgs)
         /\ Chunk(j) \subseteq DOMAIN j.msgs
         /\ Chunk(j) = (1..ChunkEnd(j)) \ (1..j.at)
         /\ 1..j.at \subseteq 1..ChunkEnd(j)
         /\ 1..j.at \subseteq DOMAIN j.msgs
         /\ IsFiniteSet(Chunk(j))
<1>1. j.at \in Nat /\ Len(j.msgs) \in Nat /\ DOMAIN j.msgs = 1..Len(j.msgs)
  BY DEF Job
<1>2. ChunkEnd(j) \in Nat /\ j.at < ChunkEnd(j) /\ ChunkEnd(j) <= Len(j.msgs)
  BY <1>1, PushAssumption DEF ChunkEnd
<1>3. IsFiniteSet(Chunk(j))
  <2>1. PICK a \in Int, b \in Int : a = j.at + 1 /\ b = ChunkEnd(j)
    BY <1>1, <1>2
  <2>2. IsFiniteSet(a..b)
    BY FS_Interval
  <2>. QED  BY <2>1, <2>2 DEF Chunk
<1>. QED  BY <1>1, <1>2, <1>3 DEF Chunk

\* Handing over a chunk posts each of its messages once more.
LEMMA PostCounts ==
  ASSUME TypeOK, NEW j \in Job, j.at < Len(j.msgs), Post(j),
         \A i, k \in DOMAIN j.msgs : j.msgs[i] = j.msgs[k] => i = k,
         \A t \in Token :
           posted[j.event][t] = IF \E i \in 1..j.at : j.msgs[i] = t THEN 1 ELSE 0
  PROVE  /\ posted' \in [Event -> [Token -> Nat]]
         /\ \A e \in Event \ {j.event} : posted'[e] = posted[e]
         /\ \A t \in Token :
              posted'[j.event][t] =
                IF \E i \in 1..ChunkEnd(j) : j.msgs[i] = t THEN 1 ELSE 0
<1> DEFINE Of(t) == {i \in Chunk(j) : j.msgs[i] = t}
<1>1. j.event \in Event
  BY DEF Job
<1>2. ASSUME NEW t \in Token
      PROVE  /\ Cardinality(Of(t)) \in Nat
             /\ posted[j.event][t] + Cardinality(Of(t)) =
                  IF \E i \in 1..ChunkEnd(j) : j.msgs[i] = t THEN 1 ELSE 0
  <2>1. CASE Of(t) = {}
    <3>1. Cardinality(Of(t)) = 0
      BY <2>1, FS_EmptySet
    <3>2. (\E i \in 1..ChunkEnd(j) : j.msgs[i] = t) <=> \E i \in 1..j.at : j.msgs[i] = t
      BY <2>1, ChunkType
    <3>. QED  BY <3>1, <3>2
  <2>2. CASE Of(t) # {}
    <3>1. PICK i \in Chunk(j) : j.msgs[i] = t
      BY <2>2
    <3>2. Of(t) = {i}
      BY <3>1, ChunkType
    <3>3. Cardinality(Of(t)) = 1
      BY <3>2, FS_Singleton
    <3>4. ~\E k \in 1..j.at : j.msgs[k] = t
      BY <3>1, ChunkType
    <3>5. \E k \in 1..ChunkEnd(j) : j.msgs[k] = t
      BY <3>1, ChunkType
    <3>. QED  BY <3>3, <3>4, <3>5
  <2>. QED  BY <2>1, <2>2
<1>3. posted' = [posted EXCEPT ![j.event] =
                   [t \in Token |-> posted[j.event][t] + Cardinality(Of(t))]]
  BY DEF Post
<1> HIDE DEF Of
<1>4. [t \in Token |-> posted[j.event][t] + Cardinality(Of(t))] \in [Token -> Nat]
  BY <1>2
<1>. QED  BY <1>1, <1>2, <1>3, <1>4 DEF TypeOK

LEMMA ChunkStep ==
  ASSUME PushInv, NEW w \in Worker, ChunkFails(w) \/ ChunkAnswered(w)
  PROVE  PushInv'
<1>1. PICK j : j = job[w]
  OBVIOUS
<1>2. /\ TypeOK /\ JobOK(w) /\ j \in Job /\ j # NULL /\ j.at < Len(j.msgs)
      /\ Post(j) /\ j.event \in Event /\ j.via \in Endpoint
      /\ UNCHANGED <<tokenVars, gone, event, request, call>>
  BY <1>1 DEF ChunkFails, ChunkAnswered, Sending, PushInv, TypeOK, Job
<1>3. /\ request[j.event][j.via] = "sending"
      /\ \A x \in Worker : job[x] # NULL /\ job[x].event = j.event => x = w
      /\ \A i, k \in DOMAIN j.msgs : j.msgs[i] = j.msgs[k] => i = k
      /\ \A t \in j.dead : gone[t]
      /\ \A t \in Token :
           posted[j.event][t] = IF \E i \in 1..j.at : j.msgs[i] = t THEN 1 ELSE 0
  BY <1>1, <1>2 DEF JobOK
<1>4. PICK at \in Nat : /\ at = ChunkEnd(j) /\ at <= Len(j.msgs)
  BY <1>2, ChunkType
<1>5. Reported(j) \subseteq {t \in Token : gone[t]}
  BY <1>2, ChunkType DEF Reported, Job
<1>6. PICK dead \in SUBSET Token :
        /\ job' = [job EXCEPT ![w].at = at, ![w].dead = dead]
        /\ \A t \in dead : gone[t]
  <2>1. CASE ChunkFails(w)
    <3>1. job' = [job EXCEPT ![w].at = at, ![w].dead = j.dead]
      BY <1>1, <1>2, <1>4, <2>1 DEF ChunkFails, TypeOK, Job
    <3>. QED  BY <1>2, <1>3, <3>1 DEF Job
  <2>2. CASE ChunkAnswered(w)
    <3>1. job' = [job EXCEPT ![w].at = at, ![w].dead = j.dead \cup Reported(j)]
      BY <1>1, <1>4, <2>2 DEF ChunkAnswered
    <3>2. j.dead \cup Reported(j) \in SUBSET Token
      BY <1>2, <1>5 DEF Job
    <3>. QED  BY <1>3, <1>5, <3>1, <3>2
  <2>. QED  BY <2>1, <2>2 DEF ChunkFails, ChunkAnswered
<1>7. /\ job' \in [Worker -> Job \cup {NULL}]
      /\ job'[w] \in Job /\ job'[w].event = j.event /\ job'[w].via = j.via
      /\ job'[w].msgs = j.msgs /\ job'[w].at = at /\ job'[w].dead = dead
      /\ \A x \in Worker \ {w} : job'[x] = job[x]
  <2>1. PICK k : k = [j EXCEPT !.at = at, !.dead = dead]
    OBVIOUS
  <2>2. /\ k \in Job /\ k.event = j.event /\ k.via = j.via
        /\ k.msgs = j.msgs /\ k.at = at /\ k.dead = dead
    BY <1>2, <2>1 DEF Job
  <2>3. job' = [job EXCEPT ![w] = k]
    BY <1>1, <1>6, <2>1
  <2>. QED  BY <1>2, <2>2, <2>3 DEF TypeOK
<1>8. /\ posted' \in [Event -> [Token -> Nat]]
      /\ \A e \in Event \ {j.event} : posted'[e] = posted[e]
      /\ \A t \in Token :
           posted'[j.event][t] = IF \E i \in 1..at : j.msgs[i] = t THEN 1 ELSE 0
  BY <1>2, <1>3, <1>4, PostCounts
<1>9. TypeOK'
  BY <1>2, <1>7, <1>8 DEF TypeOK, tokenVars
<1>10. ASSUME NEW e \in Event PROVE EventOK(e)'
  <2>1. EventOK(e)
    BY DEF PushInv
  <2>2. CASE e = j.event
    <3>1. \A t \in Token : posted'[e][t] <= 1
      BY <1>8, <2>2
    <3>2. \E n \in Endpoint : request[e][n] \notin {"none", "queued"}
      BY <1>2, <1>3, <2>2
    <3>. QED  BY <1>2, <2>1, <3>1, <3>2 DEF EventOK
  <2>3. CASE e # j.event
    <3>1. posted'[e] = posted[e]
      BY <1>8, <2>3
    <3>. QED  BY <1>2, <2>1, <3>1 DEF EventOK
  <2>. QED  BY <2>2, <2>3
<1>11. JobOK(w)'
  <2>1. \A x \in Worker : job'[x] # NULL /\ job'[x].event = job'[w].event => x = w
    BY <1>3, <1>7
  <2>2. request'[job'[w].event][job'[w].via] = "sending"
    BY <1>2, <1>3, <1>7
  <2>3. /\ job'[w].at <= Len(job'[w].msgs)
        /\ \A i, k \in DOMAIN job'[w].msgs : job'[w].msgs[i] = job'[w].msgs[k] => i = k
    BY <1>3, <1>4, <1>7
  <2>4. \A t \in job'[w].dead : gone'[t]
    BY <1>2, <1>6, <1>7
  <2>5. \A t \in Token :
          posted'[job'[w].event][t] =
            IF \E i \in 1..job'[w].at : job'[w].msgs[i] = t THEN 1 ELSE 0
    BY <1>7, <1>8
  <2>. QED  BY <2>1, <2>2, <2>3, <2>4, <2>5 DEF JobOK
<1>12. ASSUME NEW x \in Worker \ {w} PROVE JobOK(x)'
  <2>1. JobOK(x) /\ job'[x] = job[x]
    BY <1>7 DEF PushInv
  <2>2. CASE job[x] # NULL
    <3>1. job[x].event \in Event \ {j.event}
      BY <1>2, <1>3, <2>2 DEF TypeOK, Job
    <3>2. posted'[job[x].event] = posted[job[x].event]
      BY <1>8, <3>1
    <3>3. \A y \in Worker : job'[y] # NULL =>
            job[y] # NULL /\ job'[y].event = job[y].event
      BY <1>1, <1>2, <1>7
    <3>. QED  BY <1>2, <2>1, <2>2, <3>2, <3>3 DEF JobOK
  <2>. QED  BY <2>1, <2>2 DEF JobOK
<1>13. \A x \in Session : CallOK(x)'
  BY <1>2, FreedCalls DEF tokenVars, TypeOK
<1>. QED  BY <1>9, <1>10, <1>11, <1>12, <1>13 DEF PushInv

\* A thread is through with its request, or dies.
LEMMA EndStep ==
  ASSUME PushInv, NEW w \in Worker, Prune(w) \/ Crash(w)
  PROVE  PushInv'
<1>1. PICK e \in Event, n \in Endpoint : e = job[w].event /\ n = job[w].via
  BY DEF Prune, Sent, Crash, PushInv, TypeOK, Job
<1>2. PICK st \in {"done", "lost"} : SetRequest(e, n, st)
  BY <1>1 DEF Prune, Crash
<1>3. /\ TypeOK /\ job[w] # NULL
      /\ job' = [job EXCEPT ![w] = NULL]
      /\ UNCHANGED <<lock, gone, event, posted, call>>
      /\ \A t \in Token : owner'[t] \in {owner[t], NULL}
      /\ owner' \in [Token -> Profile \cup {NULL}]
  BY DEF Prune, Sent, Crash, tokenVars, PushInv, TypeOK
<1>4. /\ request' \in [Event -> [Endpoint -> {"none", "queued", "sending", "done",
                                              "refused", "lost"}]]
      /\ request'[e][n] = st
      /\ \A m \in Endpoint \ {n} : request'[e][m] = request[e][m]
      /\ \A x \in Event \ {e} : request'[x] = request[x]
  BY <1>2, <1>3, SetRequestType
<1>5. /\ job' \in [Worker -> Job \cup {NULL}] /\ job'[w] = NULL
      /\ \A x \in Worker \ {w} : job'[x] = job[x]
  BY <1>3 DEF TypeOK
<1>6. TypeOK'
  BY <1>3, <1>4, <1>5 DEF TypeOK
<1>7. request[e][n] = "sending" /\ \A x \in Worker \ {w} : job[x] # NULL => job[x].event # e
  BY <1>1, <1>3 DEF PushInv, JobOK
<1>8. ASSUME NEW x \in Event PROVE EventOK(x)'
  <2>1. CASE x = e
    BY <1>3, <1>4, <1>7, <2>1 DEF PushInv, EventOK, Endpoint
  <2>2. CASE x # e
    BY <1>3, <1>4, <2>2 DEF PushInv, EventOK
  <2>. QED  BY <2>1, <2>2
<1>9. ASSUME NEW x \in Worker PROVE JobOK(x)'
  <2>1. CASE job'[x] # NULL
    <3>1. x # w /\ job'[x] = job[x] /\ job[x].event \in Event \ {e}
      BY <1>3, <1>5, <1>7, <2>1 DEF TypeOK, Job
    <3>2. \A y \in Worker : job'[y] # NULL => job'[y] = job[y]
      BY <1>5
    <3>. QED  BY <1>3, <1>4, <2>1, <3>1, <3>2 DEF PushInv, JobOK
  <2>. QED  BY <2>1 DEF JobOK
<1>10. \A x \in Session : CallOK(x)'
  BY <1>3, FreedCalls
<1>. QED  BY <1>6, <1>8, <1>9, <1>10 DEF PushInv

-----------------------------------------------------------------------------
(* The theorems.                                                           *)

LEMMA InitPush == Init => PushInv
<1> SUFFICES ASSUME Init PROVE PushInv
  OBVIOUS
<1>1. TypeOK
  BY DEF Init, TypeOK
<1>. QED  BY <1>1 DEF Init, PushInv, EventOK, JobOK, CallOK, At, Endpoint

LEMMA PushStep == PushInv /\ [Next]_vars => PushInv'
<1> SUFFICES ASSUME PushInv, [Next]_vars PROVE PushInv'
  OBVIOUS
<1>1. CASE Delivery
  BY <1>1, InsertNotificationsStep, CallBroadcastStep, DropStep, HandleStep, ChunkStep,
     EndStep DEF Delivery
<1>2. CASE UNCHANGED vars
  <2>1. TypeOK'
    BY <1>2 DEF vars, tokenVars, sendVars, PushInv, TypeOK
  <2>2. \A s \in Session : CallOK(s)'
    BY <1>2, FreedCalls DEF vars, tokenVars, PushInv, TypeOK
  <2>. QED  BY <1>2, <2>1, <2>2, DeviceFrame DEF vars
<1>. QED  BY <1>1, <1>2, DeviceStep DEF Next

LEMMA PushCorrect == Spec => []PushInv
  BY InitPush, PushStep, PTL DEF Spec

\* The rows of tokens, requests and calls hold only values they admit.
THEOREM TypeCorrect == Spec => []TypeOK
<1>1. PushInv => TypeOK
  BY DEF PushInv
<1>. QED  BY PushCorrect, <1>1, PTL

\* No device is handed the same event twice, by any number of threads and
\* whatever the size of a chunk.
THEOREM PushedOnceCorrect == Spec => []PushedOnce
<1>1. PushInv => PushedOnce
  BY DEF PushInv, EventOK, PushedOnce
<1>. QED  BY PushCorrect, <1>1, PTL

\* Once a handler has been through its chunks, every device it read was tried,
\* however many of them failed.
THEOREM EveryDeviceTriedCorrect == Spec => []EveryDeviceTried
<1>1. PushInv => EveryDeviceTried
  <2> SUFFICES ASSUME PushInv, NEW w \in Worker, Sent(w), NEW i \in DOMAIN job[w].msgs
               PROVE  posted[job[w].event][job[w].msgs[i]] > 0
    BY DEF EveryDeviceTried
  <2>1. /\ job[w] \in Job /\ job[w].at >= Len(job[w].msgs) /\ job[w].msgs[i] \in Token
        /\ i \in 1..job[w].at
    BY DEF Sent, PushInv, TypeOK, Job
  <2>2. posted[job[w].event][job[w].msgs[i]] = 1
    BY <2>1 DEF PushInv, JobOK, Sent
  <2>. QED  BY <2>2
<1>. QED  BY PushCorrect, <1>1, PTL

\* Pruning deletes only tokens that Expo has called dead, however many devices
\* were registered since.
THEOREM PrunesOnlyDeadCorrect == Spec => PrunesOnlyDead
<1>1. PushInv /\ [Next]_vars =>
        [\A w \in Worker, t \in Token :
           Prune(w) /\ owner'[t] # owner[t] => gone[t]]_vars
  BY DEF PushInv, TypeOK, JobOK, Prune, Sent
<1>. QED  BY PushCorrect, <1>1, PTL DEF Spec, PrunesOnlyDead

\* When register_push_token returns, the token is the caller's or that of
\* somebody who got it during the call, for any number of overlapping calls.
THEOREM RegisteredIsMineCorrect == Spec => RegisteredIsMine
<1>1. ASSUME PushInv, NEW s \in Session, RegisterInsert(s)
      PROVE  owner'[call[s].token] \in {call[s].by} \cup call[s].rivals
  <2>1. call[s].token \in Token /\ CallOK(s) /\ TypeOK
    BY <1>1 DEF RegisterInsert, At, PushInv, TypeOK, Call
  <2>. QED  BY <1>1, <2>1, PushAssumption DEF RegisterInsert, CallOK, TypeOK
<1>2. PushInv /\ [Next]_vars =>
        [\A s \in Session : RegisterInsert(s) =>
           owner'[call[s].token] \in {call[s].by} \cup call[s].rivals]_vars
  BY <1>1
<1>. QED  BY PushCorrect, <1>2, PTL DEF Spec, RegisteredIsMine
=============================================================================
