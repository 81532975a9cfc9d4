-------------------------- MODULE UmacEvtloopProofs -------------------------
(***************************************************************************)
(* The theorems about UmacEvtloop, for every number of loop tasks, size of *)
(* the event pool and number of events dispatched at once, under all of    *)
(* what Assumable lists.                                                   *)
(***************************************************************************)
EXTENDS UmacEvtloop, TLAPS, FiniteSetTheorems, SequenceTheorems

-----------------------------------------------------------------------------
(* The inductive invariant, in parts                                       *)

\* The places of a loop task at which its semaphore exists.
Live == {"top", "datapath", "events", "handle", "wait", "delete"}

\* At most one loop task exists, and it handles the event it holds, of which
\* it counts no more than it may dispatch.
OneLoop ==
    /\ \A l, m \in Loop : pc[l] # "none" /\ pc[m] # "none" => l = m
    /\ \A l \in Loop : evt[l] # NULL <=> pc[l] = "handle"
    /\ \A l \in Loop : pc[l] = "handle" => count[l] < MaxDispatch

\* How the variables of umac_core follow the life of the loop task.
Life ==
    /\ \A l \in Loop :
          /\ pc[l] \in Live => semb \in {"clear", "given"}
          /\ pc[l] \in {"delete", "null", "finish", "will"} => shuttingDown
          /\ hasFinished => pc[l] \in {"none", "will"}
          /\ task = NULL /\ api.at # "created" =>
                pc[l] \in {"none", "will"} \/ fatalError
    /\ task # NULL /\ ~shuttingDown => pc[task] # "none"
    /\ task # NULL /\ shuttingDown => api.at \in {"stop", "join"}
    /\ fatalError => task = NULL /\ shuttingDown /\ struck

\* Where a call of the application may find the core.
Calls ==
    /\ api.at = "created" =>
          /\ api.call = "up"
          /\ task = NULL /\ ~shuttingDown
          /\ api.new \in Loop /\ pc[api.new] # "none"
    /\ api.call = "up" /\ api.at # "idle" => ~fatalError
    /\ api.at \in {"queue", "give", "giveFailed", "wait"} =>
          (task # NULL /\ ~shuttingDown) \/ (struck /\ api.call # "up")
    /\ api.at \in {"stop", "join"} => task # NULL /\ shuttingDown

\* An interface is active only while the loop runs and nobody stops it, and
\* the driver task only while an interface is active.
Interface ==
    /\ iface => task # NULL /\ ~shuttingDown
    /\ drv # "idle" => iface

\* The events that wait for the call of today.  A shutdown that a fatal error
\* has answered leaves its event behind.
Owned(e) == e \in {"up", "request"} \/ (e = "down" /\ ~struck)

Outstanding == api.at \in {"give", "wait"} /\ ~api.done

\* The event of a call exists once, and only while the call waits for it.
Owners ==
    /\ \A i \in DOMAIN queue : Owned(queue[i]) =>
          /\ Outstanding /\ api.call = queue[i]
          /\ \A j \in DOMAIN queue : Owned(queue[j]) => j = i
          /\ \A l \in Loop : ~Owned(evt[l])
    /\ \A l \in Loop : Owned(evt[l]) => Outstanding /\ api.call = evt[l]
    /\ api.at \in {"created", "check", "queue"} /\ Owned(api.call) => ~api.done

\* What the pool of events has given out until a fatal error.
Handling == IF \E l \in Loop : evt[l] # NULL THEN 1 ELSE 0

PoolUse ==
    ~struck =>
        Len(queue) + Handling + (IF drv = "queue" THEN 1 ELSE 0) + drvEvents
            <= MaxDrvEvents + (IF Outstanding THEN 1 ELSE 0)

\* The loop will not look at the work again before it sleeps.
Looked(l) == pc[l] = "wait" \/ (pc[l] \in {"events", "handle"} /\ ~more[l])

\* Why the loop wakes from the sleep it is about to begin.
Wakes ==
    \A l \in Loop :
        /\ pc[l] \in {"datapath", "events", "handle", "wait"} /\ shuttingDown =>
              semb = "given" \/ api.at = "stop"
        /\ pc[l] = "wait" /\ queue # <<>> =>
              semb = "given" \/ api.at = "give" \/ drv = "give"
        /\ Looked(l) /\ work /\ ~shuttingDown =>
              semb = "given" \/ tx \in {"check", "give"} \/ drv \in {"check", "give"}
        /\ Looked(l) /\ api.at = "created" => ~work

Core == OneLoop /\ Life /\ Calls /\ Interface /\ Owners /\ PoolUse /\ Wakes

IInv ==
    /\ TypeOK /\ OneLoop /\ NoLostWakeup /\ ShutDownAtHandler
    /\ MaxDrvEvents < PoolSize => NoFault
    /\ Running => Core

-----------------------------------------------------------------------------
(* What the steps need                                                     *)

\* The application and the scheduler behave as Assumable says.
Taken == Assumed = Assumable

\* What a step leaves true; after a fault there are no more steps.
Kept == TypeOK' /\ OneLoop' /\ (Running' => Core')

ApiPlace ==
    {"idle", "created", "check", "queue", "give", "giveFailed", "wait", "after",
     "stop", "join"}

Api_ == [at : ApiPlace, call : Call, done : BOOLEAN, new : Loop \cup {NULL}]

\* A call that moves on or is answered stays a call.
LEMMA ApiTyped ==
    ASSUME TypeOK, NEW at \in ApiPlace
    PROVE  /\ [api EXCEPT !.at = at] \in Api_
           /\ [api EXCEPT !.at = at, !.new = NULL] \in Api_
           /\ [api EXCEPT !.done = TRUE] \in Api_
  BY DEF TypeOK, ApiPlace, Api_

\* Owners depends on few variables.
LEMMA OwnersFrame ==
    ASSUME Owners, UNCHANGED <<queue, evt, api, struck>>
    PROVE  Owners'
  BY DEF Owners, Owned, Outstanding

\* So does PoolUse.
LEMMA PoolUseFrame ==
    ASSUME PoolUse, UNCHANGED <<queue, evt, api, struck, drv, drvEvents>>
    PROVE  PoolUse'
  BY DEF PoolUse, Handling, Outstanding

\* What is appended to the queue is last.
LEMMA QueueAppend ==
    ASSUME NEW q \in Seq(Event), NEW e \in Event
    PROVE  /\ Append(q, e) \in Seq(Event) /\ Len(Append(q, e)) = Len(q) + 1
           /\ Append(q, e) # <<>>
           /\ \A i \in DOMAIN Append(q, e) :
                 \/ i \in DOMAIN q /\ Append(q, e)[i] = q[i]
                 \/ i = Len(q) + 1 /\ Append(q, e)[i] = e
  OBVIOUS

\* What is put first moves the others up.
LEMMA QueuePush ==
    ASSUME NEW q \in Seq(Event), NEW e \in Event
    PROVE  /\ <<e>> \o q \in Seq(Event) /\ Len(<<e>> \o q) = Len(q) + 1
           /\ <<e>> \o q # <<>>
           /\ \A i \in DOMAIN (<<e>> \o q) :
                 \/ i = 1 /\ (<<e>> \o q)[i] = e
                 \/ i - 1 \in DOMAIN q /\ (<<e>> \o q)[i] = q[i - 1]
  <1>1. /\ <<e>> \o q \in Seq(Event) /\ Len(<<e>> \o q) = Len(q) + 1
        /\ \A i \in 1 .. Len(q) + 1 :
              (<<e>> \o q)[i] = IF i = 1 THEN e ELSE q[i - 1]
    OBVIOUS
  <1>2. DOMAIN (<<e>> \o q) = 1 .. Len(q) + 1
    BY <1>1
  <1>3. <<e>> \o q # <<>>
    BY <1>1
  <1> QED
    BY <1>1, <1>2, <1>3

\* What is taken off the front moves the others down.
LEMMA QueueTail ==
    ASSUME NEW q \in Seq(Event), q # <<>>
    PROVE  /\ Head(q) = q[1] /\ 1 \in DOMAIN q /\ q[1] \in Event
           /\ Tail(q) \in Seq(Event) /\ Len(Tail(q)) = Len(q) - 1
           /\ \A i \in DOMAIN Tail(q) : i + 1 \in DOMAIN q /\ Tail(q)[i] = q[i + 1]
  OBVIOUS

\* The pool counts the one event that is being handled.
LEMMA PoolCount ==
    ASSUME TypeOK, OneLoop
    PROVE  PoolEmpty <=> Len(queue) + Handling >= PoolSize
  <1> DEFINE H == { l \in Loop : evt[l] # NULL }
  <1>1. CASE H = {}
    <2>1. Cardinality(H) = 0 /\ Handling = 0
      BY <1>1, FS_EmptySet DEF Handling
    <2> QED
      BY <2>1 DEF PoolEmpty
  <1>2. CASE H # {}
    <2>1. PICK l \in Loop : evt[l] # NULL
      BY <1>2
    <2>2. H = {l}
      BY <2>1 DEF OneLoop
    <2>3. Cardinality(H) = 1 /\ Handling = 1
      BY <2>1, <2>2, FS_Singleton DEF Handling
    <2> QED
      BY <2>3 DEF PoolEmpty
  <1> QED
    BY <1>1, <1>2

\* The loop handles one event at a time.
LEMMA HandlingNat == Handling \in {0, 1}
  BY DEF Handling

-----------------------------------------------------------------------------
(* Every action keeps the invariant                                        *)

\* umac_core_start: a new task, unless one is there.
LEMMA ApiUpKept ==
    ASSUME Taken, TypeOK, Core, ApiUp
    PROVE  Kept
  <1>a. api.at = "idle" /\ ~fatalError /\ \A l \in Loop : pc[l] # "will"
    BY DEF ApiUp, Taken, Assumable
  <1>1. CASE task # NULL
    <2>1. /\ api' = [at |-> "check", call |-> "up", done |-> FALSE, new |-> NULL]
          /\ UNCHANGED <<queue, work, core, iface, fatalError, loops, tx, drv, drvEvents,
                         struck, fault>>
      BY <1>1 DEF ApiUp
    <2>2. TypeOK'
      BY <2>1 DEF TypeOK, Call, core, loops
    <2>3. OneLoop' /\ Life' /\ Calls' /\ Interface'
      BY <1>1, <1>a, <2>1 DEF TypeOK, Core, OneLoop, Life, Calls, Interface, core, loops
    <2>4. Owners' /\ PoolUse'
      <3>1. /\ ~Outstanding /\ ~Outstanding' /\ api'.done = FALSE
            /\ UNCHANGED <<queue, evt, drv, drvEvents, struck>>
        BY <1>a, <2>1 DEF Outstanding, loops
      <3>2. Owners'
        BY <3>1 DEF Core, Owners, Owned
      <3>3. PoolUse'
        BY <3>1 DEF Core, PoolUse, Handling
      <3> QED
        BY <3>2, <3>3
    <2>5. Wakes'
      BY <1>a, <2>1 DEF TypeOK, Core, Wakes, Looked, core, loops
    <2> QED
      BY <2>2, <2>3, <2>4, <2>5 DEF Kept, Core
  <1>2. CASE task = NULL
    <2>1. \A l \in Loop : pc[l] = "none" /\ evt[l] = NULL
      BY <1>2, <1>a DEF Core, OneLoop, Life
    <2>2. PICK l \in Loop :
             /\ pc' = [pc EXCEPT ![l] = "top"]
             /\ api' = [at |-> "created", call |-> "up", done |-> FALSE, new |-> l]
      BY <1>2, <2>1 DEF ApiUp
    <2>3. /\ semb' = "clear" /\ shuttingDown' = FALSE /\ hasFinished' = FALSE
          /\ UNCHANGED <<task, evt, count, more, queue, work, iface, fatalError, tx, drv,
                         drvEvents, struck, fault>>
      BY <1>2 DEF ApiUp
    <2>4. shuttingDown' \in BOOLEAN /\ hasFinished' \in BOOLEAN
      BY <2>3
    <2>5. TypeOK'
      BY <2>2, <2>3, <2>4 DEF TypeOK, Call
    <2>6. OneLoop' /\ Life' /\ Calls' /\ Interface'
      BY <1>2, <1>a, <2>1, <2>2, <2>3 DEF TypeOK, Core, OneLoop, Life, Live, Calls,
         Interface
    <2>7. Owners' /\ PoolUse'
      <3>1. /\ ~Outstanding /\ ~Outstanding' /\ api'.done = FALSE
            /\ UNCHANGED <<queue, evt, drv, drvEvents, struck>>
        BY <1>a, <2>2, <2>3 DEF Outstanding
      <3>2. Owners'
        BY <3>1 DEF Core, Owners, Owned
      <3>3. PoolUse'
        BY <3>1 DEF Core, PoolUse, Handling
      <3> QED
        BY <3>2, <3>3
    <2>8. Wakes'
      BY <2>1, <2>2, <2>3 DEF TypeOK, Wakes, Looked
    <2> QED
      BY <2>5, <2>6, <2>7, <2>8 DEF Kept, Core
  <1> QED
    BY <1>1, <1>2

\* umac_core_start, once the task is there.
LEMMA ApiCreatedKept ==
    ASSUME Taken, TypeOK, Core, ApiCreated
    PROVE  Kept
  <1>a. api' \in Api_
    BY ApiTyped DEF TypeOK, Call, Event, Api_, ApiPlace, ApiCreated
  <1>1. TypeOK'
    BY <1>a DEF TypeOK, Call, Event, core, loops, Api_, ApiPlace,
       ApiCreated
  <1>2. OneLoop' /\ (Running' => Life')
    BY EvtloopAssumption DEF Taken, Assumable, TypeOK, Call, Event, Core,
       Running, core, loops, others, OneLoop, Life, Live, Calls, Interface,
       ApiCreated
  <1>3. Running' => Calls' /\ Interface'
    BY EvtloopAssumption DEF Taken, Assumable, TypeOK, Call, Event, Core,
       Running, core, loops, others, OneLoop, Life, Calls, Interface,
       ApiCreated
  <1>4. Running' => Owners' /\ PoolUse'
    BY EvtloopAssumption DEF TypeOK, Call, Event, Core, Running, core,
       loops, others, OneLoop, Life, Calls, Owners, Owned, Outstanding,
       PoolUse, Handling, ApiCreated
  <1>5. Running' => Wakes'
    BY EvtloopAssumption DEF TypeOK, Call, Event, Core, Running, core,
       loops, others, OneLoop, Life, Live, Calls, Interface, Wakes, Looked,
       ApiCreated
  <1> QED
    BY <1>1, <1>2, <1>3, <1>4, <1>5 DEF Kept, Core

\* A call of the API, up to umac_core_evt_queue.
LEMMA ApiCallKept ==
    ASSUME Taken, TypeOK, Core, NEW c \in {"down", "request"}, ApiCall(c)
    PROVE  Kept
  <1>a. api' \in Api_
    BY ApiTyped DEF TypeOK, Call, Event, Api_, ApiPlace, ApiCall
  <1>1. TypeOK'
    BY <1>a DEF TypeOK, Call, Event, core, loops, Api_, ApiPlace, ApiCall
  <1>2. OneLoop' /\ (Running' => Life')
    BY EvtloopAssumption DEF Taken, Assumable, TypeOK, Call, Event, Core,
       Running, core, loops, others, OneLoop, Life, Live, Calls, Interface,
       ApiCall
  <1>3. Running' => Calls' /\ Interface'
    BY EvtloopAssumption DEF Taken, Assumable, TypeOK, Call, Event, Core,
       Running, core, loops, others, OneLoop, Life, Calls, Interface,
       ApiCall
  <1>4. Running' => Owners' /\ PoolUse'
    BY EvtloopAssumption DEF TypeOK, Call, Event, Core, Running, core,
       loops, others, OneLoop, Life, Calls, Owners, Owned, Outstanding,
       PoolUse, Handling, ApiCall
  <1>5. Running' => Wakes'
    BY EvtloopAssumption DEF TypeOK, Call, Event, Core, Running, core,
       loops, others, OneLoop, Life, Live, Calls, Interface, Wakes, Looked,
       ApiCall
  <1> QED
    BY <1>1, <1>2, <1>3, <1>4, <1>5 DEF Kept, Core

\* umac_core_evt_queue looks at the core.
LEMMA ApiCheckKept ==
    ASSUME Taken, TypeOK, Core, ApiCheck
    PROVE  Kept
  <1>a. \E at \in {"idle", "after", "queue"} : Api(at)
    BY DEF ApiCheck, Failed
  <1>b. api' \in Api_
    BY <1>a, ApiTyped DEF Api, ApiPlace
  <1>1. TypeOK'
    BY <1>b DEF TypeOK, Api_, ApiPlace, ApiCheck, core, loops
  <1>2. OneLoop' /\ (Running' => Life')
    BY EvtloopAssumption DEF TypeOK, Core, Running, core, loops, OneLoop, Life, Live,
       Calls, Interface, ApiCheck, Api, Refused, Failed
  <1>3. Running' => Calls' /\ Interface'
    BY EvtloopAssumption DEF TypeOK, Core, Running, core, loops, OneLoop, Life, Calls,
       Interface, ApiCheck, Api, Refused, Failed
  <1>4. Running' => Owners' /\ PoolUse'
    BY EvtloopAssumption DEF TypeOK, Call, Event, Core, Running, core, loops, OneLoop,
       Owners, Owned, Outstanding, PoolUse, Handling, ApiCheck, Api, Refused, Failed
  <1>5. Running' => Wakes'
    BY EvtloopAssumption DEF TypeOK, Core, Running, core, loops, OneLoop, Life, Live,
       Calls, Interface, Wakes, Looked, ApiCheck, Api, Refused, Failed
  <1> QED
    BY <1>1, <1>2, <1>3, <1>4, <1>5 DEF Kept, Core

\* umac_core_evt_queue queues the event of the call.
LEMMA ApiQueueKept ==
    ASSUME Taken, TypeOK, Core, ApiQueue
    PROVE  Kept
  <1>a. \E at \in {"giveFailed", "give"} : Api(at)
    BY DEF ApiQueue
  <1>b. api' \in Api_
    BY <1>a, ApiTyped DEF Api, ApiPlace
  <1>g. api'.call = api.call /\ api'.done = api.done
    BY <1>a DEF Api, TypeOK
  <1>c. queue \in Seq(Event) /\ api.call \in Event /\ api.call \in Call
    BY DEF TypeOK, Event
  <1>d. UNCHANGED <<work, core, iface, fatalError, loops, tx, drv, drvEvents, struck, fault>>
    BY DEF ApiQueue
  <1>e. Running /\ OneLoop /\ Life /\ Calls /\ Interface /\ Owners /\ PoolUse /\ Wakes
    BY DEF ApiQueue, Core
  <1>f. api.at = "queue" /\ ~Outstanding
    BY DEF ApiQueue, Outstanding
  <1>1. queue' \in Seq(Event) /\ Len(queue') <= PoolSize
    <2>1. CASE PoolEmpty
      BY <2>1 DEF ApiQueue, TypeOK
    <2>2. CASE ~PoolEmpty
      <3>1. Len(queue) + Handling < PoolSize /\ queue' = Append(queue, api.call)
        BY <2>2, <1>c, <1>e, PoolCount, HandlingNat, EvtloopAssumption DEF ApiQueue
      <3> QED
        BY <3>1, <1>c, HandlingNat, QueueAppend, EvtloopAssumption
    <2> QED
      BY <2>1, <2>2
  <1>2. TypeOK'
    BY <1>1, <1>b, <1>d DEF TypeOK, Api_, ApiPlace, core, loops
  <1>3. OneLoop' /\ Life' /\ Calls' /\ Interface'
    BY <1>a, <1>g, <1>d, <1>e, <1>f DEF TypeOK, OneLoop, Life, Calls, Interface, core,
       loops, Api
  <1>4. Owners' /\ PoolUse'
    <2>1. CASE PoolEmpty
      <3>1. UNCHANGED queue /\ ~Outstanding' /\ api'.at = "giveFailed"
        BY <2>1 DEF ApiQueue, Api, Outstanding, TypeOK
      <3>2. Owners'
        BY <3>1, <1>d, <1>e, <1>f DEF Owners, Owned, loops
      <3>3. PoolUse'
        BY <3>1, <1>d, <1>e, <1>f DEF PoolUse, Handling, loops
      <3> QED
        BY <3>2, <3>3
    <2>2. CASE ~PoolEmpty
      <3>1. queue' = Append(queue, api.call) /\ api'.at = "give"
        BY <2>2 DEF ApiQueue, Api, TypeOK
      <3>2. \A i \in DOMAIN queue : ~Owned(queue[i])
        BY <1>e, <1>f DEF Owners
      <3>3. \A l \in Loop : ~Owned(evt[l])
        BY <1>e, <1>f DEF Owners
      <3>4. Owned(api.call) => Outstanding'
        BY <1>g, <1>e, <1>f, <3>1 DEF Owners, Outstanding
      <3>5. \A i \in DOMAIN queue' : Owned(queue'[i]) =>
               i = Len(queue) + 1 /\ queue'[i] = api.call
        BY <3>1, <3>2, <1>c, QueueAppend
      <3>6. Owners'
        BY <3>1, <3>3, <3>4, <3>5, <1>g, <1>d DEF Owners, Owned, loops
      <3>7. ~struck => Owned(api.call)
        BY <1>c DEF Owned, Call
      <3>8. PoolUse'
        <4>1. Handling' = Handling /\ Len(queue') = Len(queue) + 1
          BY <3>1, <1>c, <1>d, QueueAppend DEF Handling, loops
        <4>2. ~struck' => ~struck /\ Outstanding'
          BY <3>4, <3>7, <1>d
        <4> QED
          BY <4>1, <4>2, <1>c, <1>d, <1>e, <1>f, HandlingNat, EvtloopAssumption
             DEF PoolUse, TypeOK
      <3> QED
        BY <3>6, <3>8
    <2> QED
      BY <2>1, <2>2
  <1>5. Wakes'
    BY <1>d, <1>e, <1>f DEF Wakes, Looked, core, loops, ApiQueue, Api, TypeOK
  <1> QED
    BY <1>2, <1>3, <1>4, <1>5 DEF Kept, Core

\* umac_core_evt_queue gives the semaphore.
LEMMA ApiGiveKept ==
    ASSUME Taken, TypeOK, Core, ApiGive
    PROVE  Kept
  <1>a. api' \in Api_
    BY ApiTyped DEF TypeOK, Call, Event, Api_, ApiPlace, ApiGive, Api,
       Give, Failed
  <1>1. TypeOK'
    BY <1>a DEF TypeOK, Call, Event, core, loops, Api_, ApiPlace, ApiGive,
       Api, Give, Failed
  <1>2. OneLoop' /\ (Running' => Life')
    BY EvtloopAssumption DEF Taken, Assumable, TypeOK, Call, Event, Core,
       Running, core, loops, others, OneLoop, Life, Live, Calls, Interface,
       ApiGive, Api, Give, Failed
  <1>3. Running' => Calls' /\ Interface'
    BY EvtloopAssumption DEF Taken, Assumable, TypeOK, Call, Event, Core,
       Running, core, loops, others, OneLoop, Life, Calls, Interface,
       ApiGive, Api, Give, Failed
  <1>c. UNCHANGED <<queue, evt, drv, drvEvents, struck>>
    BY DEF ApiGive, loops
  <1>b. Outstanding' = Outstanding
    BY DEF ApiGive, Api, Failed, Outstanding, TypeOK
  <1>4. Running' => Owners' /\ PoolUse'
    <2>1. Owners'
      BY <1>c, <1>b DEF Core, Owners, Owned, Outstanding, ApiGive, Api, TypeOK, Failed
    <2>2. PoolUse'
      BY <1>c, <1>b DEF Core, PoolUse, Handling
    <2> QED BY <2>1, <2>2
  <1>5. Running' => Wakes'
    BY EvtloopAssumption DEF TypeOK, Call, Event, Core, Running, core,
       loops, others, OneLoop, Life, Live, Calls, Interface, Wakes, Looked,
       ApiGive, Api, Give, Failed
  <1> QED
    BY <1>1, <1>2, <1>3, <1>4, <1>5 DEF Kept, Core

\* UMAC_QUEUE_EVT_AND_WAIT returns.
LEMMA ApiWaitKept ==
    ASSUME Taken, TypeOK, Core, ApiWait
    PROVE  Kept
  <1>a. api' \in Api_
    BY ApiTyped DEF TypeOK, Call, Event, Api_, ApiPlace, ApiWait, Api
  <1>1. TypeOK'
    BY <1>a DEF TypeOK, Call, Event, core, loops, Api_, ApiPlace, ApiWait,
       Api
  <1>2. OneLoop' /\ (Running' => Life')
    BY EvtloopAssumption DEF Taken, Assumable, TypeOK, Call, Event, Core,
       Running, core, loops, others, OneLoop, Life, Live, Calls, Interface,
       ApiWait, Api
  <1>3. Running' => Calls' /\ Interface'
    BY EvtloopAssumption DEF Taken, Assumable, TypeOK, Call, Event, Core,
       Running, core, loops, others, OneLoop, Life, Calls, Interface,
       ApiWait, Api
  <1>4. Running' => Owners' /\ PoolUse'
    BY EvtloopAssumption DEF TypeOK, Call, Event, Core, Running, core,
       loops, others, OneLoop, Life, Calls, Owners, Owned, Outstanding,
       PoolUse, Handling, ApiWait, Api
  <1>5. Running' => Wakes'
    BY EvtloopAssumption DEF TypeOK, Call, Event, Core, Running, core,
       loops, others, OneLoop, Life, Live, Calls, Interface, Wakes, Looked,
       ApiWait, Api
  <1> QED
    BY <1>1, <1>2, <1>3, <1>4, <1>5 DEF Kept, Core

\* umac_core_stop raises the flag.
LEMMA ApiAfterKept ==
    ASSUME Taken, TypeOK, Core, ApiAfter
    PROVE  Kept
  <1>a. \E at \in {"idle", "stop"} : Api(at)
    BY DEF ApiAfter
  <1>b. api' \in Api_
    BY <1>a, ApiTyped DEF Api, ApiPlace
  <1>c. shuttingDown' \in BOOLEAN /\ UNCHANGED <<task, semb, hasFinished, fault>>
    BY DEF ApiAfter, core, TypeOK
  <1>1. TypeOK'
    BY <1>b, <1>c DEF TypeOK, Api_, ApiPlace, ApiAfter, loops
  <1>2. OneLoop' /\ (Running' => Life')
    BY EvtloopAssumption DEF Taken, Assumable, TypeOK, Call, Event, Core,
       Running, core, loops, others, OneLoop, Life, Live, Calls, Interface,
       ApiAfter, Api
  <1>3. Running' => Calls' /\ Interface'
    BY EvtloopAssumption DEF Taken, Assumable, TypeOK, Call, Event, Core,
       Running, core, loops, others, OneLoop, Life, Calls, Interface,
       ApiAfter, Api
  <1>d. UNCHANGED <<queue, evt, drv, drvEvents, struck>>
    BY DEF ApiAfter, loops
  <1>e. ~Outstanding /\ ~Outstanding'
    BY <1>a DEF ApiAfter, Api, Outstanding, TypeOK
  <1>4. Running' => Owners' /\ PoolUse'
    <2>1. Owners'
      BY <1>a, <1>d, <1>e DEF Core, Owners, Owned, Outstanding, ApiAfter, Api, TypeOK
    <2>2. PoolUse'
      BY <1>d, <1>e DEF Core, PoolUse, Handling
    <2> QED BY <2>1, <2>2
  <1>5. Running' => Wakes'
    BY EvtloopAssumption DEF TypeOK, Call, Event, Core, Running, core,
       loops, others, OneLoop, Life, Live, Calls, Interface, Wakes, Looked,
       ApiAfter, Api
  <1> QED
    BY <1>1, <1>2, <1>3, <1>4, <1>5 DEF Kept, Core

\* umac_core_stop gives the semaphore.
LEMMA ApiStopKept ==
    ASSUME Taken, TypeOK, Core, ApiStop
    PROVE  Kept
  <1>a. api' \in Api_
    BY ApiTyped DEF TypeOK, Call, Event, Api_, ApiPlace, ApiStop, Api, Give
  <1>1. TypeOK'
    BY <1>a DEF TypeOK, Call, Event, core, loops, Api_, ApiPlace, ApiStop,
       Api, Give
  <1>2. OneLoop' /\ (Running' => Life')
    BY EvtloopAssumption DEF Taken, Assumable, TypeOK, Call, Event, Core,
       Running, core, loops, others, OneLoop, Life, Live, Calls, Interface,
       ApiStop, Api, Give
  <1>3. Running' => Calls' /\ Interface'
    BY EvtloopAssumption DEF Taken, Assumable, TypeOK, Call, Event, Core,
       Running, core, loops, others, OneLoop, Life, Calls, Interface,
       ApiStop, Api, Give
  <1>4. Running' => Owners' /\ PoolUse'
    BY EvtloopAssumption DEF TypeOK, Call, Event, Core, Running, core,
       loops, others, OneLoop, Life, Calls, Owners, Owned, Outstanding,
       PoolUse, Handling, ApiStop, Api, Give
  <1>5. Running' => Wakes'
    BY EvtloopAssumption DEF TypeOK, Call, Event, Core, Running, core,
       loops, others, OneLoop, Life, Live, Calls, Interface, Wakes, Looked,
       ApiStop, Api, Give
  <1> QED
    BY <1>1, <1>2, <1>3, <1>4, <1>5 DEF Kept, Core

\* umac_core_stop has waited for the loop.
LEMMA ApiJoinKept ==
    ASSUME Taken, TypeOK, Core, ApiJoin
    PROVE  Kept
  <1>a. api' \in Api_
    BY ApiTyped DEF TypeOK, Call, Event, Api_, ApiPlace, ApiJoin, Api
  <1>1. TypeOK'
    BY <1>a DEF TypeOK, Call, Event, core, loops, Api_, ApiPlace, ApiJoin,
       Api
  <1>2. OneLoop' /\ (Running' => Life')
    BY EvtloopAssumption DEF Taken, Assumable, TypeOK, Call, Event, Core,
       Running, core, loops, others, OneLoop, Life, Live, Calls, Interface,
       ApiJoin, Api
  <1>3. Running' => Calls' /\ Interface'
    BY EvtloopAssumption DEF Taken, Assumable, TypeOK, Call, Event, Core,
       Running, core, loops, others, OneLoop, Life, Calls, Interface,
       ApiJoin, Api
  <1>4. Running' => Owners' /\ PoolUse'
    BY EvtloopAssumption DEF TypeOK, Call, Event, Core, Running, core,
       loops, others, OneLoop, Life, Calls, Owners, Owned, Outstanding,
       PoolUse, Handling, ApiJoin, Api
  <1>5. Running' => Wakes'
    BY EvtloopAssumption DEF TypeOK, Call, Event, Core, Running, core,
       loops, others, OneLoop, Life, Live, Calls, Interface, Wakes, Looked,
       ApiJoin, Api
  <1> QED
    BY <1>1, <1>2, <1>3, <1>4, <1>5 DEF Kept, Core

\* mmwlan_tx queues a frame.
LEMMA TxQueueKept ==
    ASSUME Taken, TypeOK, Core, TxQueue
    PROVE  Kept
  <1>1. TypeOK'
    BY EvtloopAssumption DEF TypeOK, Call, Event, core, loops, others,
       TxQueue
  <1>2. OneLoop' /\ (Running' => Life')
    BY EvtloopAssumption DEF Taken, Assumable, TypeOK, Call, Event, Core,
       Running, core, loops, others, OneLoop, Life, Live, Calls, Interface,
       TxQueue
  <1>3. Running' => Calls' /\ Interface'
    BY EvtloopAssumption DEF Taken, Assumable, TypeOK, Call, Event, Core,
       Running, core, loops, others, OneLoop, Life, Calls, Interface,
       TxQueue
  <1>4. Owners' /\ PoolUse'
    BY OwnersFrame, PoolUseFrame DEF Core, loops, others, TxQueue
  <1>5. Running' => Wakes'
    BY EvtloopAssumption DEF TypeOK, Call, Event, Core, Running, core,
       loops, others, OneLoop, Life, Live, Calls, Interface, Wakes, Looked,
       TxQueue
  <1> QED
    BY <1>1, <1>2, <1>3, <1>4, <1>5 DEF Kept, Core

\* umac_core_evt_wake looks at the core.
LEMMA TxCheckKept ==
    ASSUME Taken, TypeOK, Core, TxCheck
    PROVE  Kept
  <1>1. TypeOK'
    BY EvtloopAssumption DEF TypeOK, Call, Event, core, loops, others,
       TxCheck, Refused
  <1>2. OneLoop' /\ (Running' => Life')
    BY EvtloopAssumption DEF Taken, Assumable, TypeOK, Call, Event, Core,
       Running, core, loops, others, OneLoop, Life, Live, Calls, Interface,
       TxCheck, Refused
  <1>3. Running' => Calls' /\ Interface'
    BY EvtloopAssumption DEF Taken, Assumable, TypeOK, Call, Event, Core,
       Running, core, loops, others, OneLoop, Life, Calls, Interface,
       TxCheck, Refused
  <1>4. Owners' /\ PoolUse'
    BY OwnersFrame, PoolUseFrame DEF Core, loops, others, TxCheck, Refused
  <1>5. Running' => Wakes'
    BY EvtloopAssumption DEF TypeOK, Call, Event, Core, Running, core,
       loops, others, OneLoop, Life, Live, Calls, Interface, Wakes, Looked,
       TxCheck, Refused
  <1> QED
    BY <1>1, <1>2, <1>3, <1>4, <1>5 DEF Kept, Core

\* umac_core_evt_wake gives the semaphore.
LEMMA TxGiveKept ==
    ASSUME Taken, TypeOK, Core, TxGive
    PROVE  Kept
  <1>1. TypeOK'
    BY EvtloopAssumption DEF TypeOK, Call, Event, core, loops, others,
       TxGive, Give
  <1>2. OneLoop' /\ (Running' => Life')
    BY EvtloopAssumption DEF Taken, Assumable, TypeOK, Call, Event, Core,
       Running, core, loops, others, OneLoop, Life, Live, Calls, Interface,
       TxGive, Give
  <1>3. Running' => Calls' /\ Interface'
    BY EvtloopAssumption DEF Taken, Assumable, TypeOK, Call, Event, Core,
       Running, core, loops, others, OneLoop, Life, Calls, Interface,
       TxGive, Give
  <1>4. Owners' /\ PoolUse'
    BY OwnersFrame, PoolUseFrame DEF Core, loops, others, TxGive, Give
  <1>5. Running' => Wakes'
    BY EvtloopAssumption DEF TypeOK, Call, Event, Core, Running, core,
       loops, others, OneLoop, Life, Live, Calls, Interface, Wakes, Looked,
       TxGive, Give
  <1> QED
    BY <1>1, <1>2, <1>3, <1>4, <1>5 DEF Kept, Core

\* umac_core_evt_queue_at_start looks at the core.
LEMMA DrvCheckKept ==
    ASSUME Taken, TypeOK, Core, DrvCheck
    PROVE  Kept
  <1>1. TypeOK'
    BY EvtloopAssumption DEF TypeOK, Call, Event, core, loops, others,
       DrvCheck, Refused
  <1>2. OneLoop' /\ (Running' => Life')
    BY EvtloopAssumption DEF Taken, Assumable, TypeOK, Call, Event, Core,
       Running, core, loops, others, OneLoop, Life, Live, Calls, Interface,
       DrvCheck, Refused
  <1>3. Running' => Calls' /\ Interface'
    BY EvtloopAssumption DEF Taken, Assumable, TypeOK, Call, Event, Core,
       Running, core, loops, others, OneLoop, Life, Calls, Interface,
       DrvCheck, Refused
  <1>4. Running' => Owners' /\ PoolUse'
    BY EvtloopAssumption DEF TypeOK, Call, Event, Core, Running, core,
       loops, others, OneLoop, Life, Calls, Owners, Owned, Outstanding,
       PoolUse, Handling, DrvCheck, Refused
  <1>5. Running' => Wakes'
    BY EvtloopAssumption DEF TypeOK, Call, Event, Core, Running, core,
       loops, others, OneLoop, Life, Live, Calls, Interface, Wakes, Looked,
       DrvCheck, Refused
  <1> QED
    BY <1>1, <1>2, <1>3, <1>4, <1>5 DEF Kept, Core

\* mmdrv_host_hw_restart_required puts its event at the start of the queue.
LEMMA DrvQueueKept ==
    ASSUME Taken, TypeOK, Core, DrvQueue
    PROVE  Kept
  <1>a. queue \in Seq(Event) /\ "restart" \in Event
    BY DEF TypeOK, Event
  <1>b. UNCHANGED <<work, core, iface, fatalError, loops, api, tx, drvEvents, struck>>
    BY DEF DrvQueue
  <1>c. Running /\ OneLoop /\ Life /\ Calls /\ Interface /\ Owners /\ PoolUse /\ Wakes
    BY DEF DrvQueue, Core
  <1>d. drv = "queue" /\ drv' = "give"
    BY DEF DrvQueue
  <1>1. queue' \in Seq(Event) /\ Len(queue') <= PoolSize
    <2>1. CASE PoolEmpty
      BY <2>1 DEF DrvQueue, TypeOK
    <2>2. CASE ~PoolEmpty
      <3>1. Len(queue) + Handling < PoolSize /\ queue' = <<"restart">> \o queue
        BY <2>2, <1>a, <1>c, PoolCount, HandlingNat, EvtloopAssumption DEF DrvQueue
      <3> QED
        BY <3>1, <1>a, HandlingNat, QueuePush, EvtloopAssumption
    <2> QED
      BY <2>1, <2>2
  <1>2. TypeOK'
    BY <1>1, <1>b, <1>d DEF TypeOK, DrvQueue, core, loops
  <1>3. OneLoop' /\ Life' /\ Calls' /\ Interface'
    BY <1>b, <1>c, <1>d DEF TypeOK, OneLoop, Life, Calls, Interface, core, loops
  <1>4. Running' => Owners' /\ PoolUse'
    <2> SUFFICES ASSUME Running' PROVE Owners' /\ PoolUse'
      OBVIOUS
    <2>1. queue' = <<"restart">> \o queue
      BY DEF DrvQueue, Running
    <2>2. \A i \in DOMAIN queue' : Owned(queue'[i]) =>
             i - 1 \in DOMAIN queue /\ queue'[i] = queue[i - 1]
      BY <2>1, <1>a, QueuePush DEF Owned
    <2>3. Owners'
      BY <2>2, <1>b, <1>c, <1>a DEF Owners, Owned, Outstanding, loops
    <2>4. PoolUse'
      BY <2>1, <1>a, <1>b, <1>c, <1>d, QueuePush, HandlingNat, EvtloopAssumption
         DEF PoolUse, Handling, Outstanding, loops, TypeOK
    <2> QED
      BY <2>3, <2>4
  <1>5. Wakes'
    BY <1>b, <1>c, <1>d DEF Wakes, Looked, core, loops
  <1> QED
    BY <1>2, <1>3, <1>4, <1>5 DEF Kept, Core

\* The driver task gives the semaphore.
LEMMA DrvGiveKept ==
    ASSUME Taken, TypeOK, Core, DrvGive
    PROVE  Kept
  <1>1. TypeOK'
    BY EvtloopAssumption DEF TypeOK, Call, Event, core, loops, others,
       DrvGive, Give
  <1>2. OneLoop' /\ (Running' => Life')
    BY EvtloopAssumption DEF Taken, Assumable, TypeOK, Call, Event, Core,
       Running, core, loops, others, OneLoop, Life, Live, Calls, Interface,
       DrvGive, Give
  <1>3. Running' => Calls' /\ Interface'
    BY EvtloopAssumption DEF Taken, Assumable, TypeOK, Call, Event, Core,
       Running, core, loops, others, OneLoop, Life, Calls, Interface,
       DrvGive, Give
  <1>4. Running' => Owners' /\ PoolUse'
    BY EvtloopAssumption DEF TypeOK, Call, Event, Core, Running, core,
       loops, others, OneLoop, Life, Calls, Owners, Owned, Outstanding,
       PoolUse, Handling, DrvGive, Give
  <1>5. Running' => Wakes'
    BY EvtloopAssumption DEF TypeOK, Call, Event, Core, Running, core,
       loops, others, OneLoop, Life, Live, Calls, Interface, Wakes, Looked,
       DrvGive, Give
  <1> QED
    BY <1>1, <1>2, <1>3, <1>4, <1>5 DEF Kept, Core

\* The driver task queues a frame.
LEMMA DrvFrameKept ==
    ASSUME Taken, TypeOK, Core, DrvFrame
    PROVE  Kept
  <1>1. TypeOK'
    BY EvtloopAssumption DEF TypeOK, Call, Event, core, loops, others,
       DrvFrame
  <1>2. OneLoop' /\ (Running' => Life')
    BY EvtloopAssumption DEF Taken, Assumable, TypeOK, Call, Event, Core,
       Running, core, loops, others, OneLoop, Life, Live, Calls, Interface,
       DrvFrame
  <1>3. Running' => Calls' /\ Interface'
    BY EvtloopAssumption DEF Taken, Assumable, TypeOK, Call, Event, Core,
       Running, core, loops, others, OneLoop, Life, Calls, Interface,
       DrvFrame
  <1>4. Running' => Owners' /\ PoolUse'
    BY EvtloopAssumption DEF TypeOK, Call, Event, Core, Running, core,
       loops, others, OneLoop, Life, Calls, Owners, Owned, Outstanding,
       PoolUse, Handling, DrvFrame
  <1>5. Running' => Wakes'
    BY EvtloopAssumption DEF TypeOK, Call, Event, Core, Running, core,
       loops, others, OneLoop, Life, Live, Calls, Interface, Wakes, Looked,
       DrvFrame
  <1> QED
    BY <1>1, <1>2, <1>3, <1>4, <1>5 DEF Kept, Core

\* umac_core_evt_wake in the driver task.
LEMMA DrvWakeKept ==
    ASSUME Taken, TypeOK, Core, DrvWake
    PROVE  Kept
  <1>1. TypeOK'
    BY EvtloopAssumption DEF TypeOK, Call, Event, core, loops, others,
       DrvWake, Refused
  <1>2. OneLoop' /\ (Running' => Life')
    BY EvtloopAssumption DEF Taken, Assumable, TypeOK, Call, Event, Core,
       Running, core, loops, others, OneLoop, Life, Live, Calls, Interface,
       DrvWake, Refused
  <1>3. Running' => Calls' /\ Interface'
    BY EvtloopAssumption DEF Taken, Assumable, TypeOK, Call, Event, Core,
       Running, core, loops, others, OneLoop, Life, Calls, Interface,
       DrvWake, Refused
  <1>4. Running' => Owners' /\ PoolUse'
    BY EvtloopAssumption DEF TypeOK, Call, Event, Core, Running, core,
       loops, others, OneLoop, Life, Calls, Owners, Owned, Outstanding,
       PoolUse, Handling, DrvWake, Refused
  <1>5. Running' => Wakes'
    BY EvtloopAssumption DEF TypeOK, Call, Event, Core, Running, core,
       loops, others, OneLoop, Life, Live, Calls, Interface, Wakes, Looked,
       DrvWake, Refused
  <1> QED
    BY <1>1, <1>2, <1>3, <1>4, <1>5 DEF Kept, Core

\* evtloop_main looks at the flag.
LEMMA LoopTopKept ==
    ASSUME Taken, TypeOK, Core, NEW l \in Loop, LoopTop(l)
    PROVE  Kept
  <1>1. TypeOK'
    BY EvtloopAssumption DEF TypeOK, Call, Event, core, loops, others,
       LoopTop, Goto
  <1>2. OneLoop' /\ (Running' => Life')
    BY EvtloopAssumption DEF Taken, Assumable, TypeOK, Call, Event, Core,
       Running, core, loops, others, OneLoop, Life, Live, Calls, Interface,
       LoopTop, Goto
  <1>3. Running' => Calls' /\ Interface'
    BY EvtloopAssumption DEF Taken, Assumable, TypeOK, Call, Event, Core,
       Running, core, loops, others, OneLoop, Life, Calls, Interface,
       LoopTop, Goto
  <1>4. Owners' /\ PoolUse'
    BY OwnersFrame, PoolUseFrame DEF Core, loops, others, LoopTop, Goto
  <1>5. Running' => Wakes'
    BY EvtloopAssumption DEF TypeOK, Call, Event, Core, Running, core,
       loops, others, OneLoop, Life, Live, Calls, Interface, Wakes, Looked,
       LoopTop, Goto
  <1> QED
    BY <1>1, <1>2, <1>3, <1>4, <1>5 DEF Kept, Core

\* umac_datapath_process.
LEMMA DatapathKept ==
    ASSUME Taken, TypeOK, Core, NEW l \in Loop, Datapath(l)
    PROVE  Kept
  <1>a. work' \in BOOLEAN
    BY DEF Datapath, TypeOK
  <1>b. /\ pc' \in [Loop -> {"none", "top", "datapath", "events", "handle", "wait",
                             "delete", "null", "finish", "will"}]
        /\ more' \in [Loop -> BOOLEAN]
        /\ count' \in [Loop -> 0 .. MaxDispatch]
    BY <1>a, EvtloopAssumption DEF Datapath, TypeOK, Goto
  <1>1. TypeOK'
    BY <1>a, <1>b DEF Datapath, TypeOK, core, others
  <1>2. OneLoop' /\ (Running' => Life')
    BY EvtloopAssumption DEF Taken, Assumable, TypeOK, Call, Event, Core,
       Running, core, loops, others, OneLoop, Life, Live, Calls, Interface,
       Datapath, Goto
  <1>3. Running' => Calls' /\ Interface'
    BY EvtloopAssumption DEF Taken, Assumable, TypeOK, Call, Event, Core,
       Running, core, loops, others, OneLoop, Life, Calls, Interface,
       Datapath, Goto
  <1>4. Owners' /\ PoolUse'
    BY OwnersFrame, PoolUseFrame DEF Core, loops, others, Datapath, Goto
  <1>5. Running' => Wakes'
    BY EvtloopAssumption DEF TypeOK, Call, Event, Core, Running, core,
       loops, others, OneLoop, Life, Live, Calls, Interface, Wakes, Looked,
       Datapath, Goto
  <1> QED
    BY <1>1, <1>2, <1>3, <1>4, <1>5 DEF Kept, Core

\* evtloop_iteration takes an event off the queue.
LEMMA DequeueKept ==
    ASSUME Taken, TypeOK, Core, NEW l \in Loop, Dequeue(l)
    PROVE  Kept
  <1>a. queue \in Seq(Event) /\ queue # <<>> /\ queue' = Tail(queue)
    BY DEF Dequeue, TypeOK
  <1>b. /\ pc[l] = "events" /\ count[l] < MaxDispatch
        /\ pc' = [pc EXCEPT ![l] = "handle"] /\ evt' = [evt EXCEPT ![l] = queue[1]]
    BY <1>a, QueueTail DEF Dequeue, Goto
  <1>c. UNCHANGED <<work, core, iface, fatalError, count, more, others, fault>>
    BY DEF Dequeue
  <1>d. queue[1] \in Event /\ queue[1] # NULL /\ 1 \in DOMAIN queue
    BY <1>a, QueueTail, EvtloopAssumption DEF Event, Call
  <1>e. OneLoop /\ Life /\ Calls /\ Interface /\ Owners /\ PoolUse /\ Wakes
    BY DEF Core
  <1>f. \A m \in Loop : evt[m] = NULL
    BY <1>b, <1>e DEF OneLoop
  <1>1. queue' \in Seq(Event) /\ Len(queue') <= PoolSize
    BY <1>a, QueueTail, EvtloopAssumption DEF TypeOK
  <1>2. TypeOK'
    BY <1>1, <1>b, <1>c, <1>d DEF TypeOK, core, others
  <1>3. OneLoop' /\ Life' /\ Calls' /\ Interface'
    BY <1>b, <1>c, <1>d, <1>e, <1>f DEF TypeOK, OneLoop, Life, Live, Calls, Interface, core,
       others
  <1>4. Owners'
    <2>1. \A i \in DOMAIN queue' : i + 1 \in DOMAIN queue /\ queue'[i] = queue[i + 1]
      BY <1>a, QueueTail
    <2>2. \A i \in DOMAIN queue' : Owned(queue'[i]) => ~Owned(queue[1])
      BY <2>1, <1>d, <1>e, <1>a DEF Owners
    <2>3. UNCHANGED <<api, struck>>
      BY <1>c DEF others
    <2>4. \A m \in Loop : evt'[m] = IF m = l THEN queue[1] ELSE NULL
      BY <1>b, <1>f DEF TypeOK
    <2>5. ~Owned(NULL)
      BY EvtloopAssumption DEF Owned
    <2>6. \A i \in DOMAIN queue' : Owned(queue'[i]) =>
             /\ Outstanding /\ api.call = queue'[i]
             /\ \A j \in DOMAIN queue' : Owned(queue'[j]) => j = i
             /\ \A m \in Loop : ~Owned(evt'[m])
      <3> SUFFICES ASSUME NEW i \in DOMAIN queue', Owned(queue'[i])
                   PROVE  /\ Outstanding /\ api.call = queue'[i]
                          /\ \A j \in DOMAIN queue' : Owned(queue'[j]) => j = i
                          /\ \A m \in Loop : ~Owned(evt'[m])
        OBVIOUS
      <3>1. i + 1 \in DOMAIN queue /\ Owned(queue[i + 1]) /\ queue'[i] = queue[i + 1]
        BY <2>1
      <3>2. Outstanding /\ api.call = queue'[i]
        BY <3>1, <1>e DEF Owners
      <3>3. \A j \in DOMAIN queue' : Owned(queue'[j]) => j + 1 = i + 1
        BY <3>1, <2>1, <1>e DEF Owners
      <3>4. \A m \in Loop : ~Owned(evt'[m])
        BY <2>2, <2>4, <2>5
      <3>5. \A j \in DOMAIN queue' : j \in Int
        BY <1>1
      <3> QED
        BY <3>2, <3>3, <3>4, <3>5
    <2>7. \A m \in Loop : Owned(evt'[m]) => Outstanding /\ api.call = evt'[m]
      BY <2>4, <2>5, <1>d, <1>e DEF Owners
    <2> QED
      BY <2>3, <2>6, <2>7, <1>e DEF Owners, Owned, Outstanding
  <1>5. PoolUse'
    <2>1. Handling = 0 /\ Handling' = 1
      BY <1>b, <1>d, <1>f DEF Handling, TypeOK
    <2>2. Len(queue') = Len(queue) - 1 /\ Len(queue) \in Nat
      BY <1>a, QueueTail
    <2>3. UNCHANGED <<drv, drvEvents, struck>> /\ (Outstanding' <=> Outstanding)
      BY <1>c DEF others, Outstanding
    <2> QED
      BY <2>1, <2>2, <2>3, <1>e, EvtloopAssumption DEF PoolUse, TypeOK
  <1>6. Wakes'
    BY <1>b, <1>c, <1>e DEF TypeOK, OneLoop, Wakes, Looked, core, others
  <1> QED
    BY <1>2, <1>3, <1>4, <1>5, <1>6 DEF Kept, Core

\* What every handler does to the loop task and to the pool.
LEMMA HandledStep ==
    ASSUME TypeOK, Core, NEW l \in Loop, Handled(l)
    PROVE  /\ pc[l] = "handle" /\ evt[l] # NULL
           /\ \A m \in Loop : m # l => pc[m] = "none"
           /\ pc' = [pc EXCEPT ![l] = "events"] /\ UNCHANGED more
           /\ pc' \in [Loop -> {"none", "top", "datapath", "events", "handle", "wait",
                                "delete", "null", "finish", "will"}]
           /\ evt' \in [Loop -> Event \cup {NULL}]
           /\ count' \in [Loop -> 0 .. MaxDispatch]
           /\ \A m \in Loop : evt'[m] = NULL
           /\ Handling = 1 /\ Handling' = 0
           /\ OneLoop'
  <1>1. /\ pc[l] = "handle" /\ pc' = [pc EXCEPT ![l] = "events"]
        /\ evt' = [evt EXCEPT ![l] = NULL] /\ count' = [count EXCEPT ![l] = @ + 1]
        /\ UNCHANGED more
    BY DEF Handled, Goto
  <1>2. /\ evt[l] # NULL /\ count[l] < MaxDispatch
        /\ \A m \in Loop : m # l => pc[m] = "none" /\ evt[m] = NULL
    BY <1>1 DEF Core, OneLoop
  <1>3. \A m \in Loop : evt'[m] = NULL
    BY <1>1, <1>2 DEF TypeOK
  <1>4. Handling = 1 /\ Handling' = 0
    BY <1>2, <1>3 DEF Handling
  <1>5. /\ pc' \in [Loop -> {"none", "top", "datapath", "events", "handle", "wait",
                             "delete", "null", "finish", "will"}]
        /\ evt' \in [Loop -> Event \cup {NULL}]
    BY <1>1 DEF TypeOK
  <1>6. count[l] + 1 \in 0 .. MaxDispatch
    BY <1>2, EvtloopAssumption DEF TypeOK
  <1>7. count' \in [Loop -> 0 .. MaxDispatch]
    BY <1>1, <1>6 DEF TypeOK
  <1>8. OneLoop'
    BY <1>1, <1>2, <1>3 DEF TypeOK, OneLoop
  <1> QED
    BY <1>1, <1>2, <1>3, <1>4, <1>5, <1>7, <1>8

\* What the answer of a handler does to the call.
LEMMA AnswerStep ==
    ASSUME TypeOK, NEW calls, Answer(calls)
    PROVE  /\ api' \in Api_
           /\ api'.at = api.at /\ api'.call = api.call /\ api'.new = api.new
           /\ IF api.call \in calls THEN api'.done = TRUE ELSE api'.done = api.done
  <1>1. api \in Api_
    BY DEF TypeOK, Api_, ApiPlace
  <1>2. CASE api.call \in calls
    <2>1. api' = [api EXCEPT !.done = TRUE]
      BY <1>2 DEF Answer
    <2> QED
      BY <1>1, <1>2, <2>1 DEF Api_
  <1>3. CASE api.call \notin calls
    BY <1>1, <1>3 DEF Answer
  <1> QED
    BY <1>2, <1>3

\* A handler that answers its own event, or a shutdown that a fatal error has
\* answered before, settles the account of events.
LEMMA AnswerOwners ==
    ASSUME TypeOK, Core, NEW l \in Loop, Handled(l), Answer({evt[l]}),
           UNCHANGED <<queue, drv, drvEvents, struck>>
    PROVE  Owners' /\ PoolUse'
  <1>1. Owners /\ PoolUse
    BY DEF Core
  <1>2. /\ api'.at = api.at /\ api'.call = api.call
        /\ IF api.call \in {evt[l]} THEN api'.done = TRUE ELSE api'.done = api.done
    BY AnswerStep, Zenon
  <1>3. \A m \in Loop : ~Owned(evt'[m])
    BY HandledStep, EvtloopAssumption DEF Owned
  <1>4. \A e : Owned(e)' <=> Owned(e)
    BY DEF Owned
  <1>5. Owned(evt[l]) => \A i \in DOMAIN queue : ~Owned(queue[i])
    BY <1>1 DEF Owners
  <1>6. \A i \in DOMAIN queue : Owned(queue[i]) =>
           api.call = queue[i] /\ api.call # evt[l]
    BY <1>1, <1>5 DEF Owners
  <1>7. Owners'
    BY <1>1, <1>2, <1>3, <1>5, <1>6 DEF Owners, Owned, Outstanding
  <1>8. ~struck => evt[l] = "restart" \/ Owned(evt[l])
    BY HandledStep DEF TypeOK, Event, Call, Owned
  <1>9. api.call # "restart"
    BY DEF TypeOK, Call
  <1>10. ~struck => IF evt[l] = "restart" THEN Outstanding' <=> Outstanding
                                          ELSE Outstanding /\ ~Outstanding'
    BY <1>1, <1>2, <1>8, <1>9 DEF Owners, Outstanding
  <1>11. PoolUse'
    <2>1. Handling = 1 /\ Handling' = 0 /\ Len(queue') = Len(queue) /\ Len(queue) \in Nat
      BY HandledStep DEF TypeOK
    <2> QED
      BY <2>1, <1>1, <1>10, EvtloopAssumption DEF PoolUse, TypeOK
  <1> QED
    BY <1>7, <1>11

\* umac_connection_start_evt_handler.  The call that waits for it found the core
\* running, and no fatal error has struck since.
LEMMA HandleUpKept ==
    ASSUME Taken, TypeOK, Core, NEW l \in Loop, HandleUp(l)
    PROVE  Kept
  <1>a. evt[l] = "up" /\ Handled(l) /\ Answer({evt[l]}) /\ iface' \in BOOLEAN
    BY DEF HandleUp
  <1>b. UNCHANGED <<queue, work, core, fatalError, tx, drv, drvEvents, struck, fault>>
    BY DEF HandleUp
  <1>c. OneLoop /\ Life /\ Calls /\ Interface /\ Owners /\ Wakes
    BY DEF Core
  <1>d. /\ api' \in Api_
        /\ api'.at = api.at /\ api'.call = api.call /\ api'.new = api.new
    BY <1>a, AnswerStep, Zenon
  <1>e. api.at \in {"give", "wait"} /\ task # NULL /\ ~shuttingDown
    BY <1>a, <1>c DEF Owners, Owned, Outstanding, Calls
  <1>1. TypeOK'
    BY <1>a, <1>b, <1>d, HandledStep DEF TypeOK, Api_, ApiPlace, core
  <1>2. OneLoop'
    BY <1>a, HandledStep
  <1>3. Life' /\ Calls'
    BY <1>a, <1>b, <1>c, <1>d, <1>e, HandledStep DEF TypeOK, Life, Live, Calls, core
  <1>4. Interface'
    BY <1>b, <1>c, <1>e DEF HandleUp, Interface, core
  <1>5. Owners' /\ PoolUse'
    BY <1>a, <1>b, AnswerOwners
  <1>6. Wakes'
    BY <1>a, <1>b, <1>c, <1>d, HandledStep DEF TypeOK, Wakes, Looked, core
  <1> QED
    BY <1>1, <1>2, <1>3, <1>4, <1>5, <1>6 DEF Kept, Core

\* umac_shutdown_evt_handler, and the handlers that leave the interface alone.
LEMMA HandleOtherKept ==
    ASSUME Taken, TypeOK, Core, NEW l \in Loop, HandleDown(l) \/ HandleOther(l)
    PROVE  Kept
  <1>a. Handled(l) /\ Answer({evt[l]}) /\ (iface' => iface) /\ iface' \in BOOLEAN
    <2>1. CASE HandleDown(l)
      BY <2>1 DEF HandleDown
    <2>2. CASE HandleOther(l)
      BY <2>2 DEF HandleOther, TypeOK
    <2> QED
      BY <2>1, <2>2
  <1>b. UNCHANGED <<queue, work, core, fatalError, tx, drv, drvEvents, struck, fault>>
    BY DEF HandleDown, HandleOther
  <1>c. OneLoop /\ Life /\ Calls /\ Interface /\ Owners /\ Wakes
    BY DEF Core
  <1>d. /\ api' \in Api_
        /\ api'.at = api.at /\ api'.call = api.call /\ api'.new = api.new
    BY <1>a, AnswerStep, Zenon
  <1>1. TypeOK'
    BY <1>a, <1>b, <1>d, HandledStep DEF TypeOK, Api_, ApiPlace, core
  <1>2. OneLoop'
    BY <1>a, HandledStep
  <1>3. Life' /\ Calls'
    BY <1>a, <1>b, <1>c, <1>d, HandledStep DEF TypeOK, Life, Live, Calls, core
  <1>4. Interface'
    BY <1>a, <1>b, <1>c DEF HandleDown, HandleOther, Interface, core
  <1>5. Owners' /\ PoolUse'
    BY <1>a, <1>b, AnswerOwners
  <1>6. Wakes'
    BY <1>a, <1>b, <1>c, <1>d, HandledStep DEF TypeOK, Wakes, Looked, core
  <1> QED
    BY <1>1, <1>2, <1>3, <1>4, <1>5, <1>6 DEF Kept, Core

\* umac_fatal_error.  The interface is active, so that nobody stops the loop and
\* the loop is evtloop_task.
LEMMA HandleFatalKept ==
    ASSUME Taken, TypeOK, Core, NEW l \in Loop, HandleFatal(l)
    PROVE  Kept /\ Running'
  <1>a. /\ evt[l] = "restart" /\ Handled(l) /\ Answer({"down"}) /\ Running
        /\ iface /\ iface' = FALSE /\ drv = "idle"
        /\ fatalError' = TRUE /\ struck' = TRUE
        /\ api.at = "idle" \/ api.call # "up"
    BY DEF HandleFatal, Handled, Taken, Assumable
  <1>b. UNCHANGED <<queue, work, tx, drv, drvEvents>>
    BY DEF HandleFatal
  <1>c. OneLoop /\ Life /\ Calls /\ Interface /\ Owners /\ Wakes
    BY DEF Core
  <1>d. /\ api' \in Api_
        /\ api'.at = api.at /\ api'.call = api.call /\ api'.new = api.new
        /\ IF api.call \in {"down"} THEN api'.done = TRUE ELSE api'.done = api.done
    BY <1>a, AnswerStep, Zenon
  <1>e. ~shuttingDown /\ task = l
    BY <1>a, <1>c, HandledStep DEF Interface, Life, TypeOK
  <1>f. semb \in {"clear", "given"}
    BY <1>a, <1>c, HandledStep DEF Life, Live
  <1>g. /\ task' = NULL /\ semb' = "given" /\ shuttingDown' = TRUE
        /\ UNCHANGED <<hasFinished, fault>>
    BY <1>e, <1>f DEF HandleFatal, Give
  <1>h. {iface', fatalError', struck', shuttingDown'} \subseteq BOOLEAN
    BY <1>a, <1>g
  <1>1. TypeOK'
    BY <1>a, <1>b, <1>d, <1>g, <1>h, HandledStep DEF TypeOK, Api_, ApiPlace
  <1>2. OneLoop'
    BY <1>a, HandledStep
  <1>i. api.at \notin {"created", "stop", "join"}
    BY <1>c, <1>e, EvtloopAssumption DEF Calls
  <1>3. Life'
    BY <1>a, <1>c, <1>d, <1>g, <1>i, HandledStep DEF TypeOK, Life, Live
  <1>4. Calls' /\ Interface'
    BY <1>a, <1>b, <1>c, <1>d, <1>g, <1>i DEF TypeOK, Calls, Interface
  <1>5. Owners'
    <2>1. \A m \in Loop : evt'[m] = NULL
      BY <1>a, HandledStep
    <2>2. ~Owned(NULL)' /\ ~Owned("down")'
      BY <1>a, EvtloopAssumption DEF Owned
    <2> QED
      BY <2>1, <2>2, <1>b, <1>c, <1>d, <1>a DEF Owners, Owned, Outstanding
  <1>6. PoolUse'
    BY <1>a DEF PoolUse
  <1>7. Wakes'
    BY <1>a, <1>g, <1>d, <1>i, HandledStep DEF Wakes
  <1> QED
    BY <1>a, <1>1, <1>2, <1>3, <1>4, <1>5, <1>6, <1>7, <1>g DEF Kept, Core, Running

\* evtloop_iteration has dispatched what it may.
LEMMA DecideKept ==
    ASSUME Taken, TypeOK, Core, NEW l \in Loop, Decide(l)
    PROVE  Kept
  <1>1. TypeOK'
    BY EvtloopAssumption DEF TypeOK, Call, Event, core, loops, others,
       Decide, Goto
  <1>2. OneLoop' /\ (Running' => Life')
    BY EvtloopAssumption DEF Taken, Assumable, TypeOK, Call, Event, Core,
       Running, core, loops, others, OneLoop, Life, Live, Calls, Interface,
       Decide, Goto
  <1>3. Running' => Calls' /\ Interface'
    BY EvtloopAssumption DEF Taken, Assumable, TypeOK, Call, Event, Core,
       Running, core, loops, others, OneLoop, Life, Calls, Interface,
       Decide, Goto
  <1>4. Owners' /\ PoolUse'
    BY OwnersFrame, PoolUseFrame DEF Core, loops, others, Decide, Goto
  <1>5. Running' => Wakes'
    BY EvtloopAssumption DEF TypeOK, Call, Event, Core, Running, core,
       loops, others, OneLoop, Life, Live, Calls, Interface, Wakes, Looked,
       Decide, Goto
  <1> QED
    BY <1>1, <1>2, <1>3, <1>4, <1>5 DEF Kept, Core

\* The loop takes the semaphore.
LEMMA WaitKept ==
    ASSUME Taken, TypeOK, Core, NEW l \in Loop, Wait(l)
    PROVE  Kept
  <1>1. TypeOK'
    BY EvtloopAssumption DEF TypeOK, Call, Event, core, loops, others,
       Wait, Goto
  <1>2. OneLoop' /\ (Running' => Life')
    BY EvtloopAssumption DEF Taken, Assumable, TypeOK, Call, Event, Core,
       Running, core, loops, others, OneLoop, Life, Live, Calls, Interface,
       Wait, Goto
  <1>3. Running' => Calls' /\ Interface'
    BY EvtloopAssumption DEF Taken, Assumable, TypeOK, Call, Event, Core,
       Running, core, loops, others, OneLoop, Life, Calls, Interface, Wait,
       Goto
  <1>4. Owners' /\ PoolUse'
    BY OwnersFrame, PoolUseFrame DEF Core, loops, others, Wait, Goto
  <1>5. Running' => Wakes'
    BY EvtloopAssumption DEF TypeOK, Call, Event, Core, Running, core,
       loops, others, OneLoop, Life, Live, Calls, Interface, Wakes, Looked,
       Wait, Goto
  <1> QED
    BY <1>1, <1>2, <1>3, <1>4, <1>5 DEF Kept, Core

\* The wait for the semaphore times out.
LEMMA WaitTimeoutKept ==
    ASSUME Taken, TypeOK, Core, NEW l \in Loop, WaitTimeout(l)
    PROVE  Kept
  <1>1. TypeOK'
    BY EvtloopAssumption DEF TypeOK, Call, Event, core, loops, others,
       WaitTimeout, Goto
  <1>2. OneLoop' /\ (Running' => Life')
    BY EvtloopAssumption DEF Taken, Assumable, TypeOK, Call, Event, Core,
       Running, core, loops, others, OneLoop, Life, Live, Calls, Interface,
       WaitTimeout, Goto
  <1>3. Running' => Calls' /\ Interface'
    BY EvtloopAssumption DEF Taken, Assumable, TypeOK, Call, Event, Core,
       Running, core, loops, others, OneLoop, Life, Calls, Interface,
       WaitTimeout, Goto
  <1>4. Owners' /\ PoolUse'
    BY OwnersFrame, PoolUseFrame DEF Core, loops, others, WaitTimeout, Goto
  <1>5. Running' => Wakes'
    BY EvtloopAssumption DEF TypeOK, Call, Event, Core, Running, core,
       loops, others, OneLoop, Life, Live, Calls, Interface, Wakes, Looked,
       WaitTimeout, Goto
  <1> QED
    BY <1>1, <1>2, <1>3, <1>4, <1>5 DEF Kept, Core

\* evtloop_main deletes the semaphore.
LEMMA DeleteKept ==
    ASSUME Taken, TypeOK, Core, NEW l \in Loop, Delete(l)
    PROVE  Kept
  <1>1. TypeOK'
    BY EvtloopAssumption DEF TypeOK, Call, Event, core, loops, others,
       Delete, Goto
  <1>2. OneLoop' /\ (Running' => Life')
    BY EvtloopAssumption DEF Taken, Assumable, TypeOK, Call, Event, Core,
       Running, core, loops, others, OneLoop, Life, Live, Calls, Interface,
       Delete, Goto
  <1>3. Running' => Calls' /\ Interface'
    BY EvtloopAssumption DEF Taken, Assumable, TypeOK, Call, Event, Core,
       Running, core, loops, others, OneLoop, Life, Calls, Interface,
       Delete, Goto
  <1>4. Owners' /\ PoolUse'
    BY OwnersFrame, PoolUseFrame DEF Core, loops, others, Delete, Goto
  <1>5. Running' => Wakes'
    BY EvtloopAssumption DEF TypeOK, Call, Event, Core, Running, core,
       loops, others, OneLoop, Life, Live, Calls, Interface, Wakes, Looked,
       Delete, Goto
  <1> QED
    BY <1>1, <1>2, <1>3, <1>4, <1>5 DEF Kept, Core

\* evtloop_main clears the pointer to it.
LEMMA SetNullKept ==
    ASSUME Taken, TypeOK, Core, NEW l \in Loop, SetNull(l)
    PROVE  Kept
  <1>1. TypeOK'
    BY EvtloopAssumption DEF TypeOK, Call, Event, core, loops, others,
       SetNull, Goto
  <1>2. OneLoop' /\ (Running' => Life')
    BY EvtloopAssumption DEF Taken, Assumable, TypeOK, Call, Event, Core,
       Running, core, loops, others, OneLoop, Life, Live, Calls, Interface,
       SetNull, Goto
  <1>3. Running' => Calls' /\ Interface'
    BY EvtloopAssumption DEF Taken, Assumable, TypeOK, Call, Event, Core,
       Running, core, loops, others, OneLoop, Life, Calls, Interface,
       SetNull, Goto
  <1>4. Owners' /\ PoolUse'
    BY OwnersFrame, PoolUseFrame DEF Core, loops, others, SetNull, Goto
  <1>5. Running' => Wakes'
    BY EvtloopAssumption DEF TypeOK, Call, Event, Core, Running, core,
       loops, others, OneLoop, Life, Live, Calls, Interface, Wakes, Looked,
       SetNull, Goto
  <1> QED
    BY <1>1, <1>2, <1>3, <1>4, <1>5 DEF Kept, Core

\* evtloop_main reports that it has finished.
LEMMA FinishKept ==
    ASSUME Taken, TypeOK, Core, NEW l \in Loop, Finish(l)
    PROVE  Kept
  <1>1. TypeOK'
    BY EvtloopAssumption DEF TypeOK, Call, Event, core, loops, others,
       Finish, Goto
  <1>2. OneLoop' /\ (Running' => Life')
    BY EvtloopAssumption DEF Taken, Assumable, TypeOK, Call, Event, Core,
       Running, core, loops, others, OneLoop, Life, Live, Calls, Interface,
       Finish, Goto
  <1>3. Running' => Calls' /\ Interface'
    BY EvtloopAssumption DEF Taken, Assumable, TypeOK, Call, Event, Core,
       Running, core, loops, others, OneLoop, Life, Calls, Interface,
       Finish, Goto
  <1>4. Owners' /\ PoolUse'
    BY OwnersFrame, PoolUseFrame DEF Core, loops, others, Finish, Goto
  <1>5. Running' => Wakes'
    BY EvtloopAssumption DEF TypeOK, Call, Event, Core, Running, core,
       loops, others, OneLoop, Life, Live, Calls, Interface, Wakes, Looked,
       Finish, Goto
  <1> QED
    BY <1>1, <1>2, <1>3, <1>4, <1>5 DEF Kept, Core

\* umac_last_will_and_testament.
LEMMA LastWillKept ==
    ASSUME Taken, TypeOK, Core, NEW l \in Loop, LastWill(l)
    PROVE  Kept
  <1>a. fatalError' \in BOOLEAN
    BY DEF LastWill
  <1>1. TypeOK'
    BY <1>a DEF LastWill, TypeOK, Goto, core, others
  <1>2. OneLoop' /\ (Running' => Life')
    BY EvtloopAssumption DEF Taken, Assumable, TypeOK, Call, Event, Core,
       Running, core, loops, others, OneLoop, Life, Live, Calls, Interface,
       LastWill, Goto
  <1>3. Running' => Calls' /\ Interface'
    BY EvtloopAssumption DEF Taken, Assumable, TypeOK, Call, Event, Core,
       Running, core, loops, others, OneLoop, Life, Calls, Interface,
       LastWill, Goto
  <1>4. Owners' /\ PoolUse'
    BY OwnersFrame, PoolUseFrame DEF Core, loops, others, LastWill, Goto
  <1>5. Running' => Wakes'
    BY EvtloopAssumption DEF TypeOK, Call, Event, Core, Running, core,
       loops, others, OneLoop, Life, Live, Calls, Interface, Wakes, Looked,
       LastWill, Goto
  <1> QED
    BY <1>1, <1>2, <1>3, <1>4, <1>5 DEF Kept, Core

-----------------------------------------------------------------------------
(* The theorems                                                            *)

\* Every step keeps the invariant, as long as there are steps.
LEMMA NextKept ==
    ASSUME Taken, TypeOK, Core, Next
    PROVE  Kept
  <1>1. CASE ApiUp
    BY <1>1, ApiUpKept
  <1>2. CASE \E c \in {"down", "request"} : ApiCall(c)
    BY <1>2, ApiCallKept
  <1>3. CASE ApiStep
    BY <1>3, ApiCreatedKept, ApiCheckKept, ApiQueueKept, ApiGiveKept, ApiWaitKept,
       ApiAfterKept, ApiStopKept, ApiJoinKept DEF ApiStep
  <1>4. CASE TxQueue \/ TxStep
    BY <1>4, TxQueueKept, TxCheckKept, TxGiveKept DEF TxStep
  <1>5. CASE DrvCheck \/ DrvFrame \/ DrvStep
    BY <1>5, DrvCheckKept, DrvFrameKept, DrvQueueKept, DrvGiveKept, DrvWakeKept
       DEF DrvStep
  <1>6. ASSUME NEW l \in Loop, LoopStep(l) \/ WaitTimeout(l)
        PROVE  Kept
    BY <1>6, LoopTopKept, DatapathKept, DequeueKept, HandleUpKept, HandleOtherKept,
       HandleFatalKept, DecideKept, WaitKept, WaitTimeoutKept, DeleteKept, SetNullKept,
       FinishKept, LastWillKept DEF LoopStep
  <1> QED
    BY <1>1, <1>2, <1>3, <1>4, <1>5, <1>6 DEF Next

\* What the invariant says of a system that has not failed.
LEMMA CoreSafe ==
    ASSUME TypeOK, Core
    PROVE  NoLostWakeup /\ ShutDownAtHandler
  <1>1. NoLostWakeup
    BY DEF TypeOK, Core, Wakes, Looked, NoLostWakeup
  <1>2. ShutDownAtHandler
    BY DEF TypeOK, Core, Life, Interface, ShutDownAtHandler
  <1> QED
    BY <1>1, <1>2

\* Every step begins in a system that has not failed.
LEMMA Stopped == ASSUME Next PROVE Running
  BY DEF Next, ApiUp, ApiCall, ApiStep, ApiCreated, ApiCheck, ApiQueue, ApiGive, ApiWait,
     ApiAfter, ApiStop, ApiJoin, TxQueue, TxStep, TxCheck, TxGive, DrvCheck, DrvFrame,
     DrvStep, DrvQueue, DrvGive, DrvWake, LoopStep, LoopTop, Datapath, Dequeue, HandleUp,
     HandleDown, HandleOther, HandleFatal, Handled, Decide, Wait, WaitTimeout, Delete,
     SetNull, Finish, LastWill

\* The steps that can fail: a semaphore is given that is gone, or the pool has no
\* node for the driver.  Neither touches the loop.
LEMMA FaultStep ==
    ASSUME Taken, TypeOK, Core, Next, ~Running'
    PROVE  /\ \/ ApiGive /\ fault' = "QUEUE" /\ semb' \notin {"clear", "given"}
              \/ ApiStop /\ fault' = "STOP" /\ semb' \notin {"clear", "given"}
              \/ TxGive /\ fault' = "TX" /\ semb' \notin {"clear", "given"}
              \/ DrvQueue /\ PoolEmpty /\ drv' = "give"
           /\ UNCHANGED <<pc, task, iface, fatalError>>
  <1>a. Running
    BY Stopped
  <1>1. CASE ApiUp \/ (\E c \in {"down", "request"} : ApiCall(c))
    BY <1>1, <1>a DEF ApiUp, ApiCall, Running
  <1>2. CASE ApiStep
    BY <1>2, <1>a DEF ApiStep, ApiCreated, ApiCheck, ApiQueue, ApiGive, ApiWait, ApiAfter,
       ApiStop, ApiJoin, Give, Running, loops
  <1>3. CASE TxQueue \/ TxStep
    BY <1>3, <1>a DEF TxQueue, TxStep, TxCheck, TxGive, Give, Running, loops
  <1>4. CASE DrvCheck
    BY <1>4, <1>a DEF DrvCheck, Running, Core, Interface, Refused
  <1>5. CASE DrvFrame \/ DrvWake
    BY <1>5, <1>a DEF DrvFrame, DrvWake, Running
  <1>6. CASE DrvQueue
    BY <1>6, <1>a DEF DrvQueue, Running, loops, core
  <1>7. CASE DrvGive
    <2>1. semb \in {"clear", "given"}
      BY <1>7 DEF DrvGive, TypeOK, Core, Interface, Life, Live
    <2> QED
      BY <1>7, <1>a, <2>1 DEF DrvGive, Give, Running
  <1>8. ASSUME NEW l \in Loop, LoopStep(l) \/ WaitTimeout(l)
        PROVE  FALSE
    <2>1. CASE HandleFatal(l)
      BY <2>1, HandleFatalKept
    <2>2. CASE Wait(l) \/ Delete(l)
      <3>1. semb \in {"clear", "given"}
        BY <2>2 DEF Wait, Delete, Core, Life, Live
      <3> QED
        BY <2>2, <1>a, <3>1 DEF Wait, Delete, Running
    <2> QED
      BY <1>8, <1>a, <2>1, <2>2 DEF LoopStep, LoopTop, Datapath, Dequeue, HandleUp, HandleDown,
         HandleOther, Decide, WaitTimeout, SetNull, Finish, LastWill, Running
  <1> QED
    BY <1>1, <1>2, <1>3, <1>4, <1>5, <1>6, <1>7, <1>8 DEF Next, DrvStep

\* A step that fails leaves no wake-up lost and fails for a known reason.
LEMMA FaultSafe ==
    ASSUME Taken, TypeOK, Core, Next, ~Running'
    PROVE  /\ NoLostWakeup' /\ ShutDownAtHandler'
           /\ MaxDrvEvents < PoolSize => NoFault'
  <1>1. NoLostWakeup' /\ ShutDownAtHandler'
    BY FaultStep, CoreSafe DEF NoLostWakeup, ShutDownAtHandler
  <1>2. CASE ApiGive /\ semb' \notin {"clear", "given"}
    <2>1. struck
      BY <1>2 DEF ApiGive, Give, Core, TypeOK, Calls, Life, Live
    <2> QED
      BY <1>1, <1>2, <2>1 DEF ApiGive, NoFault
  <1>3. CASE DrvQueue /\ PoolEmpty
    <2>1. OneLoop /\ PoolUse
      BY DEF Core
    <2>2. Len(queue) + Handling >= PoolSize
      BY <1>3, <2>1, PoolCount
    <2>3. drv = "queue" /\ UNCHANGED struck
      BY <1>3 DEF DrvQueue
    <2>4. MaxDrvEvents < PoolSize => struck
      BY <2>1, <2>2, <2>3, HandlingNat, EvtloopAssumption DEF PoolUse, TypeOK
    <2> QED
      BY <1>1, <2>3, <2>4 DEF NoFault
  <1> QED
    BY <1>1, <1>2, <1>3, FaultStep DEF NoFault

\* The loop has no one when the system starts.
LEMMA InitIInv == Init => IInv
  <1> SUFFICES ASSUME Init PROVE IInv
    OBVIOUS
  <1>1. /\ {work, shuttingDown, hasFinished, iface, fatalError, struck} \subseteq BOOLEAN
        /\ api \in Api_
    BY DEF Init, Api_, ApiPlace, Call
  <1>2. TypeOK
    BY <1>1, EvtloopAssumption DEF Init, TypeOK, Api_, ApiPlace
  <1>3. OneLoop /\ Life /\ Calls /\ Interface /\ Wakes
    BY EvtloopAssumption DEF Init, OneLoop, Life, Live, Calls, Interface, Wakes, Looked
  <1>4. Owners /\ PoolUse
    BY EvtloopAssumption DEF Init, Owners, Owned, Outstanding, PoolUse, Handling
  <1>5. NoFault
    BY DEF Init, NoFault
  <1> QED
    BY <1>2, <1>3, <1>4, <1>5, CoreSafe DEF IInv, Core

\* The invariant is one.
LEMMA Invariance == ASSUME Taken PROVE Spec => []IInv
  <1>1. ASSUME IInv, [Next]_vars PROVE IInv'
    <2>1. CASE UNCHANGED vars
      <3>1. TypeOK' /\ OneLoop'
        BY <1>1, <2>1 DEF vars, core, loops, others, IInv, TypeOK, OneLoop
      <3>2. NoLostWakeup' /\ ShutDownAtHandler' /\ (NoFault => NoFault')
        BY <1>1, <2>1 DEF vars, core, loops, others, IInv, NoLostWakeup,
           ShutDownAtHandler, NoFault
      <3>3. ASSUME Running' PROVE Core'
        <4>1. Core
          BY <1>1, <2>1, <3>3 DEF vars, IInv, Running
        <4>2. Life' /\ Calls' /\ Interface'
          BY <2>1, <4>1 DEF vars, core, loops, others, Core, Life, Calls, Interface
        <4>3. Owners' /\ PoolUse'
          BY <2>1, <4>1, OwnersFrame, PoolUseFrame DEF vars, loops, others, Core
        <4>4. Wakes'
          BY <2>1, <4>1 DEF vars, core, loops, others, Core, Wakes, Looked
        <4> QED
          BY <3>1, <4>2, <4>3, <4>4 DEF Core
      <3> QED
        BY <1>1, <3>1, <3>2, <3>3 DEF IInv
    <2>2. CASE Next
      <3>1. TypeOK /\ Core /\ Kept
        BY <1>1, <2>2, NextKept, Stopped DEF IInv
      <3>2. CASE Running'
        <4>1. NoLostWakeup' /\ ShutDownAtHandler'
          BY <3>1, <3>2, CoreSafe, PTL DEF Kept
        <4> QED
          BY <3>1, <3>2, <4>1 DEF Kept, IInv, NoFault, Running
      <3>3. CASE ~Running'
        BY <2>2, <3>1, <3>3, FaultSafe DEF Kept, IInv
      <3> QED
        BY <3>2, <3>3
    <2> QED
      BY <1>1, <2>1, <2>2
  <1> QED
    BY <1>1, InitIInv, PTL DEF Spec

\* Two loop tasks are never there at once: the invariant, as a number.
LEMMA OneLoopCounts == ASSUME OneLoop PROVE SingleLoop
  <1>1. CASE \A l \in Loop : pc[l] = "none"
    <2>1. { l \in Loop : pc[l] # "none" } = {}
      BY <1>1
    <2> QED
      BY <2>1, FS_EmptySet DEF SingleLoop
  <1>2. CASE \E l \in Loop : pc[l] # "none"
    <2>1. PICK l \in Loop : pc[l] # "none"
      BY <1>2
    <2>2. { m \in Loop : pc[m] # "none" } = {l}
      BY <2>1 DEF OneLoop
    <2> QED
      BY <2>2, FS_Singleton DEF SingleLoop
  <1> QED
    BY <1>1, <1>2

\* The loop, whoever starts, stops and wakes it, is one at a time and loses no
\* wake-up (evtloop_main, umac_core_start, umac_core_stop): for every pool size,
\* number of events dispatched at once and number of loop tasks started.
THEOREM LoopSoundness ==
    ASSUME Taken PROVE Spec => []LoopSound
  <1>1. IInv => LoopSound
    BY OneLoopCounts DEF IInv, LoopSound
  <1> QED
    BY <1>1, Invariance, PTL

\* When umac_last_will_and_testament calls the handler of a fatal error there is
\* no interface and no event loop but the one that makes the call.
THEOREM HandlerShutDown ==
    ASSUME Taken PROVE Spec => []ShutDownAtHandler
  <1>1. IInv => ShutDownAtHandler
    BY DEF IInv
  <1> QED
    BY <1>1, Invariance, PTL

\* Before a fatal error no semaphore is used that is not there, but by mmwlan_tx
\* and by umac_core_stop, and the driver always gets a node of the pool for its
\* restart event when the pool has more nodes than it queues events.
THEOREM FaultFree ==
    ASSUME Taken, MaxDrvEvents < PoolSize PROVE Spec => []NoFault
  <1>1. IInv => NoFault
    BY DEF IInv
  <1> QED
    BY <1>1, Invariance, PTL

====
