------------------------ MODULE TxFlowControlProofs -------------------------
(***************************************************************************)
(* The theorems about TxFlowControl, for any number of application tasks,  *)
(* both packet memories, any size of them and any number of pauses.        *)
(***************************************************************************)
EXTENDS TxFlowControl, FiniteSetTheorems, TLAPS

-----------------------------------------------------------------------------
(* The inductive invariant, in parts                                       *)

\* What TypeOK says but for the bounds on packets, which follow from their
\* conservation.
Types ==
    /\ memory \in {"heap", "static"}
    /\ allocated \in Nat
    /\ poolPaused \in BOOLEAN
    /\ txPaused \subseteq Source
    /\ sem \in BOOLEAN /\ semb \in BOOLEAN /\ crowded \in BOOLEAN
    /\ txq \in Nat /\ statusq \in Nat /\ drvq \in Nat
    /\ calls \in 0 .. EvtRoom
    /\ told \in State
    /\ job \in [Task -> Job]
    /\ pauses \in 0 .. MaxPauses

\* What an application, the driver task and the event loop can be doing, where
\* each goes on after a call, and where it can hold a packet.
AppJob(j) ==
    /\ j.source = "PKTMEM"
    /\ \/ j.at \in {"ready", "wait"} /\ ~j.packet
       \/ j.at \in {"alloc", "undo"} /\ ~j.packet /\ j.next = "queue"
       \/ j.at \in {"examine", "pausing", "update", "tell"} /\ j.next = "queue"
       \/ j.at = "queue"
       \/ /\ j.at \in {"freed", "resuming", "update", "tell"}
          /\ ~j.packet /\ j.next = "ready"

DrvJob(j) ==
    /\ ~j.packet /\ j.next = "idle"
    /\ j.at \in {"idle", "freed", "resuming", "update", "tell"}

LoopJob(j) ==
    \/ j.at \in {"asleep", "status", "tx", "events"} /\ ~j.packet
    \/ j.at \in {"alloc", "undo"} /\ ~j.packet /\ j.next = "ready"
    \/ j.at \in {"examine", "pausing"} /\ j.next = "ready"
    \/ j.at = "ready"
    \/ j.at = "wait" /\ j.packet
    \/ j.at \in {"freed", "resuming"} /\ ~j.packet /\ j.next \in {"status", "tx", "events"}
    \/ /\ j.at \in {"update", "tell"}
       /\ j.next = "ready" \/ (j.next \in {"status", "tx", "events"} /\ ~j.packet)

\* Only the heap takes an attempt back, and only it sets the pause after it has
\* looked at the counter, for a task that has its packet.  Only a call of
\* umac_datapath_update_tx_paused has another source than the packet memory.
Proper(t, j) ==
    /\ t \in App => AppJob(j)
    /\ t = DRV => DrvJob(j)
    /\ t = LOOP => LoopJob(j)
    /\ j.at \in {"undo", "pausing"} => memory = "heap"
    /\ j.at \in {"examine", "pausing"} /\ memory = "heap" => j.packet
    /\ j.source # "PKTMEM" => j.at \in {"update", "tell"}

Placed == \A t \in Task : Proper(t, job[t])

Holding == { t \in Task : job[t].packet }
Undoing == { t \in Task : At(t, "undo") }
Packets == txq + statusq + drvq + Cardinality(Holding)

Conserved ==
    /\ allocated = Packets + Cardinality(Undoing)
    /\ Packets <= Blocks

\* The path is paused with a packet to come, or by a task that is about to
\* resume it.
Reason ==
    poolPaused => \/ Packets > 0
                  \/ \E t \in Task : job[t].at \in {"freed", "resuming"}

\* Two that wait are a crowd.
Crowding ==
    \A t, u \in Task : At(t, "wait") /\ At(u, "wait") /\ t # u => crowded

\* One that waits for a path that is ready has its token, or a task is about to
\* give it.
Woken ==
    \A a \in App : At(a, "wait") /\ txPaused = {} /\ ~crowded =>
        sem \/ \E t \in Task : At(t, "tell") /\ ~job[t].value

\* The application knows the state of the path or will be told: by a task that
\* queues a call, or by the event loop with the state that the path still has.
Told ==
    \/ calls > 0
    \/ \E t \in Task \ {LOOP} : At(t, "tell")
    \/ IF At(LOOP, "tell")
       THEN job[LOOP].value = (txPaused # {})
       ELSE told = IF txPaused = {} THEN "READY" ELSE "PAUSED"

IInv ==
    /\ Types /\ Placed /\ Conserved /\ Reason
    /\ MaskFollowsPool /\ Crowding /\ Woken /\ Told

-----------------------------------------------------------------------------
(* Lemmas                                                                  *)

LEMMA TaskFinite ==
    IsFiniteSet(Task) /\ Cardinality(Task) = Cardinality(App) + 2
  <1>1. IsFiniteSet(App) /\ LOOP \notin App /\ DRV \notin App \cup {LOOP}
    BY FlowControlAssumption
  <1>2. /\ IsFiniteSet(App \cup {LOOP})
        /\ Cardinality(App \cup {LOOP}) = Cardinality(App) + 1
    BY <1>1, FS_AddElement
  <1>3. /\ IsFiniteSet((App \cup {LOOP}) \cup {DRV})
        /\ Cardinality((App \cup {LOOP}) \cup {DRV}) = Cardinality(App \cup {LOOP}) + 1
    BY <1>1, <1>2, FS_AddElement
  <1>4. (App \cup {LOOP}) \cup {DRV} = Task
    BY DEF Task
  <1>5. Cardinality(App) \in Nat
    BY <1>1, FS_CardinalityType
  <1>6. IsFiniteSet(Task) /\ Cardinality(Task) = Cardinality(App \cup {LOOP}) + 1
    BY <1>3, <1>4, Zenon
  <1> QED
    BY <1>2, <1>5, <1>6

\* Task t goes on with job j.
Moved(t, j) == job' = [job EXCEPT ![t] = j]

One(b) == IF b THEN 1 ELSE 0

\* A set of tasks that at most one joins or leaves.
LEMMA CountMoves ==
    ASSUME NEW S \in SUBSET Task, NEW T \in SUBSET Task, NEW t \in Task,
           S \ {t} = T \ {t}
    PROVE  /\ Cardinality(S) \in Nat /\ Cardinality(T) \in Nat
           /\ Cardinality(T) = Cardinality(S) + One(t \in T) - One(t \in S)
  <1>1. IsFiniteSet(S) /\ IsFiniteSet(T)
    BY TaskFinite, FS_Subset
  <1>2. Cardinality(S) \in Nat /\ Cardinality(T) \in Nat
    BY <1>1, FS_CardinalityType
  <1>3. Cardinality(S \ {t}) = Cardinality(S) - One(t \in S)
    <2>1. Cardinality(S \ {t}) = IF t \in S THEN Cardinality(S) - 1 ELSE Cardinality(S)
      BY <1>1, FS_RemoveElement, Zenon
    <2> QED
      BY <2>1, <1>2 DEF One
  <1>4. Cardinality(T \ {t}) = Cardinality(T) - One(t \in T)
    <2>1. Cardinality(T \ {t}) = IF t \in T THEN Cardinality(T) - 1 ELSE Cardinality(T)
      BY <1>1, FS_RemoveElement, Zenon
    <2> QED
      BY <2>1, <1>2 DEF One
  <1>5. Cardinality(S \ {t}) = Cardinality(T \ {t})
    OBVIOUS
  <1> QED
    BY <1>2, <1>3, <1>4, <1>5 DEF One

\* How the tasks with a packet, and those that take an attempt back, change.
LEMMA Counted ==
    ASSUME job \in [Task -> Job], NEW t \in Task, NEW j \in Job, Moved(t, j)
    PROVE  /\ Cardinality(Holding) \in Nat /\ Cardinality(Undoing) \in Nat
           /\ Cardinality(Holding') \in Nat /\ Cardinality(Undoing') \in Nat
           /\ Cardinality(Holding')
                = Cardinality(Holding) + One(j.packet) - One(job[t].packet)
           /\ Cardinality(Undoing')
                = Cardinality(Undoing) + One(j.at = "undo") - One(At(t, "undo"))
  <1>1. /\ job'[t] = j
        /\ \A u \in Task : u # t => job'[u] = job[u]
    BY DEF Moved
  <1>2. /\ Holding \in SUBSET Task /\ Holding' \in SUBSET Task
        /\ Holding \ {t} = Holding' \ {t}
        /\ (t \in Holding) <=> job[t].packet
        /\ (t \in Holding') <=> j.packet
    BY <1>1 DEF Holding
  <1>3. /\ Undoing \in SUBSET Task /\ Undoing' \in SUBSET Task
        /\ Undoing \ {t} = Undoing' \ {t}
        /\ (t \in Undoing) <=> At(t, "undo")
        /\ (t \in Undoing') <=> j.at = "undo"
    BY <1>1 DEF Undoing, At
  <1>4. /\ Cardinality(Holding) \in Nat /\ Cardinality(Holding') \in Nat
        /\ Cardinality(Holding')
             = Cardinality(Holding) + One(t \in Holding') - One(t \in Holding)
    BY <1>2, CountMoves
  <1>5. /\ Cardinality(Undoing) \in Nat /\ Cardinality(Undoing') \in Nat
        /\ Cardinality(Undoing')
             = Cardinality(Undoing) + One(t \in Undoing') - One(t \in Undoing)
    BY <1>3, CountMoves
  <1>6. /\ One(t \in Holding') = One(j.packet) /\ One(t \in Holding) = One(job[t].packet)
        /\ One(t \in Undoing') = One(j.at = "undo")
        /\ One(t \in Undoing) = One(At(t, "undo"))
    BY <1>2, <1>3 DEF One
  <1> QED
    BY <1>4, <1>5, <1>6

\* The packets are a number of which no task holds more than there are.
LEMMA PacketsType ==
    ASSUME Types
    PROVE  /\ Packets \in Nat /\ Cardinality(Undoing) \in Nat
           /\ Cardinality(Holding) \in Nat
           /\ \A t \in Task : job[t].packet => Packets > 0
           /\ \A t \in Task : At(t, "undo") => Cardinality(Undoing) > 0
  <1>1. /\ IsFiniteSet(Holding) /\ IsFiniteSet(Undoing)
    BY TaskFinite, FS_Subset DEF Holding, Undoing
  <1>2. Cardinality(Holding) \in Nat /\ Cardinality(Undoing) \in Nat
    BY <1>1, FS_CardinalityType
  <1>3. ASSUME NEW t \in Task, job[t].packet PROVE Cardinality(Holding) # 0
    <2>1. Holding # {}
      BY <1>3 DEF Holding
    <2> QED
      BY <1>1, <2>1, FS_EmptySet
  <1>4. ASSUME NEW t \in Task, At(t, "undo") PROVE Cardinality(Undoing) # 0
    <2>1. Undoing # {}
      BY <1>4 DEF Undoing
    <2> QED
      BY <1>1, <2>1, FS_EmptySet
  <1> QED
    BY <1>2, <1>3, <1>4 DEF Packets, Types

-----------------------------------------------------------------------------
(* What a step of one task keeps                                           *)

LEMMA PlacedKept ==
    ASSUME Types, Placed, NEW t \in Task, NEW j \in Job, Moved(t, j),
           Proper(t, j), memory' = memory
    PROVE  Placed'
  <1>1. /\ job'[t] = j
        /\ \A u \in Task : u # t => job'[u] = job[u]
    BY DEF Moved, Types
  <1> SUFFICES ASSUME NEW u \in Task PROVE Proper(u, job[u])'
    BY DEF Placed
  <1>2. CASE u = t
    BY <1>1, <1>2 DEF Proper
  <1>3. CASE u # t
    BY <1>1, <1>3 DEF Proper, Placed
  <1> QED
    BY <1>2, <1>3

\* A step that moves packets about.
LEMMA PacketsKept ==
    ASSUME Types, Types', Conserved, Reason,
           NEW t \in Task, NEW j \in Job, Moved(t, j), memory' = memory,
           txq' + statusq' + drvq'
             = txq + statusq + drvq + One(job[t].packet) - One(j.packet),
           allocated' = allocated + One(j.at = "undo") - One(At(t, "undo")),
           poolPaused' => poolPaused \/ Packets > 0,
           job[t].at \in {"freed", "resuming"} =>
               \/ j.at \in {"freed", "resuming"} \/ ~poolPaused' \/ Packets > 0
    PROVE  Conserved' /\ Reason'
  <1>1. /\ job'[t] = j
        /\ \A u \in Task : u # t => job'[u] = job[u]
    BY DEF Moved, Types
  <1>2. /\ Cardinality(Holding) \in Nat /\ Cardinality(Undoing) \in Nat
        /\ Cardinality(Holding')
                = Cardinality(Holding) + One(j.packet) - One(job[t].packet)
        /\ Cardinality(Undoing')
                = Cardinality(Undoing) + One(j.at = "undo") - One(At(t, "undo"))
    BY Counted DEF Types
  <1>3. Packets' = Packets /\ Packets \in Nat
    <2>1. /\ txq \in Nat /\ statusq \in Nat /\ drvq \in Nat
          /\ txq' \in Nat /\ statusq' \in Nat /\ drvq' \in Nat
          /\ One(j.packet) \in Nat /\ One(job[t].packet) \in Nat
      BY DEF Types, One
    <2> QED
      BY <1>2, <2>1 DEF Packets
  <1>4. Blocks' = Blocks
    BY DEF Blocks
  <1>5. Conserved'
    BY <1>2, <1>3, <1>4 DEF Conserved, Types, One
  <1>6. Reason'
    BY <1>1, <1>3 DEF Reason
  <1> QED
    BY <1>5, <1>6

\* A step outside umac_datapath_update_tx_paused: it tells nobody and, if the
\* packet memory is paused or resumed by it, is about to call the handler.
LEMMA PathKept ==
    ASSUME Types, MaskFollowsPool, Told,
           NEW t \in Task, NEW j \in Job, Moved(t, j),
           job[t].at \notin {"update", "tell"}, j.at # "tell",
           poolPaused' = poolPaused \/ (j.at = "update" /\ j.source = "PKTMEM"),
           UNCHANGED <<txPaused, events>>
    PROVE  MaskFollowsPool' /\ Told'
  <1>1. /\ job'[t] = j
        /\ \A u \in Task : u # t => job'[u] = job[u]
    BY DEF Moved, Types
  <1>2. MaskFollowsPool'
    BY <1>1 DEF MaskFollowsPool, At
  <1>3. Told'
    <2>1. told' = told /\ calls' = calls /\ txPaused' = txPaused
      BY DEF events
    <2>2. CASE \E u \in Task \ {LOOP} : At(u, "tell")
      BY <1>1, <2>2 DEF Told, At
    <2>3. CASE At(LOOP, "tell") /\ job[LOOP].value = (txPaused # {})
      <3>1. LOOP \in Task /\ LOOP # t
        BY <2>3 DEF At, Task
      <3> QED
        BY <1>1, <2>1, <2>3, <3>1 DEF Told, At
    <2>4. CASE /\ ~At(LOOP, "tell")
               /\ told = IF txPaused = {} THEN "READY" ELSE "PAUSED"
      <3>1. ~At(LOOP, "tell")' \/ LOOP = t
        BY <1>1, <2>4 DEF At, Task
      <3> QED
        BY <1>1, <2>1, <2>4, <3>1 DEF Told, At
    <2> QED
      BY <2>1, <2>2, <2>3, <2>4 DEF Told
  <1> QED
    BY <1>2, <1>3

\* A step with which nobody begins or ends to wait.
LEMMA WaitersKept ==
    ASSUME Types, Crowding, Woken,
           NEW t \in Task, NEW j \in Job, Moved(t, j),
           job[t].at \notin {"wait", "tell"}, j.at # "wait",
           UNCHANGED <<txPaused, sem, crowded>>
    PROVE  Crowding' /\ Woken'
  <1>1. /\ job'[t] = j
        /\ \A u \in Task : u # t => job'[u] = job[u]
    BY DEF Moved, Types
  <1>2. Crowding'
    BY <1>1 DEF Crowding, At
  <1>3. Woken'
    BY <1>1 DEF Woken, At, Task
  <1> QED
    BY <1>2, <1>3

\* A packet is allocated.
LEMMA PacketTaken ==
    ASSUME Types, Types', Conserved, Reason,
           NEW t \in Task, NEW j \in Job, Moved(t, j), memory' = memory,
           UNCHANGED queues, allocated' = allocated + 1, allocated < Blocks,
           j.packet, ~job[t].packet, j.at # "undo", ~At(t, "undo")
    PROVE  Conserved' /\ Reason'
  <1>1. /\ Cardinality(Holding) \in Nat /\ Cardinality(Undoing) \in Nat
        /\ Cardinality(Holding') = Cardinality(Holding) + 1
        /\ Cardinality(Undoing') = Cardinality(Undoing)
    <2>1. /\ One(j.packet) = 1 /\ One(job[t].packet) = 0
          /\ One(j.at = "undo") = 0 /\ One(At(t, "undo")) = 0
      BY DEF One
    <2>2. /\ Cardinality(Holding) \in Nat /\ Cardinality(Undoing) \in Nat
          /\ Cardinality(Holding')
                = Cardinality(Holding) + One(j.packet) - One(job[t].packet)
          /\ Cardinality(Undoing')
                = Cardinality(Undoing) + One(j.at = "undo") - One(At(t, "undo"))
      BY Counted DEF Types
    <2> QED
      BY <2>1, <2>2
  <1>2. txq' = txq /\ statusq' = statusq /\ drvq' = drvq
    BY DEF queues
  <1>3. Packets' = Packets + 1 /\ Packets \in Nat
    BY <1>1, <1>2 DEF Packets, Types
  <1>4. Blocks' = Blocks
    BY DEF Blocks
  <1>5. allocated = Packets + Cardinality(Undoing) /\ Packets <= Blocks
    BY DEF Conserved
  <1>6. Blocks \in Nat
    BY FlowControlAssumption DEF Blocks, Types
  <1>7. Packets + 1 <= Blocks
    BY <1>1, <1>3, <1>5, <1>6
  <1>8. Conserved'
    BY <1>1, <1>3, <1>4, <1>5, <1>7 DEF Conserved
  <1>9. Reason'
    BY <1>3 DEF Reason
  <1> QED
    BY <1>8, <1>9

\* A packet of a queue or of the task is freed.
LEMMA PacketFreed ==
    ASSUME Types, Types', Conserved, Reason,
           NEW t \in Task, NEW j \in Job, Moved(t, j), memory' = memory,
           txq + statusq + drvq + One(job[t].packet) = txq' + statusq' + drvq' + 1,
           allocated' = allocated - 1,
           ~j.packet, j.at # "undo", ~At(t, "undo"),
           poolPaused' => j.at = "freed" \/ Packets > 1
    PROVE  Conserved' /\ Reason'
  <1>1. /\ Cardinality(Holding) \in Nat /\ Cardinality(Undoing) \in Nat
        /\ Cardinality(Holding') = Cardinality(Holding) - One(job[t].packet)
        /\ Cardinality(Undoing') = Cardinality(Undoing)
    <2>1. /\ One(j.packet) = 0 /\ One(job[t].packet) \in Nat
          /\ One(j.at = "undo") = 0 /\ One(At(t, "undo")) = 0
      BY DEF One
    <2>2. /\ Cardinality(Holding) \in Nat /\ Cardinality(Undoing) \in Nat
          /\ Cardinality(Holding')
                = Cardinality(Holding) + One(j.packet) - One(job[t].packet)
          /\ Cardinality(Undoing')
                = Cardinality(Undoing) + One(j.at = "undo") - One(At(t, "undo"))
      BY Counted DEF Types
    <2> QED
      BY <2>1, <2>2
  <1>2. Packets' = Packets - 1 /\ Packets \in Nat
    <2>1. /\ txq \in Nat /\ statusq \in Nat /\ drvq \in Nat
          /\ txq' \in Nat /\ statusq' \in Nat /\ drvq' \in Nat
          /\ One(job[t].packet) \in Nat
      BY DEF Types, One
    <2> QED
      BY <1>1, <2>1 DEF Packets
  <1>3. Blocks' = Blocks /\ Blocks \in Nat
    BY FlowControlAssumption DEF Blocks, Types
  <1>4. allocated = Packets + Cardinality(Undoing) /\ Packets <= Blocks
    BY DEF Conserved
  <1>5. Conserved'
    <2>1. Packets - 1 <= Blocks /\ allocated - 1 = Packets - 1 + Cardinality(Undoing)
      BY <1>1, <1>2, <1>3, <1>4
    <2> QED
      BY <1>1, <1>2, <1>3, <2>1 DEF Conserved
  <1>6. Reason'
    <2>1. job'[t] = j
      BY DEF Moved, Types
    <2> QED
      BY <1>2, <2>1 DEF Reason
  <1> QED
    BY <1>5, <1>6

\* Tasks in the middle of an attempt: not the driver task, and none with the
\* static packet memory.
LEMMA FewUndoing ==
    ASSUME Types, Placed
    PROVE  /\ Cardinality(Undoing) \in Nat
           /\ Cardinality(Undoing) <= Cardinality(App) + 1
           /\ memory = "static" => Cardinality(Undoing) = 0
  <1>1. Cardinality(Undoing) \in Nat
    BY PacketsType
  <1>2. Cardinality(Undoing) <= Cardinality(App) + 1
    <2>1. DRV \notin Undoing
      BY FlowControlAssumption DEF Undoing, At, Placed, Proper, DrvJob, Task
    <2>2. Undoing \in SUBSET (App \cup {LOOP})
      BY <2>1 DEF Undoing, Task
    <2>3. IsFiniteSet(App) /\ LOOP \notin App
      BY FlowControlAssumption
    <2>4. Cardinality(App \cup {LOOP}) = Cardinality(App) + 1
      BY <2>3, FS_AddElement
    <2>5. IsFiniteSet(App \cup {LOOP})
      BY <2>3, FS_AddElement
    <2>6. Cardinality(Undoing) <= Cardinality(App \cup {LOOP})
      BY <2>2, <2>5, FS_Subset
    <2> QED
      BY <2>4, <2>6
  <1>3. ASSUME memory = "static" PROVE Cardinality(Undoing) = 0
    <2>1. Undoing = {}
      BY <1>3 DEF Undoing, At, Placed, Proper
    <2> QED
      BY <2>1, FS_EmptySet
  <1> QED
    BY <1>1, <1>2, <1>3

\* While too many are allocated to resume, one of them is a packet.
LEMMA SomePackets ==
    ASSUME Types, Placed, Conserved
    PROVE  /\ ~Enough(allocated) => Packets > 0
           /\ memory = "static" /\ ~Enough(allocated - 1) => Packets > 1
           /\ memory = "static" /\ TooFew => Packets > 0
           /\ memory = "static" => allocated = Packets
  <1>1. /\ Cardinality(Undoing) \in Nat
        /\ Cardinality(Undoing) <= Cardinality(App) + 1
        /\ memory = "static" => Cardinality(Undoing) = 0
    BY FewUndoing
  <1>2. /\ Packets \in Nat /\ allocated \in Nat
        /\ allocated = Packets + Cardinality(Undoing)
    BY PacketsType DEF Conserved, Types
  <1>3. Cardinality(App) \in Nat
    BY FlowControlAssumption, FS_CardinalityType
  <1>4. CASE memory = "heap"
    <2>1. Blocks \in Nat /\ Blocks >= Cardinality(App) + 4
      BY <1>4, FlowControlAssumption DEF Blocks
    <2> QED
      BY <1>1, <1>2, <1>3, <1>4, <2>1 DEF Enough
  <1>5. CASE memory = "static"
    <2>1. Blocks \in Nat /\ Blocks >= 2
      BY <1>5, FlowControlAssumption DEF Blocks
    <2>2. allocated = Packets
      BY <1>1, <1>2, <1>5
    <2> QED
      BY <1>2, <1>5, <2>1, <2>2 DEF Enough, TooFew
  <1> QED
    BY <1>4, <1>5 DEF Types

\* A step outside umac_datapath_update_tx_paused and the wait for it.
LEMMA StepKept ==
    ASSUME IInv, Types', Conserved', Reason',
           NEW t \in Task, NEW j \in Job, Moved(t, j), Proper(t, j),
           job[t].at \notin {"update", "tell", "wait"}, j.at \notin {"tell", "wait"},
           poolPaused' = poolPaused \/ (j.at = "update" /\ j.source = "PKTMEM"),
           UNCHANGED <<memory, txPaused, sem, events, crowded>>
    PROVE  IInv'
  <1>1. Placed'
    BY PlacedKept DEF IInv
  <1>2. MaskFollowsPool' /\ Told'
    BY PathKept DEF IInv
  <1>3. Crowding' /\ Woken'
    BY WaitersKept DEF IInv
  <1> QED
    BY <1>1, <1>2, <1>3 DEF IInv

\* The fields of a job and of one that returns.
LEMMA Fields ==
    ASSUME Types, NEW t \in Task
    PROVE  /\ job[t] \in Job
           /\ job[t].at \in Place /\ job[t].next \in Place
           /\ job[t].packet \in BOOLEAN /\ job[t].source \in Source
           /\ job[t].value \in BOOLEAN
           /\ job[t] = [at |-> job[t].at, next |-> job[t].next,
                        packet |-> job[t].packet, source |-> job[t].source,
                        value |-> job[t].value]
  BY DEF Types, Job

LEMMA JobType ==
    ASSUME NEW at \in Place, NEW next \in Place, NEW packet \in BOOLEAN,
           NEW source \in Source, NEW value \in BOOLEAN
    PROVE  [at |-> at, next |-> next, packet |-> packet, source |-> source,
            value |-> value] \in Job
  BY DEF Job

LEMMA JobsType ==
    ASSUME Types, NEW t \in Task, NEW j \in Job, Moved(t, j)
    PROVE  job' \in [Task -> Job]
  BY DEF Types, Moved

\* A job that only goes on elsewhere.
LEMMA Elsewhere ==
    ASSUME Types, NEW t \in Task, NEW x
    PROVE  /\ [job[t] EXCEPT !.at = x]
                = [at |-> x, next |-> job[t].next, packet |-> job[t].packet,
                   source |-> job[t].source, value |-> job[t].value]
           /\ [job EXCEPT ![t].at = x] = [job EXCEPT ![t] = [job[t] EXCEPT !.at = x]]
  BY Fields DEF Types

LEMMA WithPacket ==
    ASSUME Types, NEW t \in Task, NEW x, NEW p
    PROVE  [job EXCEPT ![t].at = x, ![t].packet = p]
             = [job EXCEPT ![t] = [at |-> x, next |-> job[t].next, packet |-> p,
                                   source |-> job[t].source, value |-> job[t].value]]
  <1> DEFINE k == [at |-> x, next |-> job[t].next, packet |-> p,
                   source |-> job[t].source, value |-> job[t].value]
  <1>1. [[job[t] EXCEPT !.at = x] EXCEPT !.packet = p] = k
    <2> DEFINE m == [at |-> x, next |-> job[t].next, packet |-> job[t].packet,
                     source |-> job[t].source, value |-> job[t].value]
    <2>1. [job[t] EXCEPT !.at = x] = m
      BY Elsewhere
    <2>2. [m EXCEPT !.packet = p] = k
      OBVIOUS
    <2> QED
      BY <2>1, <2>2, Zenon
  <1>2. /\ t \in DOMAIN job
        /\ [job EXCEPT ![t].at = x, ![t].packet = p]
             = [job EXCEPT ![t] = [[job[t] EXCEPT !.at = x] EXCEPT !.packet = p]]
    BY DEF Types
  <1> QED
    BY <1>1, <1>2

-----------------------------------------------------------------------------
(* The packet memory                                                       *)

LEMMA AllocKeeps ==
    ASSUME IInv, NEW t \in Task, Alloc(t)
    PROVE  IInv'
  <1>1. /\ IInv /\ Types /\ Placed /\ Conserved /\ Reason /\ t \in Task
        /\ Proper(t, job[t]) /\ job[t].at = "alloc" /\ ~job[t].packet
    BY FlowControlAssumption DEF IInv, Alloc, At, Placed, Proper, AppJob, DrvJob,
       LoopJob, Task
  <1>2. UNCHANGED <<memory, poolPaused, txPaused, sem, semb, queues, events, crowded>>
    BY DEF Alloc
  <1>3. CASE /\ allocated' = allocated + 1 /\ allocated < Blocks
             /\ job' = [job EXCEPT ![t].at = "examine", ![t].packet = TRUE]
             /\ UNCHANGED pauses
    <2> DEFINE j == [at |-> "examine", next |-> job[t].next, packet |-> TRUE,
                     source |-> job[t].source, value |-> job[t].value]
    <2>1. j \in Job
      BY <1>1, <1>3, Fields DEF Job, Place, Source
    <2>2. Moved(t, j)
      BY <1>1, <1>2, <1>3, WithPacket DEF Moved, Types, Returned, Handler
    <2>3. Types'
      BY <1>1, <1>2, <1>3, <2>1, <2>2, JobsType DEF Types, pool, queues, events,
         MaxPauses, At
    <2>4. Proper(t, j)
      BY <1>1, <1>3, FlowControlAssumption DEF Proper, AppJob, DrvJob, LoopJob, Task
    <2>5. Conserved' /\ Reason'
      BY <1>1, <1>2, <1>3, <2>1, <2>2, <2>3, PacketTaken DEF At
    <2>6. UNCHANGED <<memory, txPaused, sem, events, crowded>>
      BY <1>2, <1>3 DEF pool
    <2>7. poolPaused' = poolPaused \/ (j.at = "update" /\ j.source = "PKTMEM")
      BY <1>1, <1>2, <1>3 DEF pool, Proper
    <2>8. job[t].at \notin {"update", "tell", "wait"} /\ j.at \notin {"tell", "wait"}
      BY <1>1, <1>3, <2>4 DEF Proper, AppJob, DrvJob, LoopJob, Task
    <2> QED
      BY <1>1, <2>1, <2>2, <2>3, <2>4, <2>5, <2>6, <2>7, <2>8, StepKept
  <1>4. CASE /\ memory = "heap" /\ allocated' = allocated + 1 /\ Goto(t, "undo")
             /\ pauses' \in 0 .. MaxPauses
    <2> DEFINE j == [at |-> "undo", next |-> job[t].next, packet |-> job[t].packet,
                     source |-> job[t].source, value |-> job[t].value]
    <2>1. j \in Job
      BY <1>1, <1>4, Fields DEF Job, Place, Source
    <2>2. Moved(t, j)
      BY <1>1, <1>2, <1>4, Elsewhere DEF Moved, Types, Returned, Handler, Goto
    <2>3. Types'
      BY <1>1, <1>2, <1>4, <2>1, <2>2, JobsType DEF Types, pool, queues, events,
         MaxPauses, At
    <2>4. Proper(t, j)
      BY <1>1, <1>4, FlowControlAssumption DEF Proper, AppJob, DrvJob, LoopJob, Task
    <2>5. Conserved' /\ Reason'
      <3>1. txq' + statusq' + drvq'
              = txq + statusq + drvq + One(job[t].packet) - One(j.packet)
        BY <1>1, <1>2, <1>4, <2>3 DEF Types, queues, One
      <3>2. allocated' = allocated + One(j.at = "undo") - One(At(t, "undo"))
        BY <1>1, <1>2, <1>4, <2>4 DEF Types, One, At, Proper, AppJob, DrvJob, LoopJob,
           Task, pool
      <3>3. poolPaused' => poolPaused \/ Packets > 0
        BY <1>1, <1>2, <1>4, PacketsType, SomePackets DEF pool, Proper
      <3>4. job[t].at \in {"freed", "resuming"} =>
               \/ j.at \in {"freed", "resuming"} \/ ~poolPaused' \/ Packets > 0
        BY <1>1, <1>2, <1>4, SomePackets DEF pool
      <3> QED
        BY <1>1, <1>2, <1>4, <2>1, <2>2, <2>3, <3>1, <3>2, <3>3, <3>4, PacketsKept
           DEF pool
    <2>6. UNCHANGED <<memory, txPaused, sem, events, crowded>>
      BY <1>2, <1>4 DEF pool
    <2>7. poolPaused' = poolPaused \/ (j.at = "update" /\ j.source = "PKTMEM")
      BY <1>1, <1>2, <1>4 DEF pool, Proper
    <2>8. job[t].at \notin {"update", "tell", "wait"} /\ j.at \notin {"tell", "wait"}
      BY <1>1, <1>4, <2>4 DEF Proper, AppJob, DrvJob, LoopJob, Task
    <2> QED
      BY <1>1, <2>1, <2>2, <2>3, <2>4, <2>5, <2>6, <2>7, <2>8, StepKept
  <1>5. CASE /\ memory = "static" /\ allocated' = allocated /\ UNCHANGED pauses
             /\ job' = [job EXCEPT ![t].at = "examine", ![t].packet = FALSE]
    <2> DEFINE j == [at |-> "examine", next |-> job[t].next, packet |-> FALSE,
                     source |-> job[t].source, value |-> job[t].value]
    <2>1. j \in Job
      BY <1>1, <1>5, Fields DEF Job, Place, Source
    <2>2. Moved(t, j)
      BY <1>1, <1>2, <1>5, WithPacket DEF Moved, Types, Returned, Handler
    <2>3. Types'
      BY <1>1, <1>2, <1>5, <2>1, <2>2, JobsType DEF Types, pool, queues, events,
         MaxPauses, At
    <2>4. Proper(t, j)
      BY <1>1, <1>5, FlowControlAssumption DEF Proper, AppJob, DrvJob, LoopJob, Task
    <2>5. Conserved' /\ Reason'
      <3>1. txq' + statusq' + drvq'
              = txq + statusq + drvq + One(job[t].packet) - One(j.packet)
        BY <1>1, <1>2, <1>5, <2>3 DEF Types, queues, One
      <3>2. allocated' = allocated + One(j.at = "undo") - One(At(t, "undo"))
        BY <1>1, <1>2, <1>5, <2>4 DEF Types, One, At, Proper, AppJob, DrvJob, LoopJob,
           Task, pool
      <3>3. poolPaused' => poolPaused \/ Packets > 0
        BY <1>1, <1>2, <1>5, PacketsType, SomePackets DEF pool, Proper
      <3>4. job[t].at \in {"freed", "resuming"} =>
               \/ j.at \in {"freed", "resuming"} \/ ~poolPaused' \/ Packets > 0
        BY <1>1, <1>2, <1>5, SomePackets DEF pool
      <3> QED
        BY <1>1, <1>2, <1>5, <2>1, <2>2, <2>3, <3>1, <3>2, <3>3, <3>4, PacketsKept
           DEF pool
    <2>6. UNCHANGED <<memory, txPaused, sem, events, crowded>>
      BY <1>2, <1>5 DEF pool
    <2>7. poolPaused' = poolPaused \/ (j.at = "update" /\ j.source = "PKTMEM")
      BY <1>1, <1>2, <1>5 DEF pool, Proper
    <2>8. job[t].at \notin {"update", "tell", "wait"} /\ j.at \notin {"tell", "wait"}
      BY <1>1, <1>5, <2>4 DEF Proper, AppJob, DrvJob, LoopJob, Task
    <2> QED
      BY <1>1, <2>1, <2>2, <2>3, <2>4, <2>5, <2>6, <2>7, <2>8, StepKept
  <1>6. CASE memory = "heap"
    <2>1. CASE Goto(t, "undo")
      <3>1. pauses' \in 0 .. MaxPauses
        <4>1. MaxPauses \in Nat /\ pauses \in 0 .. MaxPauses
          BY <1>1, FlowControlAssumption DEF MaxPauses, Types
        <4>2. pauses' = pauses \/ (pauses < MaxPauses /\ pauses' = pauses + 1)
          BY <1>6, <2>1, <1>1 DEF Alloc, Goto, Job
        <4> QED
          BY <4>1, <4>2
      <3> QED
        BY <1>4, <1>6, <2>1, <3>1 DEF Alloc
    <2> QED
      BY <1>3, <1>6, <2>1 DEF Alloc
  <1>7. CASE memory = "static"
    <2>1. CASE allocated < Blocks
      BY <1>3, <1>7, <2>1 DEF Alloc
    <2>2. CASE ~(allocated < Blocks)
      <3>1. allocated' = allocated /\ UNCHANGED pauses
        BY <1>7, <2>2 DEF Alloc
      <3>2. (allocated < Blocks) = FALSE
        BY <2>2
      <3>3. job' = [job EXCEPT ![t].at = "examine", ![t].packet = FALSE]
        BY <1>7, <3>2 DEF Alloc
      <3> QED
        BY <1>5, <1>7, <3>1, <3>3
    <2> QED
      BY <2>1, <2>2
  <1> QED
    BY <1>1, <1>6, <1>7 DEF Types

LEMMA AllocUndoKeeps ==
    ASSUME IInv, NEW t \in Task, AllocUndo(t)
    PROVE  IInv'
  <1>1. /\ IInv /\ Types /\ Placed /\ Conserved /\ Reason /\ t \in Task
        /\ Proper(t, job[t]) /\ job[t].at = "undo" /\ ~job[t].packet
    BY FlowControlAssumption DEF IInv, AllocUndo, At, Placed, Proper, AppJob, DrvJob,
       LoopJob, Task
  <1>2. UNCHANGED <<memory, poolPaused, txPaused, sem, semb, queues, events, pauses, crowded>>
    BY DEF AllocUndo
  <1>3. CASE /\ allocated' = allocated - 1 /\ allocated' \in Nat
             /\ Return(t)
    <2> DEFINE j == [at |-> job[t].next, next |-> "idle", packet |-> job[t].packet,
                     source |-> "PKTMEM", value |-> FALSE]
    <2>1. j \in Job
      BY <1>1, <1>3, Fields DEF Job, Place, Source
    <2>2. Moved(t, j)
      BY <1>1, <1>2, <1>3, Fields DEF Moved, Types, Returned, Handler, Return
    <2>3. Types'
      BY <1>1, <1>2, <1>3, <2>1, <2>2, JobsType DEF Types, pool, queues, events,
         MaxPauses, At
    <2>4. Proper(t, j)
      BY <1>1, <1>3, FlowControlAssumption DEF Proper, AppJob, DrvJob, LoopJob, Task
    <2>5. Conserved' /\ Reason'
      <3>1. txq' + statusq' + drvq'
              = txq + statusq + drvq + One(job[t].packet) - One(j.packet)
        BY <1>1, <1>2, <1>3, <2>3 DEF Types, queues, One
      <3>2. allocated' = allocated + One(j.at = "undo") - One(At(t, "undo"))
        BY <1>1, <1>2, <1>3, <2>4 DEF Types, One, At, Proper, AppJob, DrvJob, LoopJob,
           Task, pool
      <3>3. poolPaused' => poolPaused \/ Packets > 0
        BY <1>1, <1>2, <1>3, PacketsType, SomePackets DEF pool, Proper
      <3>4. job[t].at \in {"freed", "resuming"} =>
               \/ j.at \in {"freed", "resuming"} \/ ~poolPaused' \/ Packets > 0
        BY <1>1, <1>2, <1>3, SomePackets DEF pool
      <3> QED
        BY <1>1, <1>2, <1>3, <2>1, <2>2, <2>3, <3>1, <3>2, <3>3, <3>4, PacketsKept
           DEF pool
    <2>6. UNCHANGED <<memory, txPaused, sem, events, crowded>>
      BY <1>2, <1>3 DEF pool
    <2>7. poolPaused' = poolPaused \/ (j.at = "update" /\ j.source = "PKTMEM")
      BY <1>1, <1>2, <1>3 DEF pool, Proper
    <2>8. job[t].at \notin {"update", "tell", "wait"} /\ j.at \notin {"tell", "wait"}
      BY <1>1, <1>3, <2>4 DEF Proper, AppJob, DrvJob, LoopJob, Task
    <2> QED
      BY <1>1, <2>1, <2>2, <2>3, <2>4, <2>5, <2>6, <2>7, <2>8, StepKept
  <1>4. allocated - 1 \in Nat
    BY <1>1, PacketsType DEF Conserved, Types, At
  <1> QED
    BY <1>3, <1>4 DEF AllocUndo

LEMMA AllocExamineKeeps ==
    ASSUME IInv, NEW t \in Task, AllocExamine(t)
    PROVE  IInv'
  <1>1. /\ IInv /\ Types /\ Placed /\ Conserved /\ Reason /\ t \in Task
        /\ Proper(t, job[t]) /\ job[t].at = "examine"
    BY FlowControlAssumption DEF IInv, AllocExamine, At, Placed, Proper, AppJob, DrvJob,
       LoopJob, Task
  <1>2. UNCHANGED <<memory, allocated, txPaused, sem, semb, queues, events, pauses, crowded>>
    BY DEF AllocExamine
  <1>3. CASE Return(t) /\ UNCHANGED poolPaused
    <2> DEFINE j == [at |-> job[t].next, next |-> "idle", packet |-> job[t].packet,
                     source |-> "PKTMEM", value |-> FALSE]
    <2>1. j \in Job
      BY <1>1, <1>3, Fields DEF Job, Place, Source
    <2>2. Moved(t, j)
      BY <1>1, <1>2, <1>3, Fields DEF Moved, Types, Returned, Handler, Return
    <2>3. Types'
      BY <1>1, <1>2, <1>3, <2>1, <2>2, JobsType DEF Types, pool, queues, events,
         MaxPauses, At
    <2>4. Proper(t, j)
      BY <1>1, <1>3, FlowControlAssumption DEF Proper, AppJob, DrvJob, LoopJob, Task
    <2>5. Conserved' /\ Reason'
      <3>1. txq' + statusq' + drvq'
              = txq + statusq + drvq + One(job[t].packet) - One(j.packet)
        BY <1>1, <1>2, <1>3, <2>3 DEF Types, queues, One
      <3>2. allocated' = allocated + One(j.at = "undo") - One(At(t, "undo"))
        BY <1>1, <1>2, <1>3, <2>4 DEF Types, One, At, Proper, AppJob, DrvJob, LoopJob,
           Task, pool
      <3>3. poolPaused' => poolPaused \/ Packets > 0
        BY <1>1, <1>2, <1>3, PacketsType, SomePackets DEF pool, Proper
      <3>4. job[t].at \in {"freed", "resuming"} =>
               \/ j.at \in {"freed", "resuming"} \/ ~poolPaused' \/ Packets > 0
        BY <1>1, <1>2, <1>3, SomePackets DEF pool
      <3> QED
        BY <1>1, <1>2, <1>3, <2>1, <2>2, <2>3, <3>1, <3>2, <3>3, <3>4, PacketsKept
           DEF pool
    <2>6. UNCHANGED <<memory, txPaused, sem, events, crowded>>
      BY <1>2, <1>3 DEF pool
    <2>7. poolPaused' = poolPaused \/ (j.at = "update" /\ j.source = "PKTMEM")
      BY <1>1, <1>2, <1>3 DEF pool, Proper
    <2>8. job[t].at \notin {"update", "tell", "wait"} /\ j.at \notin {"tell", "wait"}
      BY <1>1, <1>3, <2>4 DEF Proper, AppJob, DrvJob, LoopJob, Task
    <2> QED
      BY <1>1, <2>1, <2>2, <2>3, <2>4, <2>5, <2>6, <2>7, <2>8, StepKept
  <1>4. CASE memory = "heap" /\ Goto(t, "pausing") /\ UNCHANGED poolPaused
    <2> DEFINE j == [at |-> "pausing", next |-> job[t].next, packet |-> job[t].packet,
                     source |-> job[t].source, value |-> job[t].value]
    <2>1. j \in Job
      BY <1>1, <1>4, Fields DEF Job, Place, Source
    <2>2. Moved(t, j)
      BY <1>1, <1>2, <1>4, Elsewhere DEF Moved, Types, Returned, Handler, Goto
    <2>3. Types'
      BY <1>1, <1>2, <1>4, <2>1, <2>2, JobsType DEF Types, pool, queues, events,
         MaxPauses, At
    <2>4. Proper(t, j)
      BY <1>1, <1>4, FlowControlAssumption DEF Proper, AppJob, DrvJob, LoopJob, Task
    <2>5. Conserved' /\ Reason'
      <3>1. txq' + statusq' + drvq'
              = txq + statusq + drvq + One(job[t].packet) - One(j.packet)
        BY <1>1, <1>2, <1>4, <2>3 DEF Types, queues, One
      <3>2. allocated' = allocated + One(j.at = "undo") - One(At(t, "undo"))
        BY <1>1, <1>2, <1>4, <2>4 DEF Types, One, At, Proper, AppJob, DrvJob, LoopJob,
           Task, pool
      <3>3. poolPaused' => poolPaused \/ Packets > 0
        BY <1>1, <1>2, <1>4, PacketsType, SomePackets DEF pool, Proper
      <3>4. job[t].at \in {"freed", "resuming"} =>
               \/ j.at \in {"freed", "resuming"} \/ ~poolPaused' \/ Packets > 0
        BY <1>1, <1>2, <1>4, SomePackets DEF pool
      <3> QED
        BY <1>1, <1>2, <1>4, <2>1, <2>2, <2>3, <3>1, <3>2, <3>3, <3>4, PacketsKept
           DEF pool
    <2>6. UNCHANGED <<memory, txPaused, sem, events, crowded>>
      BY <1>2, <1>4 DEF pool
    <2>7. poolPaused' = poolPaused \/ (j.at = "update" /\ j.source = "PKTMEM")
      BY <1>1, <1>2, <1>4 DEF pool, Proper
    <2>8. job[t].at \notin {"update", "tell", "wait"} /\ j.at \notin {"tell", "wait"}
      BY <1>1, <1>4, <2>4 DEF Proper, AppJob, DrvJob, LoopJob, Task
    <2> QED
      BY <1>1, <2>1, <2>2, <2>3, <2>4, <2>5, <2>6, <2>7, <2>8, StepKept
  <1>5. CASE /\ memory = "static" /\ TooFew /\ ~poolPaused /\ poolPaused' = TRUE
             /\ poolPaused' \in BOOLEAN /\ job' = [job EXCEPT ![t] = Handler(t)]
    <2> DEFINE j == [at |-> "update", next |-> job[t].next, packet |-> job[t].packet,
                     source |-> job[t].source, value |-> job[t].value]
    <2>1. j \in Job
      BY <1>1, <1>5, Fields DEF Job, Place, Source
    <2>2. Moved(t, j)
      BY <1>1, <1>2, <1>5, Elsewhere DEF Moved, Types, Returned, Handler
    <2>3. Types'
      BY <1>1, <1>2, <1>5, <2>1, <2>2, JobsType DEF Types, pool, queues, events,
         MaxPauses, At
    <2>4. Proper(t, j)
      BY <1>1, <1>5, FlowControlAssumption DEF Proper, AppJob, DrvJob, LoopJob, Task
    <2>5. Conserved' /\ Reason'
      <3>1. txq' + statusq' + drvq'
              = txq + statusq + drvq + One(job[t].packet) - One(j.packet)
        BY <1>1, <1>2, <1>5, <2>3 DEF Types, queues, One
      <3>2. allocated' = allocated + One(j.at = "undo") - One(At(t, "undo"))
        BY <1>1, <1>2, <1>5, <2>4 DEF Types, One, At, Proper, AppJob, DrvJob, LoopJob,
           Task, pool
      <3>3. poolPaused' => poolPaused \/ Packets > 0
        BY <1>1, <1>2, <1>5, PacketsType, SomePackets DEF pool, Proper
      <3>4. job[t].at \in {"freed", "resuming"} =>
               \/ j.at \in {"freed", "resuming"} \/ ~poolPaused' \/ Packets > 0
        BY <1>1, <1>2, <1>5, SomePackets DEF pool
      <3> QED
        BY <1>1, <1>2, <1>5, <2>1, <2>2, <2>3, <3>1, <3>2, <3>3, <3>4, PacketsKept
           DEF pool
    <2>6. UNCHANGED <<memory, txPaused, sem, events, crowded>>
      BY <1>2, <1>5 DEF pool
    <2>7. poolPaused' = poolPaused \/ (j.at = "update" /\ j.source = "PKTMEM")
      BY <1>1, <1>2, <1>5 DEF pool, Proper
    <2>8. job[t].at \notin {"update", "tell", "wait"} /\ j.at \notin {"tell", "wait"}
      BY <1>1, <1>5, <2>4 DEF Proper, AppJob, DrvJob, LoopJob, Task
    <2> QED
      BY <1>1, <2>1, <2>2, <2>3, <2>4, <2>5, <2>6, <2>7, <2>8, StepKept
  <1>6. CASE ~TooFew
    BY <1>3, <1>6 DEF AllocExamine
  <1>7. CASE TooFew /\ memory = "heap"
    BY <1>4, <1>7 DEF AllocExamine
  <1>8. CASE TooFew /\ memory = "static"
    <2>1. CASE poolPaused
      <3>1. Return(t) /\ poolPaused' = poolPaused
        BY <1>1, <1>8, <2>1 DEF AllocExamine, Return, Types
      <3> QED
        BY <1>3, <3>1
    <2>2. CASE ~poolPaused
      BY <1>5, <1>8, <2>2 DEF AllocExamine
    <2> QED
      BY <2>1, <2>2
  <1> QED
    BY <1>1, <1>6, <1>7, <1>8 DEF Types

LEMMA AllocPauseKeeps ==
    ASSUME IInv, NEW t \in Task, AllocPause(t)
    PROVE  IInv'
  <1>1. /\ IInv /\ Types /\ Placed /\ Conserved /\ Reason /\ t \in Task
        /\ Proper(t, job[t]) /\ job[t].at = "pausing" /\ job[t].packet /\ poolPaused \in BOOLEAN
    BY FlowControlAssumption DEF IInv, Types, AllocPause, At, Placed, Proper, AppJob,
       DrvJob, LoopJob, Task
  <1>2. UNCHANGED <<memory, allocated, txPaused, sem, semb, queues, events, pauses, crowded>>
    BY DEF AllocPause
  <1>3. CASE Return(t) /\ UNCHANGED poolPaused
    <2> DEFINE j == [at |-> job[t].next, next |-> "idle", packet |-> job[t].packet,
                     source |-> "PKTMEM", value |-> FALSE]
    <2>1. j \in Job
      BY <1>1, <1>3, Fields DEF Job, Place, Source
    <2>2. Moved(t, j)
      BY <1>1, <1>2, <1>3, Fields DEF Moved, Types, Returned, Handler, Return
    <2>3. Types'
      BY <1>1, <1>2, <1>3, <2>1, <2>2, JobsType DEF Types, pool, queues, events,
         MaxPauses, At
    <2>4. Proper(t, j)
      BY <1>1, <1>3, FlowControlAssumption DEF Proper, AppJob, DrvJob, LoopJob, Task
    <2>5. Conserved' /\ Reason'
      <3>1. txq' + statusq' + drvq'
              = txq + statusq + drvq + One(job[t].packet) - One(j.packet)
        BY <1>1, <1>2, <1>3, <2>3 DEF Types, queues, One
      <3>2. allocated' = allocated + One(j.at = "undo") - One(At(t, "undo"))
        BY <1>1, <1>2, <1>3, <2>4 DEF Types, One, At, Proper, AppJob, DrvJob, LoopJob,
           Task, pool
      <3>3. poolPaused' => poolPaused \/ Packets > 0
        BY <1>1, <1>2, <1>3, PacketsType, SomePackets DEF pool, Proper
      <3>4. job[t].at \in {"freed", "resuming"} =>
               \/ j.at \in {"freed", "resuming"} \/ ~poolPaused' \/ Packets > 0
        BY <1>1, <1>2, <1>3, SomePackets DEF pool
      <3> QED
        BY <1>1, <1>2, <1>3, <2>1, <2>2, <2>3, <3>1, <3>2, <3>3, <3>4, PacketsKept
           DEF pool
    <2>6. UNCHANGED <<memory, txPaused, sem, events, crowded>>
      BY <1>2, <1>3 DEF pool
    <2>7. poolPaused' = poolPaused \/ (j.at = "update" /\ j.source = "PKTMEM")
      BY <1>1, <1>2, <1>3 DEF pool, Proper
    <2>8. job[t].at \notin {"update", "tell", "wait"} /\ j.at \notin {"tell", "wait"}
      BY <1>1, <1>3, <2>4 DEF Proper, AppJob, DrvJob, LoopJob, Task
    <2> QED
      BY <1>1, <2>1, <2>2, <2>3, <2>4, <2>5, <2>6, <2>7, <2>8, StepKept
  <1>4. CASE /\ ~poolPaused /\ poolPaused' = TRUE /\ poolPaused' \in BOOLEAN
             /\ job' = [job EXCEPT ![t] = Handler(t)]
    <2> DEFINE j == [at |-> "update", next |-> job[t].next, packet |-> job[t].packet,
                     source |-> job[t].source, value |-> job[t].value]
    <2>1. j \in Job
      BY <1>1, <1>4, Fields DEF Job, Place, Source
    <2>2. Moved(t, j)
      BY <1>1, <1>2, <1>4, Elsewhere DEF Moved, Types, Returned, Handler
    <2>3. Types'
      BY <1>1, <1>2, <1>4, <2>1, <2>2, JobsType DEF Types, pool, queues, events,
         MaxPauses, At
    <2>4. Proper(t, j)
      BY <1>1, <1>4, FlowControlAssumption DEF Proper, AppJob, DrvJob, LoopJob, Task
    <2>5. Conserved' /\ Reason'
      <3>1. txq' + statusq' + drvq'
              = txq + statusq + drvq + One(job[t].packet) - One(j.packet)
        BY <1>1, <1>2, <1>4, <2>3 DEF Types, queues, One
      <3>2. allocated' = allocated + One(j.at = "undo") - One(At(t, "undo"))
        BY <1>1, <1>2, <1>4, <2>4 DEF Types, One, At, Proper, AppJob, DrvJob, LoopJob,
           Task, pool
      <3>3. poolPaused' => poolPaused \/ Packets > 0
        BY <1>1, <1>2, <1>4, PacketsType, SomePackets DEF pool, Proper
      <3>4. job[t].at \in {"freed", "resuming"} =>
               \/ j.at \in {"freed", "resuming"} \/ ~poolPaused' \/ Packets > 0
        BY <1>1, <1>2, <1>4, SomePackets DEF pool
      <3> QED
        BY <1>1, <1>2, <1>4, <2>1, <2>2, <2>3, <3>1, <3>2, <3>3, <3>4, PacketsKept
           DEF pool
    <2>6. UNCHANGED <<memory, txPaused, sem, events, crowded>>
      BY <1>2, <1>4 DEF pool
    <2>7. poolPaused' = poolPaused \/ (j.at = "update" /\ j.source = "PKTMEM")
      BY <1>1, <1>2, <1>4 DEF pool, Proper
    <2>8. job[t].at \notin {"update", "tell", "wait"} /\ j.at \notin {"tell", "wait"}
      BY <1>1, <1>4, <2>4 DEF Proper, AppJob, DrvJob, LoopJob, Task
    <2> QED
      BY <1>1, <2>1, <2>2, <2>3, <2>4, <2>5, <2>6, <2>7, <2>8, StepKept
  <1>5. CASE poolPaused
    <2>1. Return(t) /\ poolPaused' = poolPaused
      BY <1>1, <1>5 DEF AllocPause, Return
    <2> QED
      BY <1>3, <2>1
  <1>6. CASE ~poolPaused
    BY <1>4, <1>6 DEF AllocPause
  <1> QED
    BY <1>5, <1>6

LEMMA FreeExamineKeeps ==
    ASSUME IInv, NEW t \in Task, FreeExamine(t)
    PROVE  IInv'
  <1>1. /\ IInv /\ Types /\ Placed /\ Conserved /\ Reason /\ t \in Task
        /\ Proper(t, job[t]) /\ job[t].at = "freed"
    BY FlowControlAssumption DEF IInv, FreeExamine, At, Placed, Proper, AppJob, DrvJob,
       LoopJob, Task
  <1>2. UNCHANGED <<pool, txPaused, sem, semb, queues, events, pauses, crowded>>
    BY DEF FreeExamine
  <1>3. CASE Goto(t, "resuming")
    <2> DEFINE j == [at |-> "resuming", next |-> job[t].next, packet |-> job[t].packet,
                     source |-> job[t].source, value |-> job[t].value]
    <2>1. j \in Job
      BY <1>1, <1>3, Fields DEF Job, Place, Source
    <2>2. Moved(t, j)
      BY <1>1, <1>2, <1>3, Elsewhere DEF Moved, Types, Returned, Handler, Goto
    <2>3. Types'
      BY <1>1, <1>2, <1>3, <2>1, <2>2, JobsType DEF Types, pool, queues, events,
         MaxPauses, At
    <2>4. Proper(t, j)
      BY <1>1, <1>3, FlowControlAssumption DEF Proper, AppJob, DrvJob, LoopJob, Task
    <2>5. Conserved' /\ Reason'
      <3>1. txq' + statusq' + drvq'
              = txq + statusq + drvq + One(job[t].packet) - One(j.packet)
        BY <1>1, <1>2, <1>3, <2>3 DEF Types, queues, One
      <3>2. allocated' = allocated + One(j.at = "undo") - One(At(t, "undo"))
        BY <1>1, <1>2, <1>3, <2>4 DEF Types, One, At, Proper, AppJob, DrvJob, LoopJob,
           Task, pool
      <3>3. poolPaused' => poolPaused \/ Packets > 0
        BY <1>1, <1>2, <1>3, PacketsType, SomePackets DEF pool, Proper
      <3>4. job[t].at \in {"freed", "resuming"} =>
               \/ j.at \in {"freed", "resuming"} \/ ~poolPaused' \/ Packets > 0
        BY <1>1, <1>2, <1>3, SomePackets DEF pool
      <3> QED
        BY <1>1, <1>2, <1>3, <2>1, <2>2, <2>3, <3>1, <3>2, <3>3, <3>4, PacketsKept
           DEF pool
    <2>6. UNCHANGED <<memory, txPaused, sem, events, crowded>>
      BY <1>2, <1>3 DEF pool
    <2>7. poolPaused' = poolPaused \/ (j.at = "update" /\ j.source = "PKTMEM")
      BY <1>1, <1>2, <1>3 DEF pool, Proper
    <2>8. job[t].at \notin {"update", "tell", "wait"} /\ j.at \notin {"tell", "wait"}
      BY <1>1, <1>3, <2>4 DEF Proper, AppJob, DrvJob, LoopJob, Task
    <2> QED
      BY <1>1, <2>1, <2>2, <2>3, <2>4, <2>5, <2>6, <2>7, <2>8, StepKept
  <1>4. CASE ~Enough(allocated) /\ Return(t)
    <2> DEFINE j == [at |-> job[t].next, next |-> "idle", packet |-> job[t].packet,
                     source |-> "PKTMEM", value |-> FALSE]
    <2>1. j \in Job
      BY <1>1, <1>4, Fields DEF Job, Place, Source
    <2>2. Moved(t, j)
      BY <1>1, <1>2, <1>4, Fields DEF Moved, Types, Returned, Handler, Return
    <2>3. Types'
      BY <1>1, <1>2, <1>4, <2>1, <2>2, JobsType DEF Types, pool, queues, events,
         MaxPauses, At
    <2>4. Proper(t, j)
      BY <1>1, <1>4, FlowControlAssumption DEF Proper, AppJob, DrvJob, LoopJob, Task
    <2>5. Conserved' /\ Reason'
      <3>1. txq' + statusq' + drvq'
              = txq + statusq + drvq + One(job[t].packet) - One(j.packet)
        BY <1>1, <1>2, <1>4, <2>3 DEF Types, queues, One
      <3>2. allocated' = allocated + One(j.at = "undo") - One(At(t, "undo"))
        BY <1>1, <1>2, <1>4, <2>4 DEF Types, One, At, Proper, AppJob, DrvJob, LoopJob,
           Task, pool
      <3>3. poolPaused' => poolPaused \/ Packets > 0
        BY <1>1, <1>2, <1>4, PacketsType, SomePackets DEF pool, Proper
      <3>4. job[t].at \in {"freed", "resuming"} =>
               \/ j.at \in {"freed", "resuming"} \/ ~poolPaused' \/ Packets > 0
        BY <1>1, <1>2, <1>4, SomePackets DEF pool
      <3> QED
        BY <1>1, <1>2, <1>4, <2>1, <2>2, <2>3, <3>1, <3>2, <3>3, <3>4, PacketsKept
           DEF pool
    <2>6. UNCHANGED <<memory, txPaused, sem, events, crowded>>
      BY <1>2, <1>4 DEF pool
    <2>7. poolPaused' = poolPaused \/ (j.at = "update" /\ j.source = "PKTMEM")
      BY <1>1, <1>2, <1>4 DEF pool, Proper
    <2>8. job[t].at \notin {"update", "tell", "wait"} /\ j.at \notin {"tell", "wait"}
      BY <1>1, <1>4, <2>4 DEF Proper, AppJob, DrvJob, LoopJob, Task
    <2> QED
      BY <1>1, <2>1, <2>2, <2>3, <2>4, <2>5, <2>6, <2>7, <2>8, StepKept
  <1> QED
    BY <1>3, <1>4 DEF FreeExamine

LEMMA FreeResumeKeeps ==
    ASSUME IInv, NEW t \in Task, FreeResume(t)
    PROVE  IInv'
  <1>1. /\ IInv /\ Types /\ Placed /\ Conserved /\ Reason /\ t \in Task
        /\ Proper(t, job[t]) /\ job[t].at = "resuming"
    BY FlowControlAssumption DEF IInv, FreeResume, At, Placed, Proper, AppJob, DrvJob,
       LoopJob, Task
  <1>2. UNCHANGED <<memory, allocated, txPaused, sem, semb, queues, events, pauses, crowded>>
    BY DEF FreeResume
  <1>3. CASE ~poolPaused /\ poolPaused' = poolPaused /\ Return(t)
    <2> DEFINE j == [at |-> job[t].next, next |-> "idle", packet |-> job[t].packet,
                     source |-> "PKTMEM", value |-> FALSE]
    <2>1. j \in Job
      BY <1>1, <1>3, Fields DEF Job, Place, Source
    <2>2. Moved(t, j)
      BY <1>1, <1>2, <1>3, Fields DEF Moved, Types, Returned, Handler, Return
    <2>3. Types'
      BY <1>1, <1>2, <1>3, <2>1, <2>2, JobsType DEF Types, pool, queues, events,
         MaxPauses, At
    <2>4. Proper(t, j)
      BY <1>1, <1>3, FlowControlAssumption DEF Proper, AppJob, DrvJob, LoopJob, Task
    <2>5. Conserved' /\ Reason'
      <3>1. txq' + statusq' + drvq'
              = txq + statusq + drvq + One(job[t].packet) - One(j.packet)
        BY <1>1, <1>2, <1>3, <2>3 DEF Types, queues, One
      <3>2. allocated' = allocated + One(j.at = "undo") - One(At(t, "undo"))
        BY <1>1, <1>2, <1>3, <2>4 DEF Types, One, At, Proper, AppJob, DrvJob, LoopJob,
           Task, pool
      <3>3. poolPaused' => poolPaused \/ Packets > 0
        BY <1>1, <1>2, <1>3, PacketsType, SomePackets DEF pool, Proper
      <3>4. job[t].at \in {"freed", "resuming"} =>
               \/ j.at \in {"freed", "resuming"} \/ ~poolPaused' \/ Packets > 0
        BY <1>1, <1>2, <1>3, SomePackets DEF pool
      <3> QED
        BY <1>1, <1>2, <1>3, <2>1, <2>2, <2>3, <3>1, <3>2, <3>3, <3>4, PacketsKept
           DEF pool
    <2>6. UNCHANGED <<memory, txPaused, sem, events, crowded>>
      BY <1>2, <1>3 DEF pool
    <2>7. poolPaused' = poolPaused \/ (j.at = "update" /\ j.source = "PKTMEM")
      BY <1>1, <1>2, <1>3 DEF pool, Proper
    <2>8. job[t].at \notin {"update", "tell", "wait"} /\ j.at \notin {"tell", "wait"}
      BY <1>1, <1>3, <2>4 DEF Proper, AppJob, DrvJob, LoopJob, Task
    <2> QED
      BY <1>1, <2>1, <2>2, <2>3, <2>4, <2>5, <2>6, <2>7, <2>8, StepKept
  <1>4. CASE /\ poolPaused /\ poolPaused' = FALSE /\ poolPaused' \in BOOLEAN
             /\ job' = [job EXCEPT ![t] = Handler(t)]
    <2> DEFINE j == [at |-> "update", next |-> job[t].next, packet |-> job[t].packet,
                     source |-> job[t].source, value |-> job[t].value]
    <2>1. j \in Job
      BY <1>1, <1>4, Fields DEF Job, Place, Source
    <2>2. Moved(t, j)
      BY <1>1, <1>2, <1>4, Elsewhere DEF Moved, Types, Returned, Handler
    <2>3. Types'
      BY <1>1, <1>2, <1>4, <2>1, <2>2, JobsType DEF Types, pool, queues, events,
         MaxPauses, At
    <2>4. Proper(t, j)
      BY <1>1, <1>4, FlowControlAssumption DEF Proper, AppJob, DrvJob, LoopJob, Task
    <2>5. Conserved' /\ Reason'
      <3>1. txq' + statusq' + drvq'
              = txq + statusq + drvq + One(job[t].packet) - One(j.packet)
        BY <1>1, <1>2, <1>4, <2>3 DEF Types, queues, One
      <3>2. allocated' = allocated + One(j.at = "undo") - One(At(t, "undo"))
        BY <1>1, <1>2, <1>4, <2>4 DEF Types, One, At, Proper, AppJob, DrvJob, LoopJob,
           Task, pool
      <3>3. poolPaused' => poolPaused \/ Packets > 0
        BY <1>1, <1>2, <1>4, PacketsType, SomePackets DEF pool, Proper
      <3>4. job[t].at \in {"freed", "resuming"} =>
               \/ j.at \in {"freed", "resuming"} \/ ~poolPaused' \/ Packets > 0
        BY <1>1, <1>2, <1>4, SomePackets DEF pool
      <3> QED
        BY <1>1, <1>2, <1>4, <2>1, <2>2, <2>3, <3>1, <3>2, <3>3, <3>4, PacketsKept
           DEF pool
    <2>6. UNCHANGED <<memory, txPaused, sem, events, crowded>>
      BY <1>2, <1>4 DEF pool
    <2>7. poolPaused' = poolPaused \/ (j.at = "update" /\ j.source = "PKTMEM")
      BY <1>1, <1>2, <1>4 DEF pool, Proper
    <2>8. job[t].at \notin {"update", "tell", "wait"} /\ j.at \notin {"tell", "wait"}
      BY <1>1, <1>4, <2>4 DEF Proper, AppJob, DrvJob, LoopJob, Task
    <2> QED
      BY <1>1, <2>1, <2>2, <2>3, <2>4, <2>5, <2>6, <2>7, <2>8, StepKept
  <1>5. CASE ~poolPaused
    <2>1. Return(t) /\ poolPaused' = poolPaused
      BY <1>1, <1>5 DEF FreeResume, Return, Types
    <2> QED
      BY <1>3, <1>5, <2>1
  <1>6. CASE poolPaused
    BY <1>4, <1>6 DEF FreeResume
  <1> QED
    BY <1>5, <1>6

\* The records that tx_data_pool_pkt_free makes of a job.
LEMMA FreeRecords ==
    ASSUME NEW k \in Job, NEW n
    PROVE  /\ [[k EXCEPT !.next = n, !.packet = FALSE] EXCEPT !.at = "freed"]
                = [at |-> "freed", next |-> n, packet |-> FALSE, source |-> k.source,
                   value |-> k.value]
           /\ [[k EXCEPT !.next = n, !.packet = FALSE] EXCEPT !.at = "update"]
                = [at |-> "update", next |-> n, packet |-> FALSE, source |-> k.source,
                   value |-> k.value]
           /\ Returned([k EXCEPT !.next = n, !.packet = FALSE])
                = [at |-> n, next |-> "idle", packet |-> FALSE, source |-> "PKTMEM",
                   value |-> FALSE]
  <1> DEFINE K(b, m, q) == [at |-> b, next |-> m, packet |-> q, source |-> k.source,
                            value |-> k.value]
  <1>1. k = K(k.at, k.next, k.packet)
    BY DEF Job
  <1>2. [k EXCEPT !.next = n] = K(k.at, n, k.packet)
    BY DEF Job
  <1>3. [K(k.at, n, k.packet) EXCEPT !.packet = FALSE] = K(k.at, n, FALSE)
    <2>1. \A p : [K(k.at, n, k.packet) EXCEPT !.packet = p] = K(k.at, n, p)
      OBVIOUS
    <2> QED
      BY <2>1, Zenon
  <1>4. /\ [K(k.at, n, FALSE) EXCEPT !.at = "freed"] = K("freed", n, FALSE)
        /\ [K(k.at, n, FALSE) EXCEPT !.at = "update"] = K("update", n, FALSE)
    <2>1. \A p : /\ [K(k.at, n, p) EXCEPT !.at = "freed"] = K("freed", n, p)
                 /\ [K(k.at, n, p) EXCEPT !.at = "update"] = K("update", n, p)
      OBVIOUS
    <2> QED
      BY <2>1, Zenon
  <1>5. [k EXCEPT !.next = n, !.packet = FALSE] = K(k.at, n, FALSE)
    BY <1>2, <1>3, Zenon
  <1>6. Returned(K(k.at, n, FALSE)) = [at |-> n, next |-> "idle", packet |-> FALSE,
                                   source |-> "PKTMEM", value |-> FALSE]
    BY DEF Returned
  <1> QED
    BY <1>4, <1>5, <1>6, Zenon

\* A task that frees a packet goes on, or is about to look whether the path may
\* be resumed.
LEMMA FreeMoves ==
    ASSUME Types, Placed, Conserved, NEW t \in Task, NEW next \in Place,
           Free(t, next), job[t].source = "PKTMEM"
    PROVE  \E j \in Job :
              /\ Moved(t, j)
              /\ ~j.packet /\ j.source = "PKTMEM"
              /\ \/ j.at \in {"freed", "update"} /\ j.next = next
                 \/ j.at = next /\ j.next = "idle"
              /\ poolPaused' = poolPaused \/ j.at = "update"
              /\ poolPaused' => j.at = "freed" \/ Packets > 1
              /\ poolPaused' \in BOOLEAN
              /\ allocated' = allocated - 1 /\ memory' = memory
  <1> DEFINE F(x) == [at |-> x, next |-> next, packet |-> FALSE,
                      source |-> job[t].source, value |-> job[t].value]
             freeing == [job[t] EXCEPT !.next = next, !.packet = FALSE]
             resume == memory = "static" /\ poolPaused /\ Enough(allocated - 1)
  <1>1. /\ allocated' = allocated - 1 /\ memory' = memory
        /\ poolPaused' = IF resume THEN FALSE ELSE poolPaused
        /\ job' = [job EXCEPT ![t] =
                    IF memory = "heap" THEN [freeing EXCEPT !.at = "freed"]
                    ELSE IF resume THEN [freeing EXCEPT !.at = "update"]
                    ELSE Returned(freeing)]
    BY Zenon DEF Free
  <1>2. job[t] \in Job
    BY Fields
  <1>3. [freeing EXCEPT !.at = "freed"] = F("freed")
    BY <1>2, FreeRecords, Zenon
  <1>4. [freeing EXCEPT !.at = "update"] = F("update")
    BY <1>2, FreeRecords, Zenon
  <1> DEFINE R == [at |-> next, next |-> "idle", packet |-> FALSE,
                   source |-> "PKTMEM", value |-> FALSE]
  <1>5. Returned(freeing) = R
    BY <1>2, FreeRecords, Zenon
  <1>6. F("freed") \in Job /\ F("update") \in Job /\ R \in Job
    BY Fields DEF Job, Place, Source
  <1>7. CASE memory = "heap"
    <2>0. job' = [job EXCEPT ![t] = [freeing EXCEPT !.at = "freed"]]
      BY <1>1, <1>7, Zenon
    <2>1. Moved(t, F("freed"))
      BY <1>3, <2>0, Zenon DEF Moved
    <2>3. poolPaused' = poolPaused
      BY <1>1, <1>7
    <2> USE <1>6
    <2>2. WITNESS F("freed") \in Job
    <2> QED
      BY <1>1, <2>1, <2>3 DEF Types
  <1>8. CASE memory = "static" /\ resume
    <2>1. Moved(t, F("update")) /\ poolPaused' = FALSE
      BY <1>1, <1>4, <1>8 DEF Moved
    <2>2. poolPaused' \in BOOLEAN
      BY <2>1, Zenon
    <2> USE <1>6
    <2>3. WITNESS F("update") \in Job
    <2> QED
      BY <1>1, <2>1, <2>2
  <1>9. CASE memory = "static" /\ ~resume
    <2>1. Moved(t, R) /\ poolPaused' = poolPaused
      BY <1>1, <1>5, <1>9 DEF Moved
    <2>2. poolPaused' => Packets > 1
      BY <1>9, <2>1, SomePackets
    <2>3. poolPaused' \in BOOLEAN
      BY <2>1, Zenon DEF Types
    <2> USE <1>6
    <2>4. WITNESS R \in Job
    <2> QED
      BY <1>1, <2>1, <2>2, <2>3
  <1> QED
    BY <1>7, <1>8, <1>9 DEF Types

\* The records that other calls make of a job.
LEMMA CallRecords ==
    ASSUME Types, NEW t \in Task, NEW x, NEW n
    PROVE  [job EXCEPT ![t].at = x, ![t].next = n]
             = [job EXCEPT ![t] = [at |-> x, next |-> n, packet |-> job[t].packet,
                                   source |-> job[t].source, value |-> job[t].value]]
  <1> DEFINE k == [at |-> x, next |-> n, packet |-> job[t].packet,
                   source |-> job[t].source, value |-> job[t].value]
             m == [at |-> x, next |-> job[t].next, packet |-> job[t].packet,
                   source |-> job[t].source, value |-> job[t].value]
  <1>1. [job[t] EXCEPT !.at = x] = m
    BY Elsewhere
  <1>2. [m EXCEPT !.next = n] = k
    OBVIOUS
  <1>3. [[job[t] EXCEPT !.at = x] EXCEPT !.next = n] = k
    BY <1>1, <1>2, Zenon
  <1>4. /\ t \in DOMAIN job
        /\ [job EXCEPT ![t].at = x, ![t].next = n]
             = [job EXCEPT ![t] = [[job[t] EXCEPT !.at = x] EXCEPT !.next = n]]
    BY DEF Types
  <1> QED
    BY <1>3, <1>4

LEMMA PauseRecords ==
    ASSUME NEW k \in Job, NEW c, NEW v, NEW n
    PROVE  [k EXCEPT !.at = "update", !.source = c, !.value = v, !.next = n]
             = [at |-> "update", next |-> n, packet |-> k.packet, source |-> c,
                value |-> v]
  <1> DEFINE K(a, m, d, w) == [at |-> a, next |-> m, packet |-> k.packet,
                               source |-> d, value |-> w]
  <1>1. [k EXCEPT !.at = "update"] = K("update", k.next, k.source, k.value)
    BY DEF Job
  <1>2. [K("update", k.next, k.source, k.value) EXCEPT !.source = c]
          = K("update", k.next, c, k.value)
    OBVIOUS
  <1>3. [K("update", k.next, c, k.value) EXCEPT !.value = v]
          = K("update", k.next, c, v)
    OBVIOUS
  <1>4. [K("update", k.next, c, v) EXCEPT !.next = n] = K("update", n, c, v)
    OBVIOUS
  <1>5. [k EXCEPT !.at = "update", !.source = c]
          = K("update", k.next, c, k.value)
    BY <1>1, <1>2, Zenon
  <1>6. [k EXCEPT !.at = "update", !.source = c, !.value = v]
          = K("update", k.next, c, v)
    BY <1>3, <1>5, Zenon
  <1> QED
    BY <1>4, <1>6, Zenon

LEMMA PausedMoves ==
    ASSUME Types, NEW t \in Task, NEW c, NEW v, NEW n, SetPaused(t, c, v, n)
    PROVE  Moved(t, [at |-> "update", next |-> n, packet |-> job[t].packet,
                     source |-> c, value |-> v])
  <1>1. job[t] \in Job
    BY Fields
  <1>2. job' = [job EXCEPT ![t] = [job[t] EXCEPT !.at = "update", !.source = c,
                                                 !.value = v, !.next = n]]
    BY Zenon DEF SetPaused
  <1>3. [job[t] EXCEPT !.at = "update", !.source = c, !.value = v, !.next = n]
          = [at |-> "update", next |-> n, packet |-> job[t].packet, source |-> c,
             value |-> v]
    BY <1>1, PauseRecords, Zenon
  <1> QED
    BY <1>2, <1>3, Zenon DEF Moved

LEMMA Stays ==
    ASSUME Types, NEW t \in Task, job' = job
    PROVE  Moved(t, job[t])
  BY DEF Types, Moved

-----------------------------------------------------------------------------
(* The applications                                                        *)

LEMMA AppReadyKeeps ==
    ASSUME IInv, NEW t \in App, AppReady(t)
    PROVE  IInv'
  <1>1. /\ IInv /\ Types /\ Placed /\ Conserved /\ Reason /\ t \in Task
        /\ Proper(t, job[t]) /\ job[t].at = "ready" /\ ~job[t].packet
    BY FlowControlAssumption DEF IInv, AppReady, At, Placed, Proper, AppJob, DrvJob,
       LoopJob, Task
  <1>2. UNCHANGED <<pool, txPaused, sem, semb, queues, events, pauses, crowded>>
    BY DEF AppReady
  <1>3. CASE job' = [job EXCEPT ![t].at = "alloc", ![t].next = "queue"]
    <2> DEFINE j == [at |-> "alloc", next |-> "queue", packet |-> job[t].packet,
                     source |-> job[t].source, value |-> job[t].value]
    <2>1. j \in Job
      BY <1>1, <1>3, Fields DEF Job, Place, Source
    <2>2. Moved(t, j)
      BY <1>1, <1>2, <1>3, CallRecords DEF Moved, Types, Returned, Handler
    <2>3. Types'
      BY <1>1, <1>2, <1>3, <2>1, <2>2, JobsType DEF Types, pool, queues, events,
         MaxPauses, At
    <2>4. Proper(t, j)
      BY <1>1, <1>3, FlowControlAssumption DEF Proper, AppJob, DrvJob, LoopJob, Task
    <2>5. Conserved' /\ Reason'
      <3>1. txq' + statusq' + drvq'
              = txq + statusq + drvq + One(job[t].packet) - One(j.packet)
        BY <1>1, <1>2, <1>3, <2>3 DEF Types, queues, One
      <3>2. allocated' = allocated + One(j.at = "undo") - One(At(t, "undo"))
        BY <1>1, <1>2, <1>3, <2>4 DEF Types, One, At, Proper, AppJob, DrvJob, LoopJob,
           Task, pool
      <3>3. poolPaused' => poolPaused \/ Packets > 0
        BY <1>1, <1>2, <1>3, PacketsType, SomePackets DEF pool, Proper
      <3>4. job[t].at \in {"freed", "resuming"} =>
               \/ j.at \in {"freed", "resuming"} \/ ~poolPaused' \/ Packets > 0
        BY <1>1, <1>2, <1>3, SomePackets DEF pool
      <3> QED
        BY <1>1, <1>2, <1>3, <2>1, <2>2, <2>3, <3>1, <3>2, <3>3, <3>4, PacketsKept
           DEF pool
    <2>6. UNCHANGED <<memory, txPaused, sem, events, crowded>>
      BY <1>2, <1>3 DEF pool
    <2>7. poolPaused' = poolPaused \/ (j.at = "update" /\ j.source = "PKTMEM")
      BY <1>1, <1>2, <1>3 DEF pool, Proper
    <2>8. job[t].at \notin {"update", "tell", "wait"} /\ j.at \notin {"tell", "wait"}
      BY <1>1, <1>3, <2>4 DEF Proper, AppJob, DrvJob, LoopJob, Task
    <2> QED
      BY <1>1, <2>1, <2>2, <2>3, <2>4, <2>5, <2>6, <2>7, <2>8, StepKept
  <1> QED
    BY <1>3 DEF AppReady

\* What is bounded is counted.
LEMMA Budgeted ==
    ASSUME Types, OneMore
    PROVE  pauses' \in 0 .. MaxPauses
  <1>1. MaxPauses \in Nat
    BY FlowControlAssumption DEF Types, MaxPauses
  <1> QED
    BY <1>1 DEF Types, OneMore

\* A packet is freed: one of a queue, or one that the task holds.
LEMMA FreeKeeps ==
    ASSUME IInv, NEW t \in Task, NEW next \in Place, Free(t, next),
           \/ t = DRV /\ next = "idle" /\ At(t, "idle")
           \/ t = LOOP /\ next \in {"status", "tx"} /\ At(t, next)
           \/ t = LOOP /\ next = "events" /\ At(t, "ready") /\ job[t].packet
           \/ t \in App /\ next = "ready" /\ At(t, "queue") /\ job[t].packet,
           {txq', statusq', drvq'} \subseteq Nat,
           txq + statusq + drvq + One(job[t].packet) = txq' + statusq' + drvq' + 1,
           UNCHANGED <<txPaused, sem, semb, events, crowded>>,
           pauses' \in 0 .. MaxPauses
    PROVE  IInv'
  <1>1. /\ Types /\ Placed /\ Conserved /\ Reason /\ Proper(t, job[t])
        /\ job[t].source = "PKTMEM"
        /\ ~At(t, "undo") /\ job[t].at \notin {"update", "tell", "wait"}
    BY FlowControlAssumption DEF IInv, Placed, Proper, AppJob, DrvJob, LoopJob, At, Task
  <1>2. PICK j \in Job :
              /\ Moved(t, j)
              /\ ~j.packet /\ j.source = "PKTMEM"
              /\ \/ j.at \in {"freed", "update"} /\ j.next = next
                 \/ j.at = next /\ j.next = "idle"
              /\ poolPaused' = poolPaused \/ j.at = "update"
              /\ poolPaused' => j.at = "freed" \/ Packets > 1
              /\ poolPaused' \in BOOLEAN
              /\ allocated' = allocated - 1 /\ memory' = memory
    BY <1>1, FreeMoves
  <1>3. Types'
    <2>1. allocated' \in Nat
      <3>1. /\ Packets \in Nat /\ Cardinality(Undoing) \in Nat
            /\ job[t].packet => Packets > 0
            /\ allocated = Packets + Cardinality(Undoing)
        BY <1>1, PacketsType DEF Conserved
      <3>2. Packets > 0
        <4>1. CASE job[t].packet
          BY <3>1, <4>1
        <4>2. CASE ~job[t].packet
          <5>1. {txq, statusq, drvq} \subseteq Nat /\ One(job[t].packet) = 0
            BY <1>1, <4>2 DEF Types, One
          <5>2. txq + statusq + drvq >= 1
            BY <5>1
          <5> QED
            BY <1>1, <5>1, <5>2, PacketsType DEF Packets
        <4> QED
          BY <4>1, <4>2
      <3> QED
        BY <1>2, <3>1, <3>2
    <2>2. job' \in [Task -> Job]
      BY <1>1, <1>2, JobsType
    <2> QED
      BY <1>1, <1>2, <2>1, <2>2 DEF Types, events, MaxPauses
  <1>4. Proper(t, j)
    BY <1>1, <1>2, FlowControlAssumption DEF Proper, AppJob, DrvJob, LoopJob, At
  <1>5. Conserved' /\ Reason'
    <2>1. j.at # "undo"
      BY <1>2
    <2> QED
      BY <1>1, <1>2, <1>3, <2>1, PacketFreed
  <1>6. j.at \notin {"tell", "wait"}
    BY <1>2
  <1> QED
    BY <1>1, <1>2, <1>3, <1>4, <1>5, <1>6, StepKept

LEMMA AppQueuesKeeps ==
    ASSUME IInv, NEW t \in App, AppQueues(t)
    PROVE  IInv'
  <1>1. /\ IInv /\ Types /\ Placed /\ Conserved /\ Reason /\ t \in Task
        /\ Proper(t, job[t]) /\ job[t].at = "queue"
    BY FlowControlAssumption DEF IInv, AppQueues, At, Placed, Proper, AppJob, DrvJob,
       LoopJob, Task
  <1>2. UNCHANGED <<txPaused, sem, statusq, events, crowded>>
    BY DEF AppQueues
  <1>3. CASE /\ job' = [job EXCEPT ![t].at = "ready", ![t].packet = FALSE]
             /\ \/ ~job[t].packet /\ txq' = txq /\ drvq' = drvq
                \/ job[t].packet /\ txq' = txq + 1 /\ drvq' = drvq
                \/ job[t].packet /\ txq' = txq /\ drvq' = drvq + 1
             /\ UNCHANGED pool /\ semb' \in BOOLEAN /\ pauses' \in 0 .. MaxPauses
    <2> DEFINE j == [at |-> "ready", next |-> job[t].next, packet |-> FALSE,
                     source |-> job[t].source, value |-> job[t].value]
    <2>1. j \in Job
      BY <1>1, <1>3, Fields DEF Job, Place, Source
    <2>2. Moved(t, j)
      BY <1>1, <1>2, <1>3, WithPacket DEF Moved, Types, Returned, Handler
    <2>3. Types'
      BY <1>1, <1>2, <1>3, <2>1, <2>2, JobsType DEF Types, pool, queues, events,
         MaxPauses, At
    <2>4. Proper(t, j)
      BY <1>1, <1>3, FlowControlAssumption DEF Proper, AppJob, DrvJob, LoopJob, Task
    <2>5. Conserved' /\ Reason'
      <3>1. txq' + statusq' + drvq'
              = txq + statusq + drvq + One(job[t].packet) - One(j.packet)
        BY <1>1, <1>2, <1>3, <2>3 DEF Types, queues, One
      <3>2. allocated' = allocated + One(j.at = "undo") - One(At(t, "undo"))
        BY <1>1, <1>2, <1>3, <2>4 DEF Types, One, At, Proper, AppJob, DrvJob, LoopJob,
           Task, pool
      <3>3. poolPaused' => poolPaused \/ Packets > 0
        BY <1>1, <1>2, <1>3, PacketsType, SomePackets DEF pool, Proper
      <3>4. job[t].at \in {"freed", "resuming"} =>
               \/ j.at \in {"freed", "resuming"} \/ ~poolPaused' \/ Packets > 0
        BY <1>1, <1>2, <1>3, SomePackets DEF pool
      <3> QED
        BY <1>1, <1>2, <1>3, <2>1, <2>2, <2>3, <3>1, <3>2, <3>3, <3>4, PacketsKept
           DEF pool
    <2>6. UNCHANGED <<memory, txPaused, sem, events, crowded>>
      BY <1>2, <1>3 DEF pool
    <2>7. poolPaused' = poolPaused \/ (j.at = "update" /\ j.source = "PKTMEM")
      BY <1>1, <1>2, <1>3 DEF pool, Proper
    <2>8. job[t].at \notin {"update", "tell", "wait"} /\ j.at \notin {"tell", "wait"}
      BY <1>1, <1>3, <2>4 DEF Proper, AppJob, DrvJob, LoopJob, Task
    <2> QED
      BY <1>1, <2>1, <2>2, <2>3, <2>4, <2>5, <2>6, <2>7, <2>8, StepKept
  <1>4. CASE job[t].packet /\ Drop(t, "ready") /\ UNCHANGED <<txq, drvq, semb>>
    <2>1. pauses' \in 0 .. MaxPauses
      BY <1>1, <1>4, Budgeted DEF Drop
    <2>2. "ready" \in Place /\ One(job[t].packet) = 1
      BY <1>4 DEF Place, One
    <2>3. {txq, statusq, drvq} \subseteq Nat
      BY <1>1 DEF Types
    <2> QED
      BY <1>1, <1>2, <1>4, <2>1, <2>2, <2>3, FreeKeeps DEF Drop, At
  <1>5. CASE /\ job' = [job EXCEPT ![t].at = "ready", ![t].packet = FALSE]
             /\ \/ ~job[t].packet /\ UNCHANGED <<txq, drvq, semb, pauses>>
                \/ /\ job[t].packet /\ txq' = txq + 1 /\ semb' = TRUE
                   /\ UNCHANGED <<drvq, pauses>>
                \/ /\ job[t].packet /\ OneMore /\ drvq' = drvq + 1
                   /\ UNCHANGED <<txq, semb>>
             /\ UNCHANGED pool
    <2>1. pauses \in 0 .. MaxPauses /\ semb \in BOOLEAN
      BY <1>1 DEF Types
    <2>2. OneMore => pauses' \in 0 .. MaxPauses
      BY <1>1, Budgeted
    <2>3. TRUE \in BOOLEAN
      OBVIOUS
    <2>4. semb' \in BOOLEAN /\ pauses' \in 0 .. MaxPauses
      BY <1>5, <2>1, <2>2, <2>3
    <2> QED
      BY <1>3, <1>5, <2>4
  <1> QED
    BY <1>4, <1>5 DEF AppQueues

-----------------------------------------------------------------------------
(* The driver task and the event loop                                      *)

LEMMA DrvReportsKeeps ==
    ASSUME IInv, DrvReports
    PROVE  IInv'
  <1>1. /\ IInv /\ Types /\ Placed /\ Conserved /\ Reason /\ DRV \in Task
        /\ Proper(DRV, job[DRV]) /\ job[DRV].at = "idle"
        /\ ~job[DRV].packet /\ drvq > 0 /\ drvq' = drvq - 1 /\ drvq' \in Nat
    BY FlowControlAssumption DEF IInv, Types, DrvReports, At, Placed, Proper, AppJob,
       DrvJob, LoopJob, Task
  <1>2. UNCHANGED <<txPaused, sem, txq, events, pauses, crowded>>
    BY DEF DrvReports
  <1>3. CASE Free(DRV, "idle") /\ UNCHANGED <<statusq, semb>>
    <2>1. pauses' \in 0 .. MaxPauses
      BY <1>1, <1>2 DEF Types
    <2>2. "idle" \in Place /\ One(job[DRV].packet) = 0
      BY <1>1 DEF Place, One
    <2>3. {txq, statusq, drvq} \subseteq Nat /\ {txq', statusq', drvq'} \subseteq Nat
      BY <1>1, <1>2, <1>3 DEF Types
    <2>4. txq + statusq + drvq + One(job[DRV].packet) = txq' + statusq' + drvq' + 1
      BY <1>1, <1>2, <1>3, <2>2, <2>3
    <2> QED
      BY <1>1, <1>2, <1>3, <2>1, <2>2, <2>3, <2>4, FreeKeeps DEF At
  <1>4. CASE statusq' = statusq + 1 /\ semb' = TRUE /\ semb' \in BOOLEAN /\ UNCHANGED <<pool, job>>
    <2> DEFINE j == [at |-> job[DRV].at, next |-> job[DRV].next, packet |-> job[DRV].packet,
                     source |-> job[DRV].source, value |-> job[DRV].value]
    <2>1. j \in Job
      BY <1>1, <1>4, Fields DEF Job, Place, Source
    <2>2. Moved(DRV, j)
      BY <1>1, <1>2, <1>4, Stays, Fields DEF Moved, Types, Returned, Handler
    <2>3. Types'
      BY <1>1, <1>2, <1>4, <2>1, <2>2, JobsType DEF Types, pool, queues, events,
         MaxPauses, At
    <2>4. Proper(DRV, j)
      BY <1>1, <1>4, FlowControlAssumption DEF Proper, AppJob, DrvJob, LoopJob, Task
    <2>5. Conserved' /\ Reason'
      <3>1. txq' + statusq' + drvq'
              = txq + statusq + drvq + One(job[DRV].packet) - One(j.packet)
        BY <1>1, <1>2, <1>4, <2>3 DEF Types, queues, One
      <3>2. allocated' = allocated + One(j.at = "undo") - One(At(DRV, "undo"))
        BY <1>1, <1>2, <1>4, <2>4 DEF Types, One, At, Proper, AppJob, DrvJob, LoopJob,
           Task, pool
      <3>3. poolPaused' => poolPaused \/ Packets > 0
        BY <1>1, <1>2, <1>4, PacketsType, SomePackets DEF pool, Proper
      <3>4. job[DRV].at \in {"freed", "resuming"} =>
               \/ j.at \in {"freed", "resuming"} \/ ~poolPaused' \/ Packets > 0
        BY <1>1, <1>2, <1>4, SomePackets DEF pool
      <3> QED
        BY <1>1, <1>2, <1>4, <2>1, <2>2, <2>3, <3>1, <3>2, <3>3, <3>4, PacketsKept
           DEF pool
    <2>6. UNCHANGED <<memory, txPaused, sem, events, crowded>>
      BY <1>2, <1>4 DEF pool
    <2>7. poolPaused' = poolPaused \/ (j.at = "update" /\ j.source = "PKTMEM")
      BY <1>1, <1>2, <1>4 DEF pool, Proper
    <2>8. job[DRV].at \notin {"update", "tell", "wait"} /\ j.at \notin {"tell", "wait"}
      BY <1>1, <1>4, <2>4 DEF Proper, AppJob, DrvJob, LoopJob, Task
    <2> QED
      BY <1>1, <2>1, <2>2, <2>3, <2>4, <2>5, <2>6, <2>7, <2>8, StepKept
  <1> QED
    BY <1>3, <1>4 DEF DrvReports

LEMMA TrafficPauseKeeps ==
    ASSUME IInv, TrafficPause
    PROVE  IInv'
  <1>1. /\ IInv /\ Types /\ Placed /\ Conserved /\ Reason /\ DRV \in Task
        /\ Proper(DRV, job[DRV]) /\ job[DRV].at = "idle"
        /\ ~job[DRV].packet
    BY FlowControlAssumption DEF IInv, TrafficPause, At, Placed, Proper, AppJob, DrvJob,
       LoopJob, Task
  <1>2. UNCHANGED <<pool, txPaused, sem, semb, queues, events, crowded>>
    BY DEF TrafficPause
  <1>3. CASE SetPaused(DRV, "TRAFFIC", TRUE, "idle") /\ pauses' \in 0 .. MaxPauses
    <2> DEFINE j == [at |-> "update", next |-> "idle", packet |-> job[DRV].packet,
                     source |-> "TRAFFIC", value |-> TRUE]
    <2>1. j \in Job
      BY <1>1, <1>3, Fields DEF Job, Place, Source
    <2>2. Moved(DRV, j)
      BY <1>1, <1>2, <1>3, PausedMoves DEF Moved, Types, Returned, Handler
    <2>3. Types'
      BY <1>1, <1>2, <1>3, <2>1, <2>2, JobsType DEF Types, pool, queues, events,
         MaxPauses, At
    <2>4. Proper(DRV, j)
      BY <1>1, <1>3, FlowControlAssumption DEF Proper, AppJob, DrvJob, LoopJob, Task
    <2>5. Conserved' /\ Reason'
      <3>1. txq' + statusq' + drvq'
              = txq + statusq + drvq + One(job[DRV].packet) - One(j.packet)
        BY <1>1, <1>2, <1>3, <2>3 DEF Types, queues, One
      <3>2. allocated' = allocated + One(j.at = "undo") - One(At(DRV, "undo"))
        BY <1>1, <1>2, <1>3, <2>4 DEF Types, One, At, Proper, AppJob, DrvJob, LoopJob,
           Task, pool
      <3>3. poolPaused' => poolPaused \/ Packets > 0
        BY <1>1, <1>2, <1>3, PacketsType, SomePackets DEF pool, Proper
      <3>4. job[DRV].at \in {"freed", "resuming"} =>
               \/ j.at \in {"freed", "resuming"} \/ ~poolPaused' \/ Packets > 0
        BY <1>1, <1>2, <1>3, SomePackets DEF pool
      <3> QED
        BY <1>1, <1>2, <1>3, <2>1, <2>2, <2>3, <3>1, <3>2, <3>3, <3>4, PacketsKept
           DEF pool
    <2>6. UNCHANGED <<memory, txPaused, sem, events, crowded>>
      BY <1>2, <1>3 DEF pool
    <2>7. poolPaused' = poolPaused \/ (j.at = "update" /\ j.source = "PKTMEM")
      BY <1>1, <1>2, <1>3 DEF pool, Proper
    <2>8. job[DRV].at \notin {"update", "tell", "wait"} /\ j.at \notin {"tell", "wait"}
      BY <1>1, <1>3, <2>4 DEF Proper, AppJob, DrvJob, LoopJob, Task
    <2> QED
      BY <1>1, <2>1, <2>2, <2>3, <2>4, <2>5, <2>6, <2>7, <2>8, StepKept
  <1>4. pauses' \in 0 .. MaxPauses
    BY <1>1, FlowControlAssumption DEF TrafficPause, MaxPauses, Types
  <1> QED
    BY <1>3, <1>4 DEF TrafficPause

LEMMA TrafficResumeKeeps ==
    ASSUME IInv, TrafficResume
    PROVE  IInv'
  <1>1. /\ IInv /\ Types /\ Placed /\ Conserved /\ Reason /\ DRV \in Task
        /\ Proper(DRV, job[DRV]) /\ job[DRV].at = "idle"
        /\ ~job[DRV].packet
    BY FlowControlAssumption DEF IInv, TrafficResume, At, Placed, Proper, AppJob,
       DrvJob, LoopJob, Task
  <1>2. UNCHANGED <<pool, txPaused, sem, semb, queues, events, crowded, pauses>>
    BY DEF TrafficResume
  <1>3. CASE SetPaused(DRV, "TRAFFIC", FALSE, "idle")
    <2> DEFINE j == [at |-> "update", next |-> "idle", packet |-> job[DRV].packet,
                     source |-> "TRAFFIC", value |-> FALSE]
    <2>1. j \in Job
      BY <1>1, <1>3, Fields DEF Job, Place, Source
    <2>2. Moved(DRV, j)
      BY <1>1, <1>2, <1>3, PausedMoves DEF Moved, Types, Returned, Handler
    <2>3. Types'
      BY <1>1, <1>2, <1>3, <2>1, <2>2, JobsType DEF Types, pool, queues, events,
         MaxPauses, At
    <2>4. Proper(DRV, j)
      BY <1>1, <1>3, FlowControlAssumption DEF Proper, AppJob, DrvJob, LoopJob, Task
    <2>5. Conserved' /\ Reason'
      <3>1. txq' + statusq' + drvq'
              = txq + statusq + drvq + One(job[DRV].packet) - One(j.packet)
        BY <1>1, <1>2, <1>3, <2>3 DEF Types, queues, One
      <3>2. allocated' = allocated + One(j.at = "undo") - One(At(DRV, "undo"))
        BY <1>1, <1>2, <1>3, <2>4 DEF Types, One, At, Proper, AppJob, DrvJob, LoopJob,
           Task, pool
      <3>3. poolPaused' => poolPaused \/ Packets > 0
        BY <1>1, <1>2, <1>3, PacketsType, SomePackets DEF pool, Proper
      <3>4. job[DRV].at \in {"freed", "resuming"} =>
               \/ j.at \in {"freed", "resuming"} \/ ~poolPaused' \/ Packets > 0
        BY <1>1, <1>2, <1>3, SomePackets DEF pool
      <3> QED
        BY <1>1, <1>2, <1>3, <2>1, <2>2, <2>3, <3>1, <3>2, <3>3, <3>4, PacketsKept
           DEF pool
    <2>6. UNCHANGED <<memory, txPaused, sem, events, crowded>>
      BY <1>2, <1>3 DEF pool
    <2>7. poolPaused' = poolPaused \/ (j.at = "update" /\ j.source = "PKTMEM")
      BY <1>1, <1>2, <1>3 DEF pool, Proper
    <2>8. job[DRV].at \notin {"update", "tell", "wait"} /\ j.at \notin {"tell", "wait"}
      BY <1>1, <1>3, <2>4 DEF Proper, AppJob, DrvJob, LoopJob, Task
    <2> QED
      BY <1>1, <2>1, <2>2, <2>3, <2>4, <2>5, <2>6, <2>7, <2>8, StepKept
  <1> QED
    BY <1>3 DEF TrafficResume

LEMMA LoopWakesKeeps ==
    ASSUME IInv, LoopWakes
    PROVE  IInv'
  <1>1. /\ IInv /\ Types /\ Placed /\ Conserved /\ Reason /\ LOOP \in Task
        /\ Proper(LOOP, job[LOOP]) /\ job[LOOP].at = "asleep"
        /\ ~job[LOOP].packet
    BY FlowControlAssumption DEF IInv, LoopWakes, At, Placed, Proper, AppJob, DrvJob,
       LoopJob, Task
  <1>2. UNCHANGED <<pool, txPaused, sem, queues, events, pauses, crowded>>
    BY DEF LoopWakes
  <1>3. CASE Goto(LOOP, "status") /\ semb' = FALSE /\ semb' \in BOOLEAN
    <2> DEFINE j == [at |-> "status", next |-> job[LOOP].next, packet |-> job[LOOP].packet,
                     source |-> job[LOOP].source, value |-> job[LOOP].value]
    <2>1. j \in Job
      BY <1>1, <1>3, Fields DEF Job, Place, Source
    <2>2. Moved(LOOP, j)
      BY <1>1, <1>2, <1>3, Elsewhere DEF Moved, Types, Returned, Handler, Goto
    <2>3. Types'
      BY <1>1, <1>2, <1>3, <2>1, <2>2, JobsType DEF Types, pool, queues, events,
         MaxPauses, At
    <2>4. Proper(LOOP, j)
      BY <1>1, <1>3, FlowControlAssumption DEF Proper, AppJob, DrvJob, LoopJob, Task
    <2>5. Conserved' /\ Reason'
      <3>1. txq' + statusq' + drvq'
              = txq + statusq + drvq + One(job[LOOP].packet) - One(j.packet)
        BY <1>1, <1>2, <1>3, <2>3 DEF Types, queues, One
      <3>2. allocated' = allocated + One(j.at = "undo") - One(At(LOOP, "undo"))
        BY <1>1, <1>2, <1>3, <2>4 DEF Types, One, At, Proper, AppJob, DrvJob, LoopJob,
           Task, pool
      <3>3. poolPaused' => poolPaused \/ Packets > 0
        BY <1>1, <1>2, <1>3, PacketsType, SomePackets DEF pool, Proper
      <3>4. job[LOOP].at \in {"freed", "resuming"} =>
               \/ j.at \in {"freed", "resuming"} \/ ~poolPaused' \/ Packets > 0
        BY <1>1, <1>2, <1>3, SomePackets DEF pool
      <3> QED
        BY <1>1, <1>2, <1>3, <2>1, <2>2, <2>3, <3>1, <3>2, <3>3, <3>4, PacketsKept
           DEF pool
    <2>6. UNCHANGED <<memory, txPaused, sem, events, crowded>>
      BY <1>2, <1>3 DEF pool
    <2>7. poolPaused' = poolPaused \/ (j.at = "update" /\ j.source = "PKTMEM")
      BY <1>1, <1>2, <1>3 DEF pool, Proper
    <2>8. job[LOOP].at \notin {"update", "tell", "wait"} /\ j.at \notin {"tell", "wait"}
      BY <1>1, <1>3, <2>4 DEF Proper, AppJob, DrvJob, LoopJob, Task
    <2> QED
      BY <1>1, <2>1, <2>2, <2>3, <2>4, <2>5, <2>6, <2>7, <2>8, StepKept
  <1> QED
    BY <1>3 DEF LoopWakes

LEMMA LoopStatusKeeps ==
    ASSUME IInv, LoopStatus
    PROVE  IInv'
  <1>1. /\ IInv /\ Types /\ Placed /\ Conserved /\ Reason /\ LOOP \in Task
        /\ Proper(LOOP, job[LOOP]) /\ job[LOOP].at = "status"
        /\ ~job[LOOP].packet
    BY FlowControlAssumption DEF IInv, LoopStatus, At, Placed, Proper, AppJob, DrvJob,
       LoopJob, Task
  <1>2. UNCHANGED <<txPaused, sem, semb, txq, drvq, events, pauses, crowded>>
    BY DEF LoopStatus
  <1>3. CASE statusq > 0 /\ statusq' = statusq - 1 /\ Free(LOOP, "status")
    <2>1. pauses' \in 0 .. MaxPauses
      BY <1>1, <1>2 DEF Types
    <2>2. "status" \in Place /\ One(job[LOOP].packet) = 0
      BY <1>1 DEF Place, One
    <2>3. {txq, statusq, drvq} \subseteq Nat /\ {txq', statusq', drvq'} \subseteq Nat
      BY <1>1, <1>2, <1>3 DEF Types
    <2>4. txq + statusq + drvq + One(job[LOOP].packet) = txq' + statusq' + drvq' + 1
      BY <1>1, <1>2, <1>3, <2>2, <2>3
    <2> QED
      BY <1>1, <1>2, <1>3, <2>1, <2>2, <2>3, <2>4, FreeKeeps DEF At
  <1>4. CASE Goto(LOOP, "tx") /\ UNCHANGED <<statusq, pool>>
    <2> DEFINE j == [at |-> "tx", next |-> job[LOOP].next, packet |-> job[LOOP].packet,
                     source |-> job[LOOP].source, value |-> job[LOOP].value]
    <2>1. j \in Job
      BY <1>1, <1>4, Fields DEF Job, Place, Source
    <2>2. Moved(LOOP, j)
      BY <1>1, <1>2, <1>4, Elsewhere DEF Moved, Types, Returned, Handler, Goto
    <2>3. Types'
      BY <1>1, <1>2, <1>4, <2>1, <2>2, JobsType DEF Types, pool, queues, events,
         MaxPauses, At
    <2>4. Proper(LOOP, j)
      BY <1>1, <1>4, FlowControlAssumption DEF Proper, AppJob, DrvJob, LoopJob, Task
    <2>5. Conserved' /\ Reason'
      <3>1. txq' + statusq' + drvq'
              = txq + statusq + drvq + One(job[LOOP].packet) - One(j.packet)
        BY <1>1, <1>2, <1>4, <2>3 DEF Types, queues, One
      <3>2. allocated' = allocated + One(j.at = "undo") - One(At(LOOP, "undo"))
        BY <1>1, <1>2, <1>4, <2>4 DEF Types, One, At, Proper, AppJob, DrvJob, LoopJob,
           Task, pool
      <3>3. poolPaused' => poolPaused \/ Packets > 0
        BY <1>1, <1>2, <1>4, PacketsType, SomePackets DEF pool, Proper
      <3>4. job[LOOP].at \in {"freed", "resuming"} =>
               \/ j.at \in {"freed", "resuming"} \/ ~poolPaused' \/ Packets > 0
        BY <1>1, <1>2, <1>4, SomePackets DEF pool
      <3> QED
        BY <1>1, <1>2, <1>4, <2>1, <2>2, <2>3, <3>1, <3>2, <3>3, <3>4, PacketsKept
           DEF pool
    <2>6. UNCHANGED <<memory, txPaused, sem, events, crowded>>
      BY <1>2, <1>4 DEF pool
    <2>7. poolPaused' = poolPaused \/ (j.at = "update" /\ j.source = "PKTMEM")
      BY <1>1, <1>2, <1>4 DEF pool, Proper
    <2>8. job[LOOP].at \notin {"update", "tell", "wait"} /\ j.at \notin {"tell", "wait"}
      BY <1>1, <1>4, <2>4 DEF Proper, AppJob, DrvJob, LoopJob, Task
    <2> QED
      BY <1>1, <2>1, <2>2, <2>3, <2>4, <2>5, <2>6, <2>7, <2>8, StepKept
  <1> QED
    BY <1>3, <1>4 DEF LoopStatus

LEMMA LoopTxKeeps ==
    ASSUME IInv, LoopTx
    PROVE  IInv'
  <1>1. /\ IInv /\ Types /\ Placed /\ Conserved /\ Reason /\ LOOP \in Task
        /\ Proper(LOOP, job[LOOP]) /\ job[LOOP].at = "tx"
        /\ ~job[LOOP].packet
    BY FlowControlAssumption DEF IInv, LoopTx, At, Placed, Proper, AppJob, DrvJob,
       LoopJob, Task
  <1>2. UNCHANGED <<txPaused, sem, semb, statusq, events, crowded>>
    BY DEF LoopTx
  <1>3. CASE /\ txq > 0 /\ txq' = txq - 1 /\ drvq' = drvq + 1
             /\ UNCHANGED <<pool, job, pauses>>
    <2> DEFINE j == [at |-> job[LOOP].at, next |-> job[LOOP].next, packet |-> job[LOOP].packet,
                     source |-> job[LOOP].source, value |-> job[LOOP].value]
    <2>1. j \in Job
      BY <1>1, <1>3, Fields DEF Job, Place, Source
    <2>2. Moved(LOOP, j)
      BY <1>1, <1>2, <1>3, Stays, Fields DEF Moved, Types, Returned, Handler
    <2>3. Types'
      BY <1>1, <1>2, <1>3, <2>1, <2>2, JobsType DEF Types, pool, queues, events,
         MaxPauses, At
    <2>4. Proper(LOOP, j)
      BY <1>1, <1>3, FlowControlAssumption DEF Proper, AppJob, DrvJob, LoopJob, Task
    <2>5. Conserved' /\ Reason'
      <3>1. txq' + statusq' + drvq'
              = txq + statusq + drvq + One(job[LOOP].packet) - One(j.packet)
        BY <1>1, <1>2, <1>3, <2>3 DEF Types, queues, One
      <3>2. allocated' = allocated + One(j.at = "undo") - One(At(LOOP, "undo"))
        BY <1>1, <1>2, <1>3, <2>4 DEF Types, One, At, Proper, AppJob, DrvJob, LoopJob,
           Task, pool
      <3>3. poolPaused' => poolPaused \/ Packets > 0
        BY <1>1, <1>2, <1>3, PacketsType, SomePackets DEF pool, Proper
      <3>4. job[LOOP].at \in {"freed", "resuming"} =>
               \/ j.at \in {"freed", "resuming"} \/ ~poolPaused' \/ Packets > 0
        BY <1>1, <1>2, <1>3, SomePackets DEF pool
      <3> QED
        BY <1>1, <1>2, <1>3, <2>1, <2>2, <2>3, <3>1, <3>2, <3>3, <3>4, PacketsKept
           DEF pool
    <2>6. UNCHANGED <<memory, txPaused, sem, events, crowded>>
      BY <1>2, <1>3 DEF pool
    <2>7. poolPaused' = poolPaused \/ (j.at = "update" /\ j.source = "PKTMEM")
      BY <1>1, <1>2, <1>3 DEF pool, Proper
    <2>8. job[LOOP].at \notin {"update", "tell", "wait"} /\ j.at \notin {"tell", "wait"}
      BY <1>1, <1>3, <2>4 DEF Proper, AppJob, DrvJob, LoopJob, Task
    <2> QED
      BY <1>1, <2>1, <2>2, <2>3, <2>4, <2>5, <2>6, <2>7, <2>8, StepKept
  <1>4. CASE Goto(LOOP, "events") /\ UNCHANGED <<pool, txq, drvq, pauses>>
    <2> DEFINE j == [at |-> "events", next |-> job[LOOP].next, packet |-> job[LOOP].packet,
                     source |-> job[LOOP].source, value |-> job[LOOP].value]
    <2>1. j \in Job
      BY <1>1, <1>4, Fields DEF Job, Place, Source
    <2>2. Moved(LOOP, j)
      BY <1>1, <1>2, <1>4, Elsewhere DEF Moved, Types, Returned, Handler, Goto
    <2>3. Types'
      BY <1>1, <1>2, <1>4, <2>1, <2>2, JobsType DEF Types, pool, queues, events,
         MaxPauses, At
    <2>4. Proper(LOOP, j)
      BY <1>1, <1>4, FlowControlAssumption DEF Proper, AppJob, DrvJob, LoopJob, Task
    <2>5. Conserved' /\ Reason'
      <3>1. txq' + statusq' + drvq'
              = txq + statusq + drvq + One(job[LOOP].packet) - One(j.packet)
        BY <1>1, <1>2, <1>4, <2>3 DEF Types, queues, One
      <3>2. allocated' = allocated + One(j.at = "undo") - One(At(LOOP, "undo"))
        BY <1>1, <1>2, <1>4, <2>4 DEF Types, One, At, Proper, AppJob, DrvJob, LoopJob,
           Task, pool
      <3>3. poolPaused' => poolPaused \/ Packets > 0
        BY <1>1, <1>2, <1>4, PacketsType, SomePackets DEF pool, Proper
      <3>4. job[LOOP].at \in {"freed", "resuming"} =>
               \/ j.at \in {"freed", "resuming"} \/ ~poolPaused' \/ Packets > 0
        BY <1>1, <1>2, <1>4, SomePackets DEF pool
      <3> QED
        BY <1>1, <1>2, <1>4, <2>1, <2>2, <2>3, <3>1, <3>2, <3>3, <3>4, PacketsKept
           DEF pool
    <2>6. UNCHANGED <<memory, txPaused, sem, events, crowded>>
      BY <1>2, <1>4 DEF pool
    <2>7. poolPaused' = poolPaused \/ (j.at = "update" /\ j.source = "PKTMEM")
      BY <1>1, <1>2, <1>4 DEF pool, Proper
    <2>8. job[LOOP].at \notin {"update", "tell", "wait"} /\ j.at \notin {"tell", "wait"}
      BY <1>1, <1>4, <2>4 DEF Proper, AppJob, DrvJob, LoopJob, Task
    <2> QED
      BY <1>1, <2>1, <2>2, <2>3, <2>4, <2>5, <2>6, <2>7, <2>8, StepKept
  <1>5. CASE txq > 0 /\ txq' = txq - 1 /\ Drop(LOOP, "tx") /\ UNCHANGED drvq
    <2>1. pauses' \in 0 .. MaxPauses
      BY <1>1, <1>5, Budgeted DEF Drop
    <2>2. "tx" \in Place /\ One(job[LOOP].packet) = 0
      BY <1>1 DEF Place, One
    <2>3. {txq, statusq, drvq} \subseteq Nat
      BY <1>1 DEF Types
    <2>4. /\ {txq', statusq', drvq'} \subseteq Nat
          /\ txq + statusq + drvq + 0 = txq' + statusq' + drvq' + 1
      BY <1>2, <1>5, <2>3
    <2> QED
      BY <1>1, <1>2, <1>5, <2>1, <2>2, <2>4, FreeKeeps DEF Drop, At
  <1> QED
    BY <1>3, <1>4, <1>5 DEF LoopTx

LEMMA LoopEventKeeps ==
    ASSUME IInv, NEW e, LoopEvent(e)
    PROVE  IInv'
  <1>1. /\ IInv /\ Types /\ Placed /\ Conserved /\ Reason /\ LOOP \in Task
        /\ Proper(LOOP, job[LOOP]) /\ job[LOOP].at = "events"
        /\ ~job[LOOP].packet
    BY FlowControlAssumption DEF IInv, LoopEvent, At, Placed, Proper, AppJob, DrvJob,
       LoopJob, Task
  <1>2. UNCHANGED <<pool, txPaused, sem, semb, queues, events, crowded>>
    BY DEF LoopEvent
  <1>3. CASE SetPaused(LOOP, "SCAN", FALSE, "events") /\ pauses' \in 0 .. MaxPauses
    <2> DEFINE j == [at |-> "update", next |-> "events", packet |-> job[LOOP].packet,
                     source |-> "SCAN", value |-> FALSE]
    <2>1. j \in Job
      BY <1>1, <1>3, Fields DEF Job, Place, Source
    <2>2. Moved(LOOP, j)
      BY <1>1, <1>2, <1>3, PausedMoves DEF Moved, Types, Returned, Handler
    <2>3. Types'
      BY <1>1, <1>2, <1>3, <2>1, <2>2, JobsType DEF Types, pool, queues, events,
         MaxPauses, At
    <2>4. Proper(LOOP, j)
      BY <1>1, <1>3, FlowControlAssumption DEF Proper, AppJob, DrvJob, LoopJob, Task
    <2>5. Conserved' /\ Reason'
      <3>1. txq' + statusq' + drvq'
              = txq + statusq + drvq + One(job[LOOP].packet) - One(j.packet)
        BY <1>1, <1>2, <1>3, <2>3 DEF Types, queues, One
      <3>2. allocated' = allocated + One(j.at = "undo") - One(At(LOOP, "undo"))
        BY <1>1, <1>2, <1>3, <2>4 DEF Types, One, At, Proper, AppJob, DrvJob, LoopJob,
           Task, pool
      <3>3. poolPaused' => poolPaused \/ Packets > 0
        BY <1>1, <1>2, <1>3, PacketsType, SomePackets DEF pool, Proper
      <3>4. job[LOOP].at \in {"freed", "resuming"} =>
               \/ j.at \in {"freed", "resuming"} \/ ~poolPaused' \/ Packets > 0
        BY <1>1, <1>2, <1>3, SomePackets DEF pool
      <3> QED
        BY <1>1, <1>2, <1>3, <2>1, <2>2, <2>3, <3>1, <3>2, <3>3, <3>4, PacketsKept
           DEF pool
    <2>6. UNCHANGED <<memory, txPaused, sem, events, crowded>>
      BY <1>2, <1>3 DEF pool
    <2>7. poolPaused' = poolPaused \/ (j.at = "update" /\ j.source = "PKTMEM")
      BY <1>1, <1>2, <1>3 DEF pool, Proper
    <2>8. job[LOOP].at \notin {"update", "tell", "wait"} /\ j.at \notin {"tell", "wait"}
      BY <1>1, <1>3, <2>4 DEF Proper, AppJob, DrvJob, LoopJob, Task
    <2> QED
      BY <1>1, <2>1, <2>2, <2>3, <2>4, <2>5, <2>6, <2>7, <2>8, StepKept
  <1>4. CASE SetPaused(LOOP, "SCAN", TRUE, "events") /\ pauses' \in 0 .. MaxPauses
    <2> DEFINE j == [at |-> "update", next |-> "events", packet |-> job[LOOP].packet,
                     source |-> "SCAN", value |-> TRUE]
    <2>1. j \in Job
      BY <1>1, <1>4, Fields DEF Job, Place, Source
    <2>2. Moved(LOOP, j)
      BY <1>1, <1>2, <1>4, PausedMoves DEF Moved, Types, Returned, Handler
    <2>3. Types'
      BY <1>1, <1>2, <1>4, <2>1, <2>2, JobsType DEF Types, pool, queues, events,
         MaxPauses, At
    <2>4. Proper(LOOP, j)
      BY <1>1, <1>4, FlowControlAssumption DEF Proper, AppJob, DrvJob, LoopJob, Task
    <2>5. Conserved' /\ Reason'
      <3>1. txq' + statusq' + drvq'
              = txq + statusq + drvq + One(job[LOOP].packet) - One(j.packet)
        BY <1>1, <1>2, <1>4, <2>3 DEF Types, queues, One
      <3>2. allocated' = allocated + One(j.at = "undo") - One(At(LOOP, "undo"))
        BY <1>1, <1>2, <1>4, <2>4 DEF Types, One, At, Proper, AppJob, DrvJob, LoopJob,
           Task, pool
      <3>3. poolPaused' => poolPaused \/ Packets > 0
        BY <1>1, <1>2, <1>4, PacketsType, SomePackets DEF pool, Proper
      <3>4. job[LOOP].at \in {"freed", "resuming"} =>
               \/ j.at \in {"freed", "resuming"} \/ ~poolPaused' \/ Packets > 0
        BY <1>1, <1>2, <1>4, SomePackets DEF pool
      <3> QED
        BY <1>1, <1>2, <1>4, <2>1, <2>2, <2>3, <3>1, <3>2, <3>3, <3>4, PacketsKept
           DEF pool
    <2>6. UNCHANGED <<memory, txPaused, sem, events, crowded>>
      BY <1>2, <1>4 DEF pool
    <2>7. poolPaused' = poolPaused \/ (j.at = "update" /\ j.source = "PKTMEM")
      BY <1>1, <1>2, <1>4 DEF pool, Proper
    <2>8. job[LOOP].at \notin {"update", "tell", "wait"} /\ j.at \notin {"tell", "wait"}
      BY <1>1, <1>4, <2>4 DEF Proper, AppJob, DrvJob, LoopJob, Task
    <2> QED
      BY <1>1, <2>1, <2>2, <2>3, <2>4, <2>5, <2>6, <2>7, <2>8, StepKept
  <1>5. CASE /\ job' = [job EXCEPT ![LOOP].at = "alloc", ![LOOP].next = "ready"]
             /\ pauses' \in 0 .. MaxPauses
    <2> DEFINE j == [at |-> "alloc", next |-> "ready", packet |-> job[LOOP].packet,
                     source |-> job[LOOP].source, value |-> job[LOOP].value]
    <2>1. j \in Job
      BY <1>1, <1>5, Fields DEF Job, Place, Source
    <2>2. Moved(LOOP, j)
      BY <1>1, <1>2, <1>5, CallRecords DEF Moved, Types, Returned, Handler
    <2>3. Types'
      BY <1>1, <1>2, <1>5, <2>1, <2>2, JobsType DEF Types, pool, queues, events,
         MaxPauses, At
    <2>4. Proper(LOOP, j)
      BY <1>1, <1>5, FlowControlAssumption DEF Proper, AppJob, DrvJob, LoopJob, Task
    <2>5. Conserved' /\ Reason'
      <3>1. txq' + statusq' + drvq'
              = txq + statusq + drvq + One(job[LOOP].packet) - One(j.packet)
        BY <1>1, <1>2, <1>5, <2>3 DEF Types, queues, One
      <3>2. allocated' = allocated + One(j.at = "undo") - One(At(LOOP, "undo"))
        BY <1>1, <1>2, <1>5, <2>4 DEF Types, One, At, Proper, AppJob, DrvJob, LoopJob,
           Task, pool
      <3>3. poolPaused' => poolPaused \/ Packets > 0
        BY <1>1, <1>2, <1>5, PacketsType, SomePackets DEF pool, Proper
      <3>4. job[LOOP].at \in {"freed", "resuming"} =>
               \/ j.at \in {"freed", "resuming"} \/ ~poolPaused' \/ Packets > 0
        BY <1>1, <1>2, <1>5, SomePackets DEF pool
      <3> QED
        BY <1>1, <1>2, <1>5, <2>1, <2>2, <2>3, <3>1, <3>2, <3>3, <3>4, PacketsKept
           DEF pool
    <2>6. UNCHANGED <<memory, txPaused, sem, events, crowded>>
      BY <1>2, <1>5 DEF pool
    <2>7. poolPaused' = poolPaused \/ (j.at = "update" /\ j.source = "PKTMEM")
      BY <1>1, <1>2, <1>5 DEF pool, Proper
    <2>8. job[LOOP].at \notin {"update", "tell", "wait"} /\ j.at \notin {"tell", "wait"}
      BY <1>1, <1>5, <2>4 DEF Proper, AppJob, DrvJob, LoopJob, Task
    <2> QED
      BY <1>1, <2>1, <2>2, <2>3, <2>4, <2>5, <2>6, <2>7, <2>8, StepKept
  <1>6. pauses' \in 0 .. MaxPauses
    <2>1. pauses' = pauses \/ (pauses < MaxPauses /\ pauses' = pauses + 1)
      BY DEF LoopEvent
    <2> QED
      BY <1>1, <2>1, FlowControlAssumption DEF MaxPauses, Types
  <1> QED
    BY <1>3, <1>4, <1>5, <1>6 DEF LoopEvent

LEMMA LoopSleepsKeeps ==
    ASSUME IInv, LoopSleeps
    PROVE  IInv'
  <1>1. /\ IInv /\ Types /\ Placed /\ Conserved /\ Reason /\ LOOP \in Task
        /\ Proper(LOOP, job[LOOP]) /\ job[LOOP].at = "events"
        /\ ~job[LOOP].packet
    BY FlowControlAssumption DEF IInv, LoopSleeps, At, Placed, Proper, AppJob, DrvJob,
       LoopJob, Task
  <1>2. UNCHANGED <<pool, txPaused, sem, semb, queues, events, crowded, pauses>>
    BY DEF LoopSleeps
  <1>3. CASE Goto(LOOP, "asleep")
    <2> DEFINE j == [at |-> "asleep", next |-> job[LOOP].next, packet |-> job[LOOP].packet,
                     source |-> job[LOOP].source, value |-> job[LOOP].value]
    <2>1. j \in Job
      BY <1>1, <1>3, Fields DEF Job, Place, Source
    <2>2. Moved(LOOP, j)
      BY <1>1, <1>2, <1>3, Elsewhere DEF Moved, Types, Returned, Handler, Goto
    <2>3. Types'
      BY <1>1, <1>2, <1>3, <2>1, <2>2, JobsType DEF Types, pool, queues, events,
         MaxPauses, At
    <2>4. Proper(LOOP, j)
      BY <1>1, <1>3, FlowControlAssumption DEF Proper, AppJob, DrvJob, LoopJob, Task
    <2>5. Conserved' /\ Reason'
      <3>1. txq' + statusq' + drvq'
              = txq + statusq + drvq + One(job[LOOP].packet) - One(j.packet)
        BY <1>1, <1>2, <1>3, <2>3 DEF Types, queues, One
      <3>2. allocated' = allocated + One(j.at = "undo") - One(At(LOOP, "undo"))
        BY <1>1, <1>2, <1>3, <2>4 DEF Types, One, At, Proper, AppJob, DrvJob, LoopJob,
           Task, pool
      <3>3. poolPaused' => poolPaused \/ Packets > 0
        BY <1>1, <1>2, <1>3, PacketsType, SomePackets DEF pool, Proper
      <3>4. job[LOOP].at \in {"freed", "resuming"} =>
               \/ j.at \in {"freed", "resuming"} \/ ~poolPaused' \/ Packets > 0
        BY <1>1, <1>2, <1>3, SomePackets DEF pool
      <3> QED
        BY <1>1, <1>2, <1>3, <2>1, <2>2, <2>3, <3>1, <3>2, <3>3, <3>4, PacketsKept
           DEF pool
    <2>6. UNCHANGED <<memory, txPaused, sem, events, crowded>>
      BY <1>2, <1>3 DEF pool
    <2>7. poolPaused' = poolPaused \/ (j.at = "update" /\ j.source = "PKTMEM")
      BY <1>1, <1>2, <1>3 DEF pool, Proper
    <2>8. job[LOOP].at \notin {"update", "tell", "wait"} /\ j.at \notin {"tell", "wait"}
      BY <1>1, <1>3, <2>4 DEF Proper, AppJob, DrvJob, LoopJob, Task
    <2> QED
      BY <1>1, <2>1, <2>2, <2>3, <2>4, <2>5, <2>6, <2>7, <2>8, StepKept
  <1> QED
    BY <1>3 DEF LoopSleeps

LEMMA MgmtReadyKeeps ==
    ASSUME IInv, MgmtReady
    PROVE  IInv'
  <1>1. /\ IInv /\ Types /\ Placed /\ Conserved /\ Reason /\ LOOP \in Task
        /\ Proper(LOOP, job[LOOP]) /\ job[LOOP].at = "ready"
    BY FlowControlAssumption DEF IInv, MgmtReady, At, Placed, Proper, AppJob, DrvJob,
       LoopJob, Task
  <1>2. UNCHANGED <<txPaused, sem, semb, txq, statusq, events, crowded>>
    BY DEF MgmtReady
  <1>3. CASE /\ drvq' = IF job[LOOP].packet THEN drvq + 1 ELSE drvq
             /\ job' = [job EXCEPT ![LOOP].at = "events", ![LOOP].packet = FALSE]
             /\ UNCHANGED <<pool, pauses>>
    <2> DEFINE j == [at |-> "events", next |-> job[LOOP].next, packet |-> FALSE,
                     source |-> job[LOOP].source, value |-> job[LOOP].value]
    <2>1. j \in Job
      BY <1>1, <1>3, Fields DEF Job, Place, Source
    <2>2. Moved(LOOP, j)
      BY <1>1, <1>2, <1>3, WithPacket DEF Moved, Types, Returned, Handler
    <2>3. Types'
      BY <1>1, <1>2, <1>3, <2>1, <2>2, JobsType DEF Types, pool, queues, events,
         MaxPauses, At
    <2>4. Proper(LOOP, j)
      BY <1>1, <1>3, FlowControlAssumption DEF Proper, AppJob, DrvJob, LoopJob, Task
    <2>5. Conserved' /\ Reason'
      <3>1. txq' + statusq' + drvq'
              = txq + statusq + drvq + One(job[LOOP].packet) - One(j.packet)
        BY <1>1, <1>2, <1>3, <2>3 DEF Types, queues, One
      <3>2. allocated' = allocated + One(j.at = "undo") - One(At(LOOP, "undo"))
        BY <1>1, <1>2, <1>3, <2>4 DEF Types, One, At, Proper, AppJob, DrvJob, LoopJob,
           Task, pool
      <3>3. poolPaused' => poolPaused \/ Packets > 0
        BY <1>1, <1>2, <1>3, PacketsType, SomePackets DEF pool, Proper
      <3>4. job[LOOP].at \in {"freed", "resuming"} =>
               \/ j.at \in {"freed", "resuming"} \/ ~poolPaused' \/ Packets > 0
        BY <1>1, <1>2, <1>3, SomePackets DEF pool
      <3> QED
        BY <1>1, <1>2, <1>3, <2>1, <2>2, <2>3, <3>1, <3>2, <3>3, <3>4, PacketsKept
           DEF pool
    <2>6. UNCHANGED <<memory, txPaused, sem, events, crowded>>
      BY <1>2, <1>3 DEF pool
    <2>7. poolPaused' = poolPaused \/ (j.at = "update" /\ j.source = "PKTMEM")
      BY <1>1, <1>2, <1>3 DEF pool, Proper
    <2>8. job[LOOP].at \notin {"update", "tell", "wait"} /\ j.at \notin {"tell", "wait"}
      BY <1>1, <1>3, <2>4 DEF Proper, AppJob, DrvJob, LoopJob, Task
    <2> QED
      BY <1>1, <2>1, <2>2, <2>3, <2>4, <2>5, <2>6, <2>7, <2>8, StepKept
  <1>4. CASE job[LOOP].packet /\ Drop(LOOP, "events") /\ UNCHANGED drvq
    <2>1. pauses' \in 0 .. MaxPauses
      BY <1>1, <1>4, Budgeted DEF Drop
    <2>2. "events" \in Place /\ One(job[LOOP].packet) = 1
      BY <1>4 DEF Place, One
    <2>3. {txq, statusq, drvq} \subseteq Nat
      BY <1>1 DEF Types
    <2> QED
      BY <1>1, <1>2, <1>4, <2>1, <2>2, <2>3, FreeKeeps DEF Drop, At
  <1> QED
    BY <1>3, <1>4 DEF MgmtReady

LEMMA BeaconKeeps ==
    ASSUME IInv, Beacon
    PROVE  IInv'
  <1>1. /\ IInv /\ Types /\ Placed /\ Conserved /\ Reason /\ LOOP \in Task
        /\ Proper(LOOP, job[LOOP]) /\ job[LOOP].at = "asleep"
        /\ ~job[LOOP].packet
    BY FlowControlAssumption DEF IInv, Beacon, At, Placed, Proper, AppJob, DrvJob,
       LoopJob, Task
  <1>2. UNCHANGED <<pool, txPaused, sem, queues, events, job, pauses, crowded>>
    BY DEF Beacon
  <1>3. CASE semb' = TRUE /\ semb' \in BOOLEAN
    <2> DEFINE j == [at |-> job[LOOP].at, next |-> job[LOOP].next, packet |-> job[LOOP].packet,
                     source |-> job[LOOP].source, value |-> job[LOOP].value]
    <2>1. j \in Job
      BY <1>1, <1>3, Fields DEF Job, Place, Source
    <2>2. Moved(LOOP, j)
      BY <1>1, <1>2, <1>3, Stays, Fields DEF Moved, Types, Returned, Handler
    <2>3. Types'
      BY <1>1, <1>2, <1>3, <2>1, <2>2, JobsType DEF Types, pool, queues, events,
         MaxPauses, At
    <2>4. Proper(LOOP, j)
      BY <1>1, <1>3, FlowControlAssumption DEF Proper, AppJob, DrvJob, LoopJob, Task
    <2>5. Conserved' /\ Reason'
      <3>1. txq' + statusq' + drvq'
              = txq + statusq + drvq + One(job[LOOP].packet) - One(j.packet)
        BY <1>1, <1>2, <1>3, <2>3 DEF Types, queues, One
      <3>2. allocated' = allocated + One(j.at = "undo") - One(At(LOOP, "undo"))
        BY <1>1, <1>2, <1>3, <2>4 DEF Types, One, At, Proper, AppJob, DrvJob, LoopJob,
           Task, pool
      <3>3. poolPaused' => poolPaused \/ Packets > 0
        BY <1>1, <1>2, <1>3, PacketsType, SomePackets DEF pool, Proper
      <3>4. job[LOOP].at \in {"freed", "resuming"} =>
               \/ j.at \in {"freed", "resuming"} \/ ~poolPaused' \/ Packets > 0
        BY <1>1, <1>2, <1>3, SomePackets DEF pool
      <3> QED
        BY <1>1, <1>2, <1>3, <2>1, <2>2, <2>3, <3>1, <3>2, <3>3, <3>4, PacketsKept
           DEF pool
    <2>6. UNCHANGED <<memory, txPaused, sem, events, crowded>>
      BY <1>2, <1>3 DEF pool
    <2>7. poolPaused' = poolPaused \/ (j.at = "update" /\ j.source = "PKTMEM")
      BY <1>1, <1>2, <1>3 DEF pool, Proper
    <2>8. job[LOOP].at \notin {"update", "tell", "wait"} /\ j.at \notin {"tell", "wait"}
      BY <1>1, <1>3, <2>4 DEF Proper, AppJob, DrvJob, LoopJob, Task
    <2> QED
      BY <1>1, <2>1, <2>2, <2>3, <2>4, <2>5, <2>6, <2>7, <2>8, StepKept
  <1> QED
    BY <1>3 DEF Beacon

LEMMA LoopCallsKeeps ==
    ASSUME IInv, LoopCalls
    PROVE  IInv'
  <1>1. /\ Types /\ Placed /\ Conserved /\ Reason /\ LOOP \in Task
        /\ Proper(LOOP, job[LOOP]) /\ job[LOOP].at = "events"
    BY DEF IInv, LoopCalls, At, Placed, Task
  <1>2. UNCHANGED <<pool, txPaused, sem, semb, queues, job, pauses, crowded>>
    BY DEF LoopCalls
  <1>3. /\ calls' = calls - 1 /\ calls > 0
        /\ told' = IF txPaused = {} THEN "READY" ELSE "PAUSED"
    BY DEF LoopCalls
  <1>4. Types'
    <2>1. calls' \in 0 .. EvtRoom
      BY <1>1, <1>3, FlowControlAssumption DEF Types
    <2> QED
      BY <1>1, <1>2, <1>3, <2>1 DEF Types, pool, queues, State, MaxPauses
  <1>5. Placed' /\ Conserved' /\ Reason' /\ MaskFollowsPool' /\ Crowding' /\ Woken'
    <2>1. /\ Holding' = Holding /\ Undoing' = Undoing
      BY <1>2 DEF Holding, Undoing, At
    <2>2. Packets' = Packets /\ Blocks' = Blocks
      BY <1>2, <2>1 DEF Packets, Blocks, pool, queues
    <2>3. Conserved' /\ Reason'
      BY <1>1, <1>2, <2>1, <2>2 DEF Conserved, Reason, pool
    <2>4. Placed'
      BY <1>1, <1>2 DEF Placed, Proper, pool
    <2>5. MaskFollowsPool' /\ Crowding' /\ Woken'
      BY <1>2 DEF IInv, MaskFollowsPool, Crowding, Woken, At, pool
    <2> QED
      BY <2>3, <2>4, <2>5
  <1>6. Told'
    BY <1>1, <1>2, <1>3 DEF Told, At
  <1> QED
    BY <1>4, <1>5, <1>6 DEF IInv

-----------------------------------------------------------------------------
(* umac_datapath_update_tx_paused                                          *)

\* A task that has updated the mask returns, or tells what it has found.
LEMMA UpdateRecord ==
    ASSUME NEW k \in Job, NEW v
    PROVE  [k EXCEPT !.at = "tell", !.value = v]
             = [at |-> "tell", next |-> k.next, packet |-> k.packet,
                source |-> k.source, value |-> v]
  <1> DEFINE K(w) == [at |-> "tell", next |-> k.next, packet |-> k.packet,
                      source |-> k.source, value |-> w]
  <1>1. [k EXCEPT !.at = "tell"] = K(k.value)
    BY DEF Job
  <1>2. [K(k.value) EXCEPT !.value = v] = K(v)
    OBVIOUS
  <1> QED
    BY <1>1, <1>2, Zenon

Asked(t) == IF job[t].source = "PKTMEM" THEN poolPaused ELSE job[t].value

NewMask(t) ==
    IF Asked(t) THEN txPaused \cup {job[t].source} ELSE txPaused \ {job[t].source}

LEMMA UpdateMoves ==
    ASSUME Types, NEW t \in Task, Update(t)
    PROVE  \E j \in Job :
              /\ Moved(t, j) /\ j.packet = job[t].packet
              /\ \/ /\ (txPaused = {}) = (NewMask(t) = {})
                    /\ j.at = job[t].next /\ j.next = "idle" /\ j.source = "PKTMEM"
                 \/ /\ (txPaused = {}) # (NewMask(t) = {})
                    /\ j.at = "tell" /\ j.next = job[t].next
                    /\ j.source = job[t].source /\ j.value = Asked(t)
  <1> DEFINE k == [at |-> "tell", next |-> job[t].next, packet |-> job[t].packet,
                   source |-> job[t].source, value |-> Asked(t)]
             r == [at |-> job[t].next, next |-> "idle", packet |-> job[t].packet,
                   source |-> "PKTMEM", value |-> FALSE]
  <1>1. job[t] \in Job /\ Asked(t) \in BOOLEAN
    BY Fields DEF Asked, Types
  <1>2. k \in Job /\ r \in Job
    BY <1>1 DEF Job, Place, Source
  <1>3. job' = [job EXCEPT ![t] =
                IF ~((txPaused = {}) # (NewMask(t) = {})) THEN Returned(job[t])
                ELSE [job[t] EXCEPT !.at = "tell", !.value = Asked(t)]]
    BY Zenon DEF Update, Asked, NewMask
  <1>4. [job[t] EXCEPT !.at = "tell", !.value = Asked(t)] = k
    BY <1>1, UpdateRecord, Zenon
  <1>5. Returned(job[t]) = r
    BY DEF Returned
  <1>6. CASE (txPaused = {}) # (NewMask(t) = {})
    <2>1. job' = [job EXCEPT ![t] = [job[t] EXCEPT !.at = "tell", !.value = Asked(t)]]
      BY <1>3, <1>6, Zenon
    <2>2. Moved(t, k)
      BY <1>4, <2>1, Zenon DEF Moved
    <2> QED
      BY <1>2, <1>6, <2>2
  <1>7. CASE (txPaused = {}) = (NewMask(t) = {})
    <2>1. job' = [job EXCEPT ![t] = Returned(job[t])]
      BY <1>3, <1>7, Zenon
    <2>2. Moved(t, r)
      BY <1>5, <2>1, Zenon DEF Moved
    <2> QED
      BY <1>2, <1>7, <2>2
  <1> QED
    BY <1>6, <1>7

LEMMA UpdateKeeps ==
    ASSUME IInv, NEW t \in Task, Update(t)
    PROVE  IInv'
  <1>1. /\ Types /\ Placed /\ Conserved /\ Reason /\ MaskFollowsPool
        /\ Crowding /\ Woken /\ Told
        /\ Proper(t, job[t]) /\ job[t].at = "update"
    BY DEF IInv, Update, At, Placed
  <1>2. /\ UNCHANGED <<pool, sem, semb, queues, events, pauses, crowded>>
        /\ txPaused' = NewMask(t)
    BY DEF Update, NewMask, Asked
  <1>3. PICK j \in Job :
              /\ Moved(t, j) /\ j.packet = job[t].packet
              /\ \/ /\ (txPaused = {}) = (NewMask(t) = {})
                    /\ j.at = job[t].next /\ j.next = "idle" /\ j.source = "PKTMEM"
                 \/ /\ (txPaused = {}) # (NewMask(t) = {})
                    /\ j.at = "tell" /\ j.next = job[t].next
                    /\ j.source = job[t].source /\ j.value = Asked(t)
    BY <1>1, UpdateMoves
  <1>4. Types'
    <2>1. NewMask(t) \subseteq Source
      BY <1>1, Fields DEF NewMask, Types
    <2>2. job' \in [Task -> Job]
      BY <1>1, <1>3, JobsType
    <2> QED
      BY <1>1, <1>2, <2>1, <2>2 DEF Types, pool, queues, events, MaxPauses
  <1>5. Proper(t, j)
    BY <1>1, <1>3, FlowControlAssumption DEF Proper, AppJob, DrvJob, LoopJob, Task
  <1>6. Placed'
    BY <1>1, <1>2, <1>3, <1>5, PlacedKept DEF pool
  <1>7. Conserved' /\ Reason'
    <2>1. txq' + statusq' + drvq'
              = txq + statusq + drvq + One(job[t].packet) - One(j.packet)
      BY <1>1, <1>2, <1>3, <1>4 DEF Types, queues, One
    <2>2. allocated' = allocated + One(j.at = "undo") - One(At(t, "undo"))
      BY <1>1, <1>2, <1>3, <1>5 DEF Types, One, At, Proper, AppJob, DrvJob, LoopJob,
         Task, pool
    <2>3. /\ poolPaused' => poolPaused \/ Packets > 0
          /\ job[t].at \notin {"freed", "resuming"}
      BY <1>1, <1>2 DEF pool
    <2> QED
      BY <1>1, <1>2, <1>3, <1>4, <2>1, <2>2, <2>3, PacketsKept DEF pool
  <1>8. /\ job'[t] = j
        /\ \A u \in Task : u # t => job'[u] = job[u]
    BY <1>1, <1>3 DEF Moved, Types
  <1>9. MaskFollowsPool'
    <2>1. CASE job[t].source = "PKTMEM"
      BY <1>1, <1>2, <2>1 DEF MaskFollowsPool, NewMask, Asked, pool
    <2>2. CASE job[t].source # "PKTMEM"
      <3>1. ("PKTMEM" \in txPaused') <=> ("PKTMEM" \in txPaused)
        BY <1>2, <2>2 DEF NewMask
      <3> QED
        BY <1>1, <1>2, <1>8, <2>2, <3>1 DEF MaskFollowsPool, At, pool
    <2> QED
      BY <2>1, <2>2
  <1>10. j.at # "wait" /\ job[t].at # "wait" /\ job[t].at # "tell"
    BY <1>1, <1>5, <1>3, FlowControlAssumption DEF Proper, AppJob, DrvJob, LoopJob, Task
  <1>11. Crowding'
    BY <1>1, <1>2, <1>8, <1>10 DEF Crowding, At
  <1>12. Woken'
    <2> SUFFICES ASSUME NEW a \in App, At(a, "wait")', txPaused' = {}, ~crowded'
                 PROVE  sem' \/ \E u \in Task : At(u, "tell")' /\ ~job'[u].value
      BY DEF Woken
    <2>1. a \in Task /\ At(a, "wait") /\ ~crowded
      BY <1>2, <1>8, <1>10 DEF At, Task
    <2>2. CASE txPaused = {}
      <3>1. sem \/ \E u \in Task : At(u, "tell") /\ ~job[u].value
        BY <1>1, <2>1, <2>2 DEF Woken
      <3> QED
        BY <1>2, <1>8, <1>10, <3>1 DEF At
    <2>3. CASE txPaused # {}
      <3>1. NewMask(t) = {}
        BY <1>2
      <3>2. ~Asked(t)
        BY <3>1 DEF NewMask
      <3>3. j.at = "tell" /\ j.value = Asked(t)
        BY <1>3, <2>3, <3>1
      <3> QED
        BY <1>8, <3>2, <3>3 DEF At
    <2> QED
      BY <2>2, <2>3
  <1>13. Told'
    <2>1. told' = told /\ calls' = calls
      BY <1>2 DEF events
    <2>2. CASE (txPaused = {}) = (NewMask(t) = {})
      <3>1. j.at # "tell"
        BY <1>1, <1>3, <2>2, FlowControlAssumption DEF Proper, AppJob, DrvJob, LoopJob,
           Task
      <3>2. (txPaused' = {}) = (txPaused = {})
        BY <1>2, <2>2
      <3>3. \A u \in Task : (At(u, "tell")' <=> At(u, "tell")) /\ (At(u, "tell") => job'[u] = job[u])
        BY <1>8, <1>10, <3>1 DEF At
      <3>4. LOOP \in Task
        BY DEF Task
      <3> QED
        BY <1>1, <2>1, <3>2, <3>3, <3>4 DEF Told
    <2>3. CASE (txPaused = {}) # (NewMask(t) = {})
      <3>1. j.at = "tell" /\ j.value = Asked(t)
        BY <1>3, <2>3
      <3>2. CASE t # LOOP
        BY <1>8, <3>1, <3>2 DEF Told, At
      <3>3. CASE t = LOOP
        <4>1. Asked(t) \in BOOLEAN
          BY <1>1, Fields DEF Asked, Types
        <4>2. Asked(t) = (NewMask(t) # {})
          BY <2>3, <4>1 DEF NewMask
        <4> QED
          BY <1>2, <1>8, <3>1, <3>3, <4>2 DEF Told, At
      <3> QED
        BY <3>2, <3>3
    <2> QED
      BY <2>2, <2>3
  <1> QED
    BY <1>4, <1>6, <1>7, <1>9, <1>11, <1>12, <1>13 DEF IInv

LEMMA TellKeeps ==
    ASSUME IInv, NEW t \in Task, Tell(t)
    PROVE  IInv'
  <1> DEFINE j == [at |-> job[t].next, next |-> "idle", packet |-> job[t].packet,
                   source |-> "PKTMEM", value |-> FALSE]
  <1>1. /\ Types /\ Placed /\ Conserved /\ Reason /\ MaskFollowsPool
        /\ Crowding /\ Woken /\ Told
        /\ Proper(t, job[t]) /\ job[t].at = "tell" /\ job[t].value \in BOOLEAN
    BY Fields DEF IInv, Tell, At, Placed
  <1>2. /\ UNCHANGED <<pool, txPaused, queues, pauses, crowded>>
        /\ sem' = (sem \/ ~job[t].value)
    BY DEF Tell
  <1>3. Moved(t, j) /\ j.packet = job[t].packet /\ j \in Job
    BY <1>1, Fields DEF Tell, Return, Returned, Moved, Job, Place, Source
  <1>4. Types'
    <2>1. sem' \in BOOLEAN
      BY <1>1, <1>2 DEF Types
    <2>2. job' \in [Task -> Job]
      BY <1>1, <1>3, JobsType
    <2>3. told' \in State /\ calls' \in 0 .. EvtRoom
      BY <1>1, FlowControlAssumption DEF Tell, State, Types
    <2>4. semb' \in BOOLEAN
      <3>1. CASE t = LOOP
        BY <1>1, <3>1 DEF Tell, Types
      <3>2. CASE t # LOOP
        <4>1. semb' = TRUE
          BY <3>2 DEF Tell
        <4> QED
          BY <4>1
      <3> QED
        BY <3>1, <3>2
    <2> QED
      BY <1>1, <1>2, <2>1, <2>2, <2>3, <2>4 DEF Types, pool, queues, MaxPauses
  <1>5. Proper(t, j)
    BY <1>1, FlowControlAssumption DEF Proper, AppJob, DrvJob, LoopJob, Task
  <1>6. Placed'
    BY <1>1, <1>2, <1>3, <1>5, PlacedKept DEF pool
  <1>7. Conserved' /\ Reason'
    <2>1. txq' + statusq' + drvq'
              = txq + statusq + drvq + One(job[t].packet) - One(j.packet)
      BY <1>1, <1>2, <1>3, <1>4 DEF Types, queues, One
    <2>2. allocated' = allocated + One(j.at = "undo") - One(At(t, "undo"))
      BY <1>1, <1>2, <1>3, <1>5 DEF Types, One, At, Proper, AppJob, DrvJob, LoopJob,
         Task, pool
    <2>3. /\ poolPaused' => poolPaused \/ Packets > 0
          /\ job[t].at \notin {"freed", "resuming"}
      BY <1>1, <1>2 DEF pool
    <2> QED
      BY <1>1, <1>2, <1>3, <1>4, <2>1, <2>2, <2>3, PacketsKept DEF pool
  <1>8. /\ job'[t] = j
        /\ \A u \in Task : u # t => job'[u] = job[u]
    BY <1>1, <1>3 DEF Moved, Types
  <1>9. j.at \notin {"wait", "tell", "update"}
    BY <1>1, <1>5, FlowControlAssumption DEF Proper, AppJob, DrvJob, LoopJob, Task
  <1> HIDE DEF j
  <1>10. MaskFollowsPool'
    BY <1>1, <1>2, <1>8 DEF MaskFollowsPool, At, pool
  <1>11. Crowding'
    BY <1>1, <1>2, <1>8, <1>9 DEF Crowding, At
  <1>12. Woken'
    <2> SUFFICES ASSUME NEW a \in App, At(a, "wait")', txPaused' = {}, ~crowded'
                 PROVE  sem' \/ \E u \in Task : At(u, "tell")' /\ ~job'[u].value
      BY DEF Woken
    <2>1. a \in Task /\ At(a, "wait") /\ ~crowded /\ txPaused = {}
      BY <1>2, <1>8, <1>9 DEF At, Task
    <2>2. sem \/ \E u \in Task : At(u, "tell") /\ ~job[u].value
      BY <1>1, <2>1 DEF Woken
    <2> QED
      BY <1>2, <1>8, <2>2 DEF At
  <1>13. Told'
    <2>1. CASE t = LOOP
      <3>1. /\ told' = IF job[t].value THEN "PAUSED" ELSE "READY"
            /\ calls' = calls /\ txPaused' = txPaused
        BY <1>2, <2>1 DEF Tell
      <3>2. ~At(LOOP, "tell")'
        BY <1>8, <1>9, <2>1 DEF At
      <3>3. CASE calls > 0 \/ \E u \in Task \ {LOOP} : At(u, "tell")
        BY <1>8, <2>1, <3>1, <3>3 DEF Told, At
      <3>4. CASE job[LOOP].value = (txPaused # {})
        BY <1>1, <2>1, <3>1, <3>2, <3>4 DEF Told
      <3> QED
        BY <1>1, <2>1, <3>3, <3>4 DEF Told, At
    <2>2. CASE t # LOOP
      <3>1. calls' > 0
        BY <1>1, <2>2, FlowControlAssumption DEF Tell, Types
      <3> QED
        BY <3>1 DEF Told
    <2> QED
      BY <2>1, <2>2
  <1> QED
    BY <1>4, <1>6, <1>7, <1>10, <1>11, <1>12, <1>13 DEF IInv

-----------------------------------------------------------------------------
(* umac_datapath_wait_for_tx_ready_                                        *)

\* Whoever is left waiting was one of a crowd.
LEMMA WaitOver ==
    ASSUME Types, Crowding, NEW t \in Task, NEW j \in Job, Moved(t, j),
           At(t, "wait"), j.at # "wait",
           crowded' = (crowded /\ Waiting \ {t} # {})
    PROVE  Crowding' /\ Woken'
  <1>1. /\ job'[t] = j
        /\ \A u \in Task : u # t => job'[u] = job[u]
    BY DEF Moved, Types
  <1>2. \A u \in Task : At(u, "wait")' => crowded'
    <2> SUFFICES ASSUME NEW u \in Task, At(u, "wait")' PROVE crowded'
      OBVIOUS
    <2>1. u # t /\ At(u, "wait")
      BY <1>1 DEF At
    <2>2. crowded /\ u \in Waiting \ {t}
      BY <2>1 DEF Crowding, Waiting
    <2> QED
      BY <2>2
  <1>3. Crowding'
    BY <1>2 DEF Crowding
  <1>4. Woken'
    BY <1>2 DEF Woken, Task
  <1> QED
    BY <1>3, <1>4

LEMMA WaitBeginKeeps ==
    ASSUME IInv, NEW t \in Task, WaitBegin(t)
    PROVE  IInv'
  <1> DEFINE j == [at |-> "wait", next |-> job[t].next, packet |-> job[t].packet,
                   source |-> job[t].source, value |-> job[t].value]
  <1>1. /\ Types /\ Placed /\ Conserved /\ Reason /\ MaskFollowsPool
        /\ Crowding /\ Woken /\ Told
        /\ Proper(t, job[t]) /\ job[t].at = "ready"
    BY DEF IInv, WaitBegin, At, Placed
  <1>2. UNCHANGED <<pool, txPaused, semb, queues, events, pauses>>
    BY DEF WaitBegin
  <1>3. Moved(t, j) /\ j.packet = job[t].packet /\ j \in Job
    <2>1. Moved(t, j)
      BY <1>1, Elsewhere DEF WaitBegin, Goto, Moved
    <2> QED
      BY <1>1, <2>1, Fields DEF Job, Place, Source
  <1>4. Types'
    <2>1. job' \in [Task -> Job]
      BY <1>1, <1>3, JobsType
    <2>2. sem' \in BOOLEAN
      BY <1>1 DEF WaitBegin, Types
    <2>3. crowded' \in BOOLEAN
      BY DEF WaitBegin
    <2> QED
      BY <1>1, <1>2, <2>1, <2>2, <2>3 DEF Types, pool, queues, events, MaxPauses
  <1>5. Proper(t, j)
    BY <1>1, FlowControlAssumption DEF WaitBegin, Proper, AppJob, DrvJob, LoopJob, Task
  <1>6. Placed'
    BY <1>1, <1>2, <1>3, <1>5, PlacedKept DEF pool
  <1>7. Conserved' /\ Reason'
    <2>1. txq' + statusq' + drvq'
              = txq + statusq + drvq + One(job[t].packet) - One(j.packet)
      BY <1>1, <1>2, <1>3, <1>4 DEF Types, queues, One
    <2>2. allocated' = allocated + One(j.at = "undo") - One(At(t, "undo"))
      BY <1>1, <1>2, <1>3, <1>5 DEF Types, One, At, Proper, AppJob, DrvJob, LoopJob,
         Task, pool
    <2>3. /\ poolPaused' => poolPaused \/ Packets > 0
          /\ job[t].at \notin {"freed", "resuming"}
      BY <1>1, <1>2 DEF pool
    <2> QED
      BY <1>1, <1>2, <1>3, <1>4, <2>1, <2>2, <2>3, PacketsKept DEF pool
  <1>8. MaskFollowsPool' /\ Told'
    <2>1. poolPaused' = poolPaused
      BY <1>2 DEF pool
    <2> QED
      BY <1>1, <1>2, <1>3, <2>1, PathKept
  <1>9. Crowding' /\ Woken'
    <2>1. /\ job'[t] = j
          /\ \A u \in Task : u # t => job'[u] = job[u]
      BY <1>1, <1>3 DEF Moved, Types
    <2>2. \A u \in Task : u # t /\ At(u, "wait")' => crowded'
      <3> SUFFICES ASSUME NEW u \in Task, u # t, At(u, "wait")' PROVE crowded'
        OBVIOUS
      <3>1. u \in Waiting \ {t}
        BY <2>1 DEF At, Waiting
      <3>2. crowded' = (Waiting \ {t} # {})
        BY DEF WaitBegin
      <3> QED
        BY <3>1, <3>2
    <2>3. Crowding'
      BY <2>2 DEF Crowding
    <2>4. t \in App => txPaused # {}
      BY FlowControlAssumption DEF WaitBegin, Blocked
    <2>5. Woken'
      BY <1>2, <2>2, <2>4 DEF Woken, Task
    <2> QED
      BY <2>3, <2>5
  <1> QED
    BY <1>4, <1>6, <1>7, <1>8, <1>9 DEF IInv

LEMMA WaitEndKeeps ==
    ASSUME IInv, NEW t \in Task, WaitEnd(t)
    PROVE  IInv'
  <1> DEFINE j == [at |-> "ready", next |-> job[t].next, packet |-> job[t].packet,
                   source |-> job[t].source, value |-> job[t].value]
  <1>1. /\ Types /\ Placed /\ Conserved /\ Reason /\ MaskFollowsPool
        /\ Crowding /\ Woken /\ Told
        /\ Proper(t, job[t]) /\ job[t].at = "wait"
    BY DEF IInv, WaitEnd, At, Placed
  <1>2. UNCHANGED <<pool, txPaused, semb, queues, events, pauses>>
    BY DEF WaitEnd
  <1>3. Moved(t, j) /\ j.packet = job[t].packet /\ j \in Job
    <2>1. Moved(t, j)
      BY <1>1, Elsewhere DEF WaitEnd, Goto, Moved
    <2> QED
      BY <1>1, <2>1, Fields DEF Job, Place, Source
  <1>4. Types'
    <2>1. job' \in [Task -> Job]
      BY <1>1, <1>3, JobsType
    <2>2. sem' \in BOOLEAN
      BY DEF WaitEnd
    <2>3. crowded' \in BOOLEAN
      BY DEF WaitEnd
    <2> QED
      BY <1>1, <1>2, <2>1, <2>2, <2>3 DEF Types, pool, queues, events, MaxPauses
  <1>5. Proper(t, j)
    BY <1>1, FlowControlAssumption DEF WaitEnd, Proper, AppJob, DrvJob, LoopJob, Task
  <1>6. Placed'
    BY <1>1, <1>2, <1>3, <1>5, PlacedKept DEF pool
  <1>7. Conserved' /\ Reason'
    <2>1. txq' + statusq' + drvq'
              = txq + statusq + drvq + One(job[t].packet) - One(j.packet)
      BY <1>1, <1>2, <1>3, <1>4 DEF Types, queues, One
    <2>2. allocated' = allocated + One(j.at = "undo") - One(At(t, "undo"))
      BY <1>1, <1>2, <1>3, <1>5 DEF Types, One, At, Proper, AppJob, DrvJob, LoopJob,
         Task, pool
    <2>3. /\ poolPaused' => poolPaused \/ Packets > 0
          /\ job[t].at \notin {"freed", "resuming"}
      BY <1>1, <1>2 DEF pool
    <2> QED
      BY <1>1, <1>2, <1>3, <1>4, <2>1, <2>2, <2>3, PacketsKept DEF pool
  <1>8. MaskFollowsPool' /\ Told'
    <2>1. poolPaused' = poolPaused
      BY <1>2 DEF pool
    <2> QED
      BY <1>1, <1>2, <1>3, <2>1, PathKept
  <1>9. Crowding' /\ Woken'
    <2>1. crowded' = (crowded /\ Waiting \ {t} # {})
      BY DEF WaitEnd
    <2> QED
      BY <1>1, <1>3, <2>1, WaitOver DEF At
  <1> QED
    BY <1>4, <1>6, <1>7, <1>8, <1>9 DEF IInv

\* mmwlan_tx returns.
LEMMA WaitReturns ==
    ASSUME IInv, NEW t \in Task, WaitTimeout(t), ~(t = LOOP /\ Blocked(t))
    PROVE  IInv'
  <1> DEFINE j == [at |-> "ready", next |-> job[t].next, packet |-> job[t].packet,
                   source |-> job[t].source, value |-> job[t].value]
  <1>1. /\ Types /\ Placed /\ Conserved /\ Reason /\ MaskFollowsPool
        /\ Crowding /\ Woken /\ Told
        /\ Proper(t, job[t]) /\ job[t].at = "wait"
    BY DEF IInv, WaitTimeout, At, Placed
  <1>2. UNCHANGED <<pool, txPaused, semb, queues, events, pauses>>
    BY DEF WaitTimeout
  <1>3. Moved(t, j) /\ j.packet = job[t].packet /\ j \in Job
    <2>1. Moved(t, j)
      BY <1>1, Elsewhere DEF WaitTimeout, Goto, Moved
    <2> QED
      BY <1>1, <2>1, Fields DEF Job, Place, Source
  <1>4. Types'
    <2>1. job' \in [Task -> Job]
      BY <1>1, <1>3, JobsType
    <2>2. sem' \in BOOLEAN
      BY <1>1 DEF WaitTimeout, Types
    <2>3. crowded' \in BOOLEAN
      BY DEF WaitTimeout
    <2> QED
      BY <1>1, <1>2, <2>1, <2>2, <2>3 DEF Types, pool, queues, events, MaxPauses
  <1>5. Proper(t, j)
    BY <1>1, FlowControlAssumption DEF WaitTimeout, Proper, AppJob, DrvJob, LoopJob,
       Task
  <1>6. Placed'
    BY <1>1, <1>2, <1>3, <1>5, PlacedKept DEF pool
  <1>7. Conserved' /\ Reason'
    <2>1. txq' + statusq' + drvq'
              = txq + statusq + drvq + One(job[t].packet) - One(j.packet)
      BY <1>1, <1>2, <1>3, <1>4 DEF Types, queues, One
    <2>2. allocated' = allocated + One(j.at = "undo") - One(At(t, "undo"))
      BY <1>1, <1>2, <1>3, <1>5 DEF Types, One, At, Proper, AppJob, DrvJob, LoopJob,
         Task, pool
    <2>3. /\ poolPaused' => poolPaused \/ Packets > 0
          /\ job[t].at \notin {"freed", "resuming"}
      BY <1>1, <1>2 DEF pool
    <2> QED
      BY <1>1, <1>2, <1>3, <1>4, <2>1, <2>2, <2>3, PacketsKept DEF pool
  <1>8. MaskFollowsPool' /\ Told'
    <2>1. poolPaused' = poolPaused
      BY <1>2 DEF pool
    <2> QED
      BY <1>1, <1>2, <1>3, <2>1, PathKept
  <1>9. Crowding' /\ Woken'
    <2>1. crowded' = (crowded /\ Waiting \ {t} # {})
      BY DEF WaitTimeout
    <2> QED
      BY <1>1, <1>3, <2>1, WaitOver DEF At
  <1> QED
    BY <1>4, <1>6, <1>7, <1>8, <1>9 DEF IInv

\* A management frame is released.
LEMMA WaitReleases ==
    ASSUME IInv, NEW t \in Task, WaitTimeout(t), t = LOOP /\ Blocked(t)
    PROVE  IInv'
  <1>1. /\ Types /\ Placed /\ Conserved /\ Reason /\ MaskFollowsPool
        /\ Crowding /\ Woken /\ Told
        /\ Proper(t, job[t]) /\ job[t].at = "wait"
        /\ job[t].packet /\ job[t].source = "PKTMEM"
    BY FlowControlAssumption DEF IInv, WaitTimeout, At, Placed, Proper, LoopJob
  <1>2. /\ UNCHANGED <<txPaused, sem, semb, queues, events, pauses>>
        /\ Free(t, "events")
        /\ crowded' = (crowded /\ Waiting \ {t} # {})
    BY DEF WaitTimeout
  <1>3. PICK j \in Job :
              /\ Moved(t, j)
              /\ ~j.packet /\ j.source = "PKTMEM"
              /\ \/ j.at \in {"freed", "update"} /\ j.next = "events"
                 \/ j.at = "events" /\ j.next = "idle"
              /\ poolPaused' = poolPaused \/ j.at = "update"
              /\ poolPaused' => j.at = "freed" \/ Packets > 1
              /\ poolPaused' \in BOOLEAN
              /\ allocated' = allocated - 1 /\ memory' = memory
    <2>1. "events" \in Place
      BY DEF Place
    <2> QED
      BY <1>1, <1>2, <2>1, FreeMoves
  <1>4. Types'
    <2>1. allocated' \in Nat
      <3>1. /\ Packets \in Nat /\ Packets > 0 /\ Cardinality(Undoing) \in Nat
            /\ allocated = Packets + Cardinality(Undoing)
        BY <1>1, PacketsType DEF Conserved
      <3> QED
        BY <1>3, <3>1
    <2>2. job' \in [Task -> Job]
      BY <1>1, <1>3, JobsType
    <2>3. crowded' \in BOOLEAN
      BY <1>2
    <2> QED
      BY <1>1, <1>2, <1>3, <2>1, <2>2, <2>3 DEF Types, queues, events, MaxPauses
  <1>5. Proper(t, j)
    BY <1>1, <1>3, FlowControlAssumption DEF Proper, LoopJob
  <1>6. Placed'
    BY <1>1, <1>3, <1>5, PlacedKept
  <1>7. Conserved' /\ Reason'
    <2>1. {txq, statusq, drvq} \subseteq Nat /\ One(job[t].packet) = 1
      BY <1>1 DEF Types, One
    <2>2. txq' = txq /\ statusq' = statusq /\ drvq' = drvq
      BY <1>2 DEF queues
    <2>3. txq + statusq + drvq + One(job[t].packet) = txq' + statusq' + drvq' + 1
      BY <2>1, <2>2
    <2>4. ~At(t, "undo") /\ j.at # "undo"
      BY <1>1, <1>3 DEF At
    <2> QED
      BY <1>1, <1>3, <1>4, <2>3, <2>4, PacketFreed
  <1>8. MaskFollowsPool' /\ Told'
    <2>1. poolPaused' = poolPaused \/ (j.at = "update" /\ j.source = "PKTMEM")
      BY <1>3
    <2>2. j.at # "tell" /\ job[t].at \notin {"update", "tell"}
      BY <1>1, <1>3
    <2> QED
      BY <1>1, <1>2, <1>3, <2>1, <2>2, PathKept
  <1>9. Crowding' /\ Woken'
    <2>1. j.at # "wait"
      BY <1>3
    <2> QED
      BY <1>1, <1>2, <1>3, <2>1, WaitOver DEF At
  <1> QED
    BY <1>4, <1>6, <1>7, <1>8, <1>9 DEF IInv

-----------------------------------------------------------------------------
(* The theorems                                                            *)

LEMMA InitHolds ==
    ASSUME Init
    PROVE  IInv
  <1>1. /\ \A t \in Task : /\ job[t].next = "idle" /\ ~job[t].packet
                           /\ job[t].source = "PKTMEM" /\ job[t].value = FALSE
                           /\ job[t].at = IF t = LOOP THEN "asleep"
                                          ELSE IF t = DRV THEN "idle" ELSE "ready"
        /\ job \in [Task -> Job]
    BY DEF Init, Job, Place, Source
  <1>2. /\ allocated = 0 /\ poolPaused = FALSE /\ txPaused = {}
        /\ txq = 0 /\ statusq = 0 /\ drvq = 0 /\ calls = 0 /\ told = "READY"
        /\ pauses = 0 /\ memory \in {"heap", "static"}
    BY DEF Init
  <1>3. Types
    <2>1. poolPaused \in BOOLEAN /\ sem \in BOOLEAN /\ semb \in BOOLEAN
          /\ crowded \in BOOLEAN
      BY DEF Init
    <2>2. MaxPauses \in Nat
      BY <1>2, FlowControlAssumption DEF MaxPauses
    <2> QED
      BY <1>1, <1>2, <2>1, <2>2, FlowControlAssumption DEF Types, State
  <1>4. Placed
    BY <1>1, FlowControlAssumption DEF Placed, Proper, AppJob, DrvJob, LoopJob
  <1>5. Conserved /\ Reason
    <2>1. Holding = {} /\ Undoing = {}
      BY <1>1 DEF Holding, Undoing, At
    <2>2. Cardinality(Holding) = 0 /\ Cardinality(Undoing) = 0
      BY <2>1, FS_EmptySet
    <2>3. Blocks \in Nat
      BY <1>2, FlowControlAssumption DEF Blocks
    <2> QED
      BY <1>2, <2>2, <2>3 DEF Conserved, Reason, Packets
  <1>6. MaskFollowsPool
    BY <1>2 DEF MaskFollowsPool
  <1>7. Crowding /\ Woken
    <2>1. \A t \in Task : ~At(t, "wait")
      BY <1>1 DEF At
    <2> QED
      BY <2>1 DEF Crowding, Woken, Task
  <1>8. Told
    <2>1. ~At(LOOP, "tell")
      BY <1>1 DEF At, Task
    <2> QED
      BY <1>2, <2>1 DEF Told
  <1> QED
    BY <1>3, <1>4, <1>5, <1>6, <1>7, <1>8 DEF IInv

LEMMA CallKeeps ==
    ASSUME IInv, NEW t \in Task, Call(t)
    PROVE  IInv'
  BY AllocKeeps, AllocUndoKeeps, AllocExamineKeeps, AllocPauseKeeps,
     FreeExamineKeeps, FreeResumeKeeps, UpdateKeeps, TellKeeps, WaitBeginKeeps,
     WaitEndKeeps DEF Call

LEMMA NextKeeps ==
    ASSUME IInv, [Next]_vars
    PROVE  IInv'
  <1>1. LOOP \in Task /\ DRV \in Task /\ App \subseteq Task
    BY DEF Task
  <1>2. CASE \E a \in App : AppStep(a)
    BY <1>1, <1>2, CallKeeps, AppReadyKeeps, AppQueuesKeeps DEF AppStep
  <1>3. CASE DrvStep \/ TrafficPause \/ TrafficResume
    BY <1>1, <1>3, CallKeeps, DrvReportsKeeps, TrafficPauseKeeps, TrafficResumeKeeps
       DEF DrvStep
  <1>4. CASE LoopStep
    BY <1>1, <1>4, CallKeeps, LoopWakesKeeps, LoopStatusKeeps, LoopTxKeeps,
       LoopCallsKeeps, LoopSleepsKeeps, MgmtReadyKeeps DEF LoopStep
  <1>5. CASE \/ \E e \in {"scan", "scanEnd", "mgmt"} : LoopEvent(e)
             \/ Beacon
    BY <1>5, LoopEventKeeps, BeaconKeeps
  <1>6. CASE \E t \in Task : WaitTimeout(t)
    BY <1>6, WaitReturns, WaitReleases
  <1>7. CASE UNCHANGED vars
    <2>1. UNCHANGED <<memory, allocated, poolPaused, txPaused, sem, semb, txq,
                      statusq, drvq, calls, told, job, pauses, crowded>>
      BY <1>7 DEF vars, pool, queues, events
    <2>2. Holding' = Holding /\ Undoing' = Undoing
      BY <2>1 DEF Holding, Undoing, At
    <2>3. Packets' = Packets /\ Blocks' = Blocks
      BY <2>1, <2>2 DEF Packets, Blocks
    <2>4. Conserved' /\ Reason'
      BY <2>1, <2>2, <2>3 DEF IInv, Conserved, Reason
    <2>5. Types' /\ Placed'
      BY <2>1 DEF IInv, Types, Placed, Proper, MaxPauses
    <2>6. MaskFollowsPool' /\ Crowding' /\ Woken' /\ Told'
      BY <2>1 DEF IInv, MaskFollowsPool, Crowding, Woken, Told, At
    <2> QED
      BY <2>4, <2>5, <2>6 DEF IInv
  <1> QED
    BY <1>2, <1>3, <1>4, <1>5, <1>6, <1>7 DEF Next

LEMMA Invariant ==
    Spec => []IInv
  <1>1. Init => IInv
    BY InitHolds
  <1>2. IInv /\ [Next]_vars => IInv'
    BY NextKeeps
  <1> QED
    BY <1>1, <1>2, PTL DEF Spec

LEMMA PacketsFollow ==
    ASSUME IInv
    PROVE  PacketsSound
  <1>1. Types /\ Placed /\ Conserved /\ Reason
    BY DEF IInv
  <1>2. /\ Packets \in Nat /\ Cardinality(Undoing) \in Nat
        /\ Cardinality(Holding) \in Nat
    BY <1>1, PacketsType
  <1>3. Cardinality(Undoing) <= Cardinality(Task) /\ Cardinality(Task) \in Nat
    <2>1. Undoing \in SUBSET Task
      BY DEF Undoing
    <2> QED
      BY <2>1, TaskFinite, FS_Subset, FS_CardinalityType
  <1>4. Blocks \in Nat
    BY <1>1, FlowControlAssumption DEF Blocks, Types
  <1>5. TypeOK
    <2>1. allocated \in 0 .. Blocks + Cardinality(Task)
      BY <1>1, <1>2, <1>3, <1>4 DEF Conserved
    <2>2. txq \in 0 .. Blocks /\ statusq \in 0 .. Blocks /\ drvq \in 0 .. Blocks
      BY <1>1, <1>2, <1>4 DEF Conserved, Packets, Types
    <2> QED
      BY <1>1, <2>1, <2>2 DEF TypeOK, Types
  <1>6. PacketsConserved
    BY <1>1 DEF PacketsConserved, Conserved, Packets, Holding, Undoing
  <1>7. PausedForReason
    BY <1>1, <1>2 DEF PausedForReason, Reason, Conserved, Undoing
  <1> QED
    BY <1>5, <1>6, <1>7 DEF PacketsSound

\* No packet leaks or is freed twice, the counter of a lock-free heap exceeds the
\* pool by no more than the attempts that are being taken back, and the path is
\* never paused for want of packets without one to come (mmpktmem_heap.c,
\* mmpktmem_static.c): for any number of tasks and blocks.
THEOREM PacketsSoundness ==
    Spec => []PacketsSound
  <1>1. IInv => PacketsSound
    BY PacketsFollow
  <1> QED
    BY <1>1, Invariant, PTL

\* The mask of the data path agrees with the packet memory, or a task is on its
\* way to make it agree (umac_datapath_update_tx_paused).
THEOREM MaskFollows ==
    Spec => []MaskFollowsPool
  <1>1. IInv => MaskFollowsPool
    BY DEF IInv
  <1> QED
    BY <1>1, Invariant, PTL

\* An application that waits alone is woken when the path is ready
\* (umac_datapath_wait_for_tx_ready_).
THEOREM LoneWaiterWoken ==
    Spec => []WaiterWoken
  <1>1. IInv => WaiterWoken
    BY DEF IInv, Woken, WaiterWoken
  <1> QED
    BY <1>1, Invariant, PTL

\* With no call of it outstanding, the flow control callback was last told the
\* state of the path (umac_datapath_invoke_tx_fc_callback_handler).
THEOREM CallbackTold ==
    Spec => []ToldTheState
  <1>1. IInv => ToldTheState
    <2> SUFFICES ASSUME IInv PROVE ToldTheState
      OBVIOUS
    <2>1. LOOP \in Task
      BY DEF Task
    <2> QED
      BY <2>1 DEF IInv, Told, ToldTheState
  <1> QED
    BY <1>1, Invariant, PTL
=============================================================================
