----------------------------- MODULE UserProofs -----------------------------
(***************************************************************************)
(* Every step of UserThreads keeps UserInv, and the properties of user     *)
(* threads follow from it: for any programs, and pools of any size.        *)
(***************************************************************************)
EXTENDS UserMemory, RingProofs, FiniteSetTheorems

\* What the invariant says of the parts of a thread.
LEMMA ThreadFacts ==
    ASSUME UserInv
    PROVE  /\ mem \in MemType /\ PagingOK(mem) /\ Alive \subseteq Blocks
           /\ Alive \subseteq mem.heap \ stranded
           /\ \A x \in Range(ring) : x = Boot \/ x \in Alive
           /\ ring \in Seq(Blocks \cup {Boot}) /\ Len(ring) > 0
           /\ Null \notin Blocks /\ Boot \notin Blocks /\ Boot # Null
<1>1. mem \in MemType /\ PagingOK(mem)
  BY Zenon DEF UserInv, TypeOK, MemType
<1>2. ring \in Seq(Blocks \cup {Boot}) /\ ring # <<>> /\ zombie \in Blocks \cup {Null}
  BY Zenon DEF UserInv, TypeOK
<1>3. Len(ring) > 0
  BY <1>2
<1>4. Range(ring) \subseteq Blocks \cup {Boot}
  BY <1>2 DEF Range
<1>5. Null \notin Blocks /\ Boot \notin Blocks /\ Boot # Null
  BY LimitsAssumption DEF Blocks, Null, Boot
<1>6. Alive \subseteq Blocks /\ \A x \in Range(ring) : x = Boot \/ x \in Alive
  BY <1>2, <1>4, <1>5, Zenon DEF Alive
<1>7. Alive \subseteq mem.heap \ stranded
  BY Zenon DEF UserInv, BlocksOK
<1> QED
  BY <1>1, <1>2, <1>3, <1>5, <1>6, <1>7, Zenon

\* A step that frees the zombie, if there is one, and takes it from the list of
\* threads.
LEMMA ReapInv ==
    ASSUME UserInv, Reap, UNCHANGED <<tcb, program, loaded, stranded>>,
           Alive' = Alive \ {zombie}, RingOK', halted' \in BOOLEAN, booted' \in BOOLEAN,
           ring' \in Seq(Blocks \cup {Boot}), ring' # <<>>, zombie' \in Blocks \cup {Null}
    PROVE  UserInv'
<1>0. mem \in MemType /\ Alive \subseteq Blocks /\ Alive \subseteq mem.heap \ stranded
  BY ThreadFacts, Zenon
<1>1. /\ mem' \in MemType /\ mem'.tid = mem.tid /\ mem'.pd_used = mem.pd_used
      /\ mem'.user_pt_used = mem.user_pt_used /\ mem'.frame = mem.frame
      /\ mem'.pd = mem.pd /\ mem'.pt = mem.pt
      /\ mem'.heap = IF zombie = Null THEN mem.heap
                     ELSE mem.heap \ {zombie, tcb[zombie].kstack}
  BY <1>0, Zenon DEF Reap, thread_reap, MemType
<1>2. zombie # Null => zombie \in Alive
  <2>1. zombie # Boot
    BY LimitsAssumption DEF UserInv, TypeOK, Blocks, Null, Boot
  <2> QED
    BY <2>1, Zenon DEF Alive
<1>3. TypeOK'
  BY <1>1, Zenon DEF UserInv, TypeOK, MemType
<1>4. PagingOK(mem)'
  BY <1>1 DEF UserInv, PagingOK, TablesInUse, TablesOnce, FramesInUse, FramesOnce
<1>5. PoolsKeepStep'
  BY <1>1, Zenon DEF UserInv, PoolsKeepStep, UsedUp
<1>6. BlocksOK /\ HeapIsReturned
  BY Zenon DEF UserInv
<1>7. BlocksOK'
  <2> SUFFICES ASSUME NEW a \in Alive'
               PROVE  /\ tcb[a].kstack \in Blocks /\ tcb[a].kstack # a
                      /\ {a, tcb[a].kstack} \subseteq mem'.heap \ stranded
                      /\ \A b \in Alive' : a # b => tcb[a].kstack \notin {b, tcb[b].kstack}
    BY Zenon DEF BlocksOK
  <2>1. a \in Alive /\ a # zombie /\ Alive' \subseteq Alive
    BY Zenon
  <2>2. zombie # Null => {a, tcb[a].kstack} \cap {zombie, tcb[zombie].kstack} = {}
    BY ONLY <1>2, <1>6, <2>1, Zenon DEF BlocksOK
  <2> QED
    BY ONLY <1>1, <1>6, <2>1, <2>2 DEF BlocksOK
<1>8. HeapIsReturned'
  <2>1. CASE zombie = Null
    <3>1. Alive' = Alive
      BY <2>1, Zenon DEF Alive
    <3> QED
      BY <1>1, <1>6, <2>1, <3>1 DEF HeapIsReturned
  <2>2. CASE zombie # Null
    <3> DEFINE z == {zombie, tcb[zombie].kstack}
               own(b) == {b, tcb[b].kstack}
    <3>1. mem'.heap = mem.heap \ z /\ z \cap stranded = {}
      BY ONLY <1>1, <1>2, <1>6, <2>2 DEF BlocksOK
    <3>2. \A b \in Alive' : own(b) \cap z = {} /\ b \in Alive
      BY ONLY <1>2, <1>6, <2>2, Alive' = Alive \ {zombie}, Zenon DEF BlocksOK
    <3>3. mem.heap = stranded \cup UNION {own(b) : b \in Alive}
      BY <1>6, Zenon DEF HeapIsReturned
    <3>4. \A b \in Alive : b \in Alive' \/ own(b) = z
      BY Zenon
    <3>5. mem'.heap = stranded \cup UNION {own(b) : b \in Alive'}
      <4> HIDE DEF z, own
      <4> QED
        BY ONLY <3>1, <3>2, <3>3, <3>4
    <3> QED
      BY <3>5, Zenon DEF HeapIsReturned
  <2> QED
    BY <2>1, <2>2, Zenon
<1>9. DirsOK'
  <2>1. DirsOK /\ tcb' = tcb /\ Alive' \subseteq Alive
    BY Zenon DEF UserInv
  <2> QED
    BY ONLY <1>1, <2>1 DEF DirsOK
<1>10. LoadedIsMapped'
  <2>1. LoadedIsMapped
    BY Zenon DEF UserInv
  <2>2. (loaded \cap Alive)' \subseteq loaded \cap Alive /\ program' = program /\ tcb' = tcb
    BY Zenon
  <2> QED
    BY ONLY <1>1, <2>1, <2>2, Zenon DEF LoadedIsMapped
<1> QED
  BY <1>3, <1>4, <1>5, <1>7, <1>8, <1>9, <1>10, Zenon DEF UserInv

\* The timer, and the exits.
LEMMA SchedulerInv ==
    ASSUME UserInv, scheduler
    PROVE  UserInv'
<1>1. /\ ring \in Seq(Blocks \cup {Boot}) /\ Len(ring) > 0 /\ IsInjective(ring)
      /\ halted \in BOOLEAN /\ booted \in BOOLEAN
  BY ThreadFacts, Zenon DEF UserInv, RingOK, TypeOK
<1>2. /\ Rotated(ring) \in Seq(Blocks \cup {Boot}) /\ Len(Rotated(ring)) = Len(ring)
      /\ Range(Rotated(ring)) = Range(ring) /\ IsInjective(Rotated(ring))
  BY <1>1, RotatedFacts, RotatedDistinct, Zenon
<1>3. /\ Reap /\ UNCHANGED <<tcb, halted, booted, program, loaded, stranded>>
      /\ ring' = Rotated(ring) /\ zombie' = Null
  BY Zenon DEF scheduler
<1>4. Null \notin Range(ring) /\ zombie \notin Range(ring)
  BY ThreadFacts, Zenon DEF UserInv, RingOK
<1>5. Alive' = Alive \ {zombie}
  BY <1>2, <1>3, <1>4, Zenon DEF Alive
<1>6. RingOK'
  BY <1>2, <1>3, <1>4, Zenon DEF RingOK
<1> QED
  BY <1>1, <1>2, <1>3, <1>5, <1>6, ReapInv

\* The thread that leaves is the boot thread, without a zombie, or it is the zombie.
LEMMA LeaveInv ==
    ASSUME UserInv, NEW z, Leave(z),
           \/ Head(ring) = Boot /\ z = Null
           \/ Head(ring) # Boot /\ z = Head(ring)
    PROVE  UserInv'
<1>1. /\ ring \in Seq(Blocks \cup {Boot}) /\ Len(ring) > 0 /\ ring # <<>>
      /\ IsInjective(ring) /\ halted \in BOOLEAN /\ booted \in BOOLEAN
  BY ThreadFacts, Zenon DEF UserInv, RingOK, TypeOK
<1>2. /\ Head(ring) \in Blocks \cup {Boot} /\ Tail(ring) \in Seq(Blocks \cup {Boot})
      /\ Len(Tail(ring)) = Len(ring) - 1 /\ Range(ring) = {Head(ring)} \cup Range(Tail(ring))
      /\ IsInjective(Tail(ring)) /\ Head(ring) \notin Range(Tail(ring)) /\ Len(ring) \in Nat
  BY <1>1, HeadTailFacts, TailDistinct, Zenon
<1>3. Null \notin Range(ring) /\ zombie \notin Range(ring) /\ Null \notin Blocks /\ Boot # Null
  BY ThreadFacts, Zenon DEF UserInv, RingOK
<1>4. Reap /\ UNCHANGED <<tcb, booted, program, loaded, stranded>>
  BY Zenon DEF Leave
<1>5. CASE Alone
  <2>1. halted' = TRUE /\ zombie' = Null /\ ring' = ring
    BY <1>5, Zenon DEF Leave
  <2>2. Alive' = Alive \ {zombie}
    BY <1>3, <2>1, Zenon DEF Alive
  <2>3. RingOK'
    BY <1>1, <1>3, <2>1, Zenon DEF RingOK
  <2> QED
    BY <1>1, <1>4, <2>1, <2>2, <2>3, ReapInv, Zenon
<1>6. CASE ~Alone
  <2>1. ring' = Tail(ring) /\ zombie' = z /\ halted' = halted
    BY <1>6, Zenon DEF Leave, Popped
  <2>2. ring' # <<>>
    <3>1. Len(ring') > 0 /\ ring' \in Seq(Blocks \cup {Boot})
      BY <1>1, <1>2, <1>6, <2>1 DEF Alone
    <3> QED
      BY <3>1, HeadTailFacts, Zenon
  <2>3. Alive' = Alive \ {zombie}
    BY <1>2, <1>3, <2>1, Zenon DEF Alive
  <2>4. RingOK'
    BY <1>2, <1>3, <2>1, Zenon DEF RingOK
  <2>5. z \in Blocks \cup {Null}
    BY <1>2, Zenon
  <2> QED
    BY <1>1, <1>2, <1>4, <2>1, <2>2, <2>3, <2>4, <2>5, ReapInv, Zenon
<1> QED
  BY <1>5, <1>6, Zenon

\* The threads that were there before a load keep their memory.
LEMMA OldThread ==
    ASSUME UserInv, NEW n \in MemType, Keeps(mem, n), NEW a \in Alive
    PROVE  LET d == tcb[a].pd IN
           /\ d \in mem.pd_used /\ tcb[a].tid = d
           /\ n.pd[d]["stack"] # Null /\ n.pt[n.pd[d]["stack"]][0] = tcb[a].user_frame
           /\ tcb[a].user_frame # Null
           /\ a \in loaded =>
                /\ n.pd[d]["code"] # Null
                /\ \A k \in 0 .. pages[program[a]] - 1 : n.pt[n.pd[d]["code"]][k] # Null
<1> DEFINE d == tcb[a].pd
<1>1. /\ d \in mem.pd_used /\ tcb[a].tid = d /\ mem.pd[d]["stack"] # Null
      /\ mem.pt[mem.pd[d]["stack"]][0] = tcb[a].user_frame /\ tcb[a].user_frame # Null
  BY Zenon DEF UserInv, DirsOK
<1>2. a \in loaded => /\ mem.pd[d]["code"] # Null
                      /\ \A k \in 0 .. pages[program[a]] - 1 : mem.pt[mem.pd[d]["code"]][k] # Null
  BY Zenon DEF UserInv, LoadedIsMapped
<1>3. \A r \in Regions : mem.pd[d][r] # Null => mem.pd[d][r] \in mem.user_pt_used
  BY <1>1, ThreadFacts, MemFields, Zenon DEF PagingOK, TablesInUse
<1>4. "code" \in Regions /\ "stack" \in Regions
  BY Zenon DEF Regions
<1>5. /\ n.pd[d]["stack"] = mem.pd[d]["stack"] /\ n.pd[d]["code"] = mem.pd[d]["code"]
      /\ n.pt[mem.pd[d]["stack"]] = mem.pt[mem.pd[d]["stack"]]
      /\ a \in loaded => n.pt[mem.pd[d]["code"]] = mem.pt[mem.pd[d]["code"]]
  BY <1>1, <1>2, <1>3, <1>4, Zenon DEF Keeps
<1> QED
  BY <1>1, <1>2, <1>5, Zenon

\* A load that fails in thread_create.
LEMMA FailedInv ==
    ASSUME UserInv, NEW p, NEW t, NEW f, UsedUp(mem, p, t, f), t <= 2 * p,
           NEW c, CreateFailed(c, p, t, f), mem' = c.mem,
           stranded' = stranded \cup c.dropped,
           UNCHANGED <<tcb, ring, program, loaded, zombie>>,
           halted' \in BOOLEAN, booted' \in BOOLEAN
    PROVE  UserInv'
<1>1. /\ mem' \in MemType /\ PagingOK(mem') /\ Keeps(mem, mem')
      /\ mem'.heap = mem.heap \cup c.dropped /\ c.dropped \subseteq Blocks \ mem.heap
  BY Zenon DEF CreateFailed
<1>2. PICK q \in {p, p + 1} :
        UsedUp(mem', q, t, f) /\ (q < THREAD_LIMIT => mem'.tid = 1 .. q)
  BY Zenon DEF CreateFailed
<1>3. Alive' = Alive
  BY Zenon DEF Alive
<1>4. p \in Nat /\ t \in Nat /\ f \in Nat /\ q \in Nat /\ t <= 2 * q
  BY LimitsAssumption DEF UsedUp
<1>5. mem.pd_used \subseteq mem'.pd_used
  BY <1>2, <1>4 DEF UsedUp
<1>6. TypeOK'
  BY <1>1, Zenon DEF UserInv, TypeOK, MemType
<1>7. PoolsKeepStep'
  BY <1>2, <1>4, Zenon DEF PoolsKeepStep
<1>8. RingOK'
  BY Zenon DEF UserInv, RingOK
<1>9. BlocksOK'
  <2>1. BlocksOK
    BY Zenon DEF UserInv
  <2> QED
    BY <1>1, <1>3, <2>1 DEF BlocksOK
<1>10. DirsOK'
  <2>1. (\A a, b \in Alive : a # b => tcb[a].pd # tcb[b].pd) /\ tcb' = tcb
    BY Zenon DEF UserInv, DirsOK
  <2>2. \A a \in Alive :
          /\ tcb[a].pd \in mem'.pd_used /\ tcb[a].tid = tcb[a].pd
          /\ mem'.pd[tcb[a].pd]["stack"] # Null
          /\ mem'.pt[mem'.pd[tcb[a].pd]["stack"]][0] = tcb[a].user_frame
          /\ tcb[a].user_frame # Null
    BY <1>1, <1>5, OldThread, Zenon
  <2>3. \A a \in Alive :
          /\ tcb'[a].pd \in mem'.pd_used /\ tcb'[a].tid = tcb'[a].pd
          /\ mem'.pd[tcb'[a].pd]["stack"] # Null
          /\ mem'.pt[mem'.pd[tcb'[a].pd]["stack"]][0] = tcb'[a].user_frame
          /\ tcb'[a].user_frame # Null
          /\ \A b \in Alive : a # b => tcb'[a].pd # tcb'[b].pd
    BY ONLY <2>1, <2>2
  <2> QED
    BY ONLY <1>3, <2>3 DEF DirsOK
<1>11. HeapIsReturned'
  BY <1>1, <1>3 DEF UserInv, HeapIsReturned
<1>12. LoadedIsMapped'
  <2>1. loaded' = loaded /\ tcb' = tcb /\ program' = program
    BY Zenon
  <2>2. ASSUME NEW a \in Alive, a \in loaded
        PROVE  LET dir == mem'.pd[tcb[a].pd] IN
               /\ dir["stack"] # Null /\ mem'.pt[dir["stack"]][0] = tcb[a].user_frame
               /\ dir["code"] # Null
               /\ \A k \in 0 .. pages[program[a]] - 1 : mem'.pt[dir["code"]][k] # Null
    BY <1>1, <2>2, OldThread, Zenon
  <2> QED
    BY ONLY <1>3, <2>1, <2>2, Zenon DEF LoadedIsMapped
<1>13. PagingOK(mem)'
  BY <1>1, Zenon
<1> QED
  BY <1>6, <1>7, <1>8, <1>9, <1>10, <1>11, <1>12, <1>13, Zenon DEF UserInv

\* The memory after a load, of which j pages are mapped.
LEMMA LoadMemory ==
    ASSUME NEW p, NEW t, NEW f, UsedUp(mem, p, t, f), t <= 2 * p, NEW ks,
           NEW c, Created(c, p, t, f, ks), NEW prog \in Programs,
           NEW j \in 0 .. pages[prog], j <= FreeFrames(c.mem)
    PROVE  LET n == Loaded(c.mem, c.tcb.pd, j) IN
           /\ LoadedFrom(c.mem, n, p + 1, t + 1, f + 1, p + 1, j) /\ Keeps(mem, n)
<1>1. /\ p \in Nat /\ t \in Nat /\ f \in Nat /\ p < THREAD_LIMIT /\ THREAD_LIMIT \in Nat
      /\ MAX_USER_PT \in Nat /\ MAX_USER_PT >= 2 * THREAD_LIMIT /\ FRAME_COUNT \in Nat
      /\ pages[prog] \in Nat
  BY LimitsAssumption DEF UsedUp, Created
<1>2. t + 1 < MAX_USER_PT /\ j \in Nat /\ p + 1 \in 1 .. p + 1
  BY <1>1
<1>3. /\ c.mem \in MemType /\ PagingOK(c.mem) /\ UsedUp(c.mem, p + 1, t + 1, f + 1)
      /\ NeedsTable(c.mem, p + 1, "code") /\ c.tcb.pd = p + 1 /\ Keeps(mem, c.mem)
  BY DEF Created, NeedsTable
<1>4. f + 1 + j <= FRAME_COUNT
  <2>1. Cardinality(1 .. f + 1) = f + 1
    BY <1>1, FS_Interval
  <2> QED
    BY <1>1, <1>2, <1>3, <2>1 DEF FreeFrames, UsedUp
<1>5. 0 .. j - 1 \subseteq Pages
  BY <1>1, PagesFacts
<1> DEFINE n == Loaded(c.mem, p + 1, j)
<1>6. LoadedFrom(c.mem, n, p + 1, t + 1, f + 1, p + 1, j)
  BY <1>2, <1>3, <1>4, <1>5, LoadedFacts, Zenon
<1> HIDE DEF n
<1>7. Keeps(mem, n)
  <2>1. mem.pd_used = 1 .. p /\ mem.user_pt_used = 1 .. t /\ p + 1 \notin 1 .. p
    BY <1>1 DEF UsedUp
  <2>2. 1 .. p \subseteq Dirs /\ 1 .. t \subseteq 1 .. t + 1
    BY <1>1 DEF Dirs
  <2> QED
    BY ONLY <1>3, <1>6, <2>1, <2>2 DEF LoadedFrom, Keeps
<1> QED
  BY <1>3, <1>6, <1>7, Zenon DEF n

\* A load whose thread exists: the new thread has nothing of the others.
LEMMA CreatedInv ==
    ASSUME UserInv, NEW p, NEW t, NEW f, UsedUp(mem, p, t, f), t <= 2 * p, NEW ks,
           NEW c, Created(c, p, t, f, ks), NEW prog \in Programs,
           NEW j \in 0 .. pages[prog], j <= FreeFrames(c.mem),
           mem' = Loaded(c.mem, c.tcb.pd, j),
           tcb' = [tcb EXCEPT ![c.t] = c.tcb], ring' = Spliced(ring, c.t),
           program' = [program EXCEPT ![c.t] = prog],
           loaded' = loaded \ {c.t} \/ (loaded' = loaded \cup {c.t} /\ j = pages[prog]),
           UNCHANGED <<stranded, zombie>>, halted' \in BOOLEAN, booted' \in BOOLEAN
    PROVE  UserInv'
<1>1. LoadedFrom(c.mem, mem', p + 1, t + 1, f + 1, p + 1, j) /\ Keeps(mem, mem')
  BY LoadMemory, Zenon
<1>2. /\ p \in Nat /\ t \in Nat /\ f \in Nat /\ j \in Nat /\ pages[prog] \in Nat \ {0}
      /\ p < THREAD_LIMIT /\ THREAD_LIMIT \in Nat /\ TidLimit \in Nat /\ FRAME_COUNT \in Nat
      /\ TidLimit >= THREAD_LIMIT /\ f < FRAME_COUNT
  <2>1. p < THREAD_LIMIT /\ f < FRAME_COUNT
    BY ONLY Created(c, p, t, f, ks), Zenon DEF Created
  <2>2. p \in Nat /\ t \in Nat /\ f \in Nat
    BY ONLY UsedUp(mem, p, t, f), LimitsAssumption DEF UsedUp
  <2>3. pages[prog] \in Nat \ {0} /\ j \in Nat
    BY ONLY LimitsAssumption, prog \in Programs, j \in 0 .. pages[prog]
  <2> QED
    BY ONLY <2>1, <2>2, <2>3, LimitsAssumption, Zenon
<1>3. /\ c.t \in Blocks \ mem.heap /\ ks \in Blocks \ mem.heap /\ c.t # ks
      /\ c.tcb.tid = p + 1 /\ c.tcb.pd = p + 1 /\ c.tcb.kstack = ks
      /\ c.tcb.user_frame = f + 1
  BY ONLY Created(c, p, t, f, ks) DEF Created
<1>4. /\ mem \in MemType /\ Alive \subseteq Blocks /\ Alive \subseteq mem.heap \ stranded
      /\ \A x \in Range(ring) : x = Boot \/ x \in Alive
      /\ ring \in Seq(Blocks \cup {Boot}) /\ Len(ring) > 0
      /\ Null \notin Blocks /\ Boot \notin Blocks
  BY ThreadFacts, Zenon
<1>5. c.t \notin Alive /\ c.t \notin Range(ring) /\ c.t \in Blocks \cup {Boot}
      /\ c.t # Null /\ c.t # Boot
  BY <1>3, <1>4, Zenon
<1>6. /\ ring' \in Seq(Blocks \cup {Boot}) /\ Range(ring') = Range(ring) \cup {c.t}
      /\ IsInjective(ring') /\ ring' # <<>>
  <2>1. IsInjective(ring) /\ ring' = Append(ring, c.t)
    BY Zenon DEF UserInv, RingOK, Spliced
  <2>2. /\ ring' \in Seq(Blocks \cup {Boot}) /\ Range(ring') = Range(ring) \cup {c.t}
        /\ Len(ring') = Len(ring) + 1 /\ IsInjective(ring')
    BY ONLY <1>4, <1>5, <2>1, AppendFacts, AppendDistinct
  <2>3. Len(ring') > 0
    BY ONLY <1>4, <2>2
  <2> QED
    BY ONLY <2>2, <2>3, HeadTailFacts, Zenon
<1>7. Alive' = Alive \cup {c.t}
  BY <1>5, <1>6, Zenon DEF Alive
<1>8. /\ tcb' [c.t] = c.tcb /\ \A b \in Alive : tcb'[b] = tcb[b]
      /\ program'[c.t] = prog /\ \A b \in Alive : program'[b] = program[b]
  BY <1>3, <1>4, <1>5, Zenon DEF UserInv, TypeOK
<1>9. /\ mem' \in MemType /\ mem'.heap = mem.heap \cup {c.t, ks} /\ mem'.tid = 1 .. p + 1
      /\ UsedUp(mem', p + 1, IF j = 0 THEN t + 1 ELSE t + 2, f + 1 + j) /\ PagingOK(mem')
  <2>1. t + 1 + 1 = t + 2
    BY <1>2
  <2> QED
    BY <1>1, <2>1, Zenon DEF LoadedFrom, Created
<1>10. TypeOK'
  <2>1. c.tcb \in [tid : Tids \cup {Null}, pd : Dirs \cup {Null},
                   kstack : Blocks \cup {Null}, user_frame : Frames \cup {Null}]
    <3>1. p + 1 \in Tids /\ p + 1 \in Dirs /\ f + 1 \in Frames /\ ks \in Blocks
      BY ONLY <1>2, <1>3 DEF Tids, Dirs, Frames
    <3> QED
      BY ONLY <3>1, Created(c, p, t, f, ks) DEF Created
  <2>2. /\ tcb' \in [Blocks -> [tid : Tids \cup {Null}, pd : Dirs \cup {Null},
                       kstack : Blocks \cup {Null}, user_frame : Frames \cup {Null}]]
        /\ program' \in [Blocks -> Programs]
        /\ loaded' \subseteq Blocks /\ stranded' \subseteq Blocks
        /\ zombie' \in Blocks \cup {Null}
    <3>1. /\ tcb \in [Blocks -> [tid : Tids \cup {Null}, pd : Dirs \cup {Null},
                        kstack : Blocks \cup {Null}, user_frame : Frames \cup {Null}]]
          /\ program \in [Blocks -> Programs]
          /\ loaded \subseteq Blocks /\ stranded \subseteq Blocks
          /\ zombie \in Blocks \cup {Null}
      BY Zenon DEF UserInv, TypeOK
    <3> QED
      BY <1>3, <2>1, <3>1, Zenon
  <2> QED
    BY <1>6, <1>9, <2>2, Zenon DEF TypeOK, MemType
<1>11. PoolsKeepStep'
  <2> DEFINE s == IF j = 0 THEN t + 1 ELSE t + 2
  <2>1. p + 1 \in Nat /\ s \in Nat /\ f + 1 + j \in Nat /\ s <= 2 * (p + 1)
    BY <1>2
  <2> QED
    BY <1>9, <2>1, Zenon DEF PoolsKeepStep
<1>12. RingOK'
  BY <1>3, <1>4, <1>5, <1>6, Zenon DEF UserInv, RingOK, Alive
<1>13. BlocksOK'
  <2>1. BlocksOK
    BY Zenon DEF UserInv
  <2>2. \A a \in Alive : {a, tcb[a].kstack} \cap {c.t, ks} = {}
    BY ONLY <1>3, <2>1 DEF BlocksOK
  <2>3. {c.t, ks} \cap stranded = {}
    BY <1>3, Zenon DEF UserInv, HeapIsReturned
  <2>4. stranded' = stranded
    BY Zenon
  <2> QED
    BY ONLY <1>3, <1>7, <1>8, <1>9, <2>1, <2>2, <2>3, <2>4 DEF BlocksOK
<1>14. HeapIsReturned'
  <2> DEFINE own(b) == {b, tcb[b].kstack}
             new(b) == {b, tcb'[b].kstack}
  <2>1. mem.heap = stranded \cup UNION {own(b) : b \in Alive}
    BY Zenon DEF UserInv, HeapIsReturned
  <2>2. (\A b \in Alive : new(b) = own(b)) /\ new(c.t) = {c.t, ks}
    BY <1>3, <1>8, Zenon
  <2>3. mem'.heap = stranded \cup UNION {new(b) : b \in Alive'}
    <3> HIDE DEF own, new
    <3> QED
      BY ONLY <1>7, <1>9, <2>1, <2>2
  <2> QED
    BY <2>3, Zenon DEF HeapIsReturned
<1>15. /\ p + 1 \in Dirs /\ "stack" \in Regions /\ "code" \in Regions /\ "stack" # "code"
       /\ t + 1 \in 1 .. t + 1
  BY <1>2 DEF Dirs, Regions
<1>16. /\ mem'.pd[p + 1]["stack"] = t + 1 /\ mem'.pt[t + 1][0] = f + 1
       /\ mem'.pd[p + 1]["code"] = IF j = 0 THEN Null ELSE t + 2
       /\ \A l \in 0 .. j - 1 : mem'.pt[t + 2][l] # Null
  <2>1. t + 1 + 1 = t + 2
    BY <1>2
  <2>2. /\ c.mem.pd[p + 1]["stack"] = t + 1 /\ c.mem.pt[t + 1][0] = f + 1
    BY Zenon DEF Created
  <2> QED
    BY ONLY <1>1, <1>15, <2>1, <2>2, Zenon DEF LoadedFrom
<1>17. DirsOK'
  <2>1. \A a \in Alive : tcb[a].pd \in 1 .. p
    BY Zenon DEF UserInv, DirsOK, UsedUp
  <2>2. \A a \in Alive : tcb[a].pd # p + 1
    BY ONLY <1>2, <2>1
  <2>3. mem'.pd_used = 1 .. p + 1 /\ 1 .. p \subseteq 1 .. p + 1 /\ p + 1 \in 1 .. p + 1
    BY ONLY <1>2, <1>9 DEF UsedUp
  <2>4. \A a, b \in Alive : a # b => tcb[a].pd # tcb[b].pd
    BY Zenon DEF UserInv, DirsOK
  <2>5. \A a \in Alive :
          /\ tcb[a].pd \in mem'.pd_used /\ tcb[a].tid = tcb[a].pd
          /\ mem'.pd[tcb[a].pd]["stack"] # Null
          /\ mem'.pt[mem'.pd[tcb[a].pd]["stack"]][0] = tcb[a].user_frame
          /\ tcb[a].user_frame # Null
    BY <1>1, <1>9, <2>1, <2>3, OldThread, Zenon
  <2>6. t + 1 # Null /\ f + 1 # Null
    BY <1>2 DEF Null
  <2>7. \A a, b \in Alive' : a # b => tcb'[a].pd # tcb'[b].pd
    BY ONLY <1>3, <1>7, <1>8, <2>2, <2>4
  <2>8. ASSUME NEW a \in Alive'
        PROVE  /\ tcb'[a].pd \in mem'.pd_used /\ tcb'[a].tid = tcb'[a].pd
               /\ mem'.pd[tcb'[a].pd]["stack"] # Null
               /\ mem'.pt[mem'.pd[tcb'[a].pd]["stack"]][0] = tcb'[a].user_frame
               /\ tcb'[a].user_frame # Null
    <3>1. CASE a = c.t
      <4>1. tcb'[a].pd = p + 1 /\ tcb'[a].tid = p + 1 /\ tcb'[a].user_frame = f + 1
        BY ONLY <1>3, <1>8, <3>1, Zenon
      <4> QED
        BY ONLY <1>16, <2>3, <2>6, <4>1, Zenon
    <3>2. CASE a \in Alive
      <4>1. tcb'[a] = tcb[a]
        BY ONLY <1>8, <3>2, Zenon
      <4> QED
        BY ONLY <2>5, <3>2, <4>1, Zenon
    <3> QED
      BY ONLY <1>7, <2>8, <3>1, <3>2, Zenon
  <2> QED
    BY ONLY <2>7, <2>8, Zenon DEF DirsOK
<1>18. LoadedIsMapped'
  <2> SUFFICES ASSUME NEW b \in loaded', b \in Alive'
               PROVE  LET dir == mem'.pd[tcb'[b].pd] IN
                      /\ dir["stack"] # Null /\ mem'.pt[dir["stack"]][0] = tcb'[b].user_frame
                      /\ dir["code"] # Null
                      /\ \A k \in 0 .. pages[program'[b]] - 1 : mem'.pt[dir["code"]][k] # Null
    BY Zenon DEF LoadedIsMapped
  <2>1. CASE b = c.t
    <3>1. j = pages[prog]
      BY <2>1, Zenon
    <3>2. j # 0 /\ t + 1 # Null /\ t + 2 # Null
      BY ONLY <1>2, <3>1 DEF Null
    <3>3. tcb'[b].pd = p + 1 /\ tcb'[b].user_frame = f + 1 /\ program'[b] = prog
      BY ONLY <1>3, <1>8, <2>1, Zenon
    <3> QED
      BY ONLY <1>16, <3>1, <3>2, <3>3, Zenon
  <2>2. CASE b # c.t
    <3>1. b \in Alive /\ b \in loaded /\ tcb'[b] = tcb[b] /\ program'[b] = program[b]
      BY <1>7, <1>8, <2>2, Zenon
    <3> DEFINE d == tcb[b].pd
    <3>2. /\ mem'.pd[d]["stack"] # Null /\ mem'.pt[mem'.pd[d]["stack"]][0] = tcb[b].user_frame
          /\ mem'.pd[d]["code"] # Null
          /\ \A k \in 0 .. pages[program[b]] - 1 : mem'.pt[mem'.pd[d]["code"]][k] # Null
      BY <1>1, <1>9, <3>1, OldThread, Zenon
    <3> QED
      BY ONLY <3>1, <3>2, Zenon
  <2> QED
    BY <2>1, <2>2, Zenon
<1>19. PagingOK(mem)'
  BY <1>9, Zenon
<1> QED
  BY <1>10, <1>11, <1>12, <1>13, <1>14, <1>17, <1>18, <1>19, Zenon DEF UserInv

\* load_program, whatever fails in it.
LEMMA LoadInv ==
    ASSUME UserInv, NEW prog \in Programs, load_program(prog), zombie' = zombie,
           halted' \in BOOLEAN, booted' \in BOOLEAN
    PROVE  UserInv'
<1>1. CASE UNCHANGED <<mem, tcb, ring, program, loaded, stranded>>
  <2>1. Alive' = Alive
    BY <1>1, Zenon DEF Alive
  <2>2. TypeOK'
    BY <1>1, Zenon DEF UserInv, TypeOK
  <2>3. PagingOK(mem)' /\ PoolsKeepStep' /\ RingOK'
    BY <1>1, Zenon DEF UserInv, PoolsKeepStep, RingOK
  <2>4. BlocksOK' /\ DirsOK'
    <3>1. BlocksOK /\ DirsOK
      BY Zenon DEF UserInv
    <3>2. BlocksOK'
      BY ONLY <1>1, <2>1, <3>1, Zenon DEF BlocksOK
    <3>3. DirsOK'
      BY ONLY <1>1, <2>1, <3>1 DEF DirsOK
    <3> QED
      BY <3>2, <3>3, Zenon
  <2>5. HeapIsReturned' /\ LoadedIsMapped'
    BY <1>1, <2>1, Zenon DEF UserInv, HeapIsReturned, LoadedIsMapped
  <2> QED
    BY <2>2, <2>3, <2>4, <2>5, Zenon DEF UserInv
<1>2. ASSUME NEW tids \in TidsAfterNext(mem), NEW c, c = thread_create(tids),
             \/ /\ c.t = Null
                /\ mem' = c.mem
                /\ stranded' = stranded \cup c.dropped
                /\ UNCHANGED <<tcb, ring, program, loaded>>
             \/ /\ c.t # Null
                /\ tcb' = [tcb EXCEPT ![c.t] = c.tcb]
                /\ ring' = Spliced(ring, c.t)
                /\ program' = [program EXCEPT ![c.t] = prog]
                /\ \E n \in 0 .. pages[prog] :
                     /\ mem' = Loaded(c.mem, c.tcb.pd, n)
                     /\ \/ /\ n \in 1 .. FreeFrames(c.mem)
                           /\ loaded' = loaded \ {c.t}
                        \/ /\ n = FreeFrames(c.mem) /\ n < pages[prog]
                           /\ loaded' = loaded \ {c.t}
                        \/ /\ n = pages[prog] /\ n <= FreeFrames(c.mem)
                           /\ loaded' = loaded \cup {c.t}
                /\ UNCHANGED stranded
      PROVE  UserInv'
  <2>1. PICK p, t, f \in Nat :
          /\ UsedUp(mem, p, t, f) /\ t <= 2 * p
          /\ p < THREAD_LIMIT => mem.tid = 1 .. p
    BY Zenon DEF UserInv, PoolsKeepStep
  <2>2. \/ c.t = Null /\ CreateFailed(c, p, t, f)
        \/ c.t # Null /\ \E ks \in Blocks : Created(c, p, t, f, ks)
    <3>1. mem \in MemType /\ PagingOK(mem)
      BY ThreadFacts, Zenon
    <3> QED
      BY ONLY <1>2, <2>1, <3>1, CreateFacts, Zenon
  <2>3. CASE c.t = Null
    BY <1>2, <2>1, <2>2, <2>3, FailedInv, Zenon
  <2>4. CASE c.t # Null
    <3>1. PICK ks \in Blocks : Created(c, p, t, f, ks)
      BY <2>2, <2>4, Zenon
    <3>2. PICK n \in 0 .. pages[prog] :
            /\ mem' = Loaded(c.mem, c.tcb.pd, n) /\ n <= FreeFrames(c.mem)
            /\ \/ loaded' = loaded \ {c.t}
               \/ loaded' = loaded \cup {c.t} /\ n = pages[prog]
      <4>1. PICK n \in 0 .. pages[prog] :
                     /\ mem' = Loaded(c.mem, c.tcb.pd, n)
                     /\ \/ /\ n \in 1 .. FreeFrames(c.mem)
                           /\ loaded' = loaded \ {c.t}
                        \/ /\ n = FreeFrames(c.mem) /\ n < pages[prog]
                           /\ loaded' = loaded \ {c.t}
                        \/ /\ n = pages[prog] /\ n <= FreeFrames(c.mem)
                           /\ loaded' = loaded \cup {c.t}
        BY <1>2, <2>4, Zenon
      <4>2. FreeFrames(c.mem) \in Int /\ n \in Int
        <5>1. c.mem.frame = 1 .. f + 1 /\ f + 1 \in Nat /\ FRAME_COUNT \in Nat
          <6>1. UsedUp(c.mem, p + 1, t + 1, f + 1)
            BY ONLY <3>1, Zenon DEF Created
          <6> QED
            BY ONLY <2>1, <6>1, f \in Nat, LimitsAssumption DEF UsedUp
        <5>2. Cardinality(1 .. f + 1) \in Nat
          BY <2>1, FS_Interval
        <5>3. pages[prog] \in Nat
          BY PagesFacts, Zenon
        <5> QED
          BY <5>1, <5>2, <5>3 DEF FreeFrames
      <4>3. n <= FreeFrames(c.mem)
        BY <4>1, <4>2
      <4> QED
        BY <4>1, <4>3, Zenon
    <3> QED
      BY <1>2, <2>1, <2>4, <3>1, <3>2, CreatedInv, Zenon
  <2> QED
    BY <2>3, <2>4, Zenon
<1> QED
  BY <1>1, <1>2, Zenon DEF load_program
-----------------------------------------------------------------------------
\* The invariant holds at the start.
LEMMA InitInv == Init => UserInv
<1> SUFFICES ASSUME Init PROVE UserInv
  BY Zenon
<1>1. /\ mem.heap = {} /\ mem.tid = {} /\ mem.pd_used = {} /\ mem.user_pt_used = {}
      /\ mem.frame = {} /\ mem.pd = [d \in Dirs |-> kernel_page_directory]
      /\ mem.pt = [t \in Tables |-> [i \in Pages |-> Null]]
      /\ mem \in MemType
  BY Zenon DEF Init, MemType, kernel_page_directory
<1>2. /\ ring = <<Boot>> /\ zombie = Null /\ Range(ring) = {Boot} /\ IsInjective(ring)
      /\ Boot # Null
  BY DEF Init, Range, IsInjective, Boot, Null
<1>3. Alive = {}
  BY <1>2, Zenon DEF Alive
<1>4. TypeOK
  <2>1. NoTcb \in [tid : Tids \cup {Null}, pd : Dirs \cup {Null},
                   kstack : Blocks \cup {Null}, user_frame : Frames \cup {Null}]
    BY Zenon DEF NoTcb
  <2>2. Shell \in Programs
    BY LimitsAssumption, Zenon
  <2>3. ring \in Seq(Blocks \cup {Boot}) /\ ring # <<>>
    BY <1>2
  <2> QED
    BY <1>1, <2>1, <2>2, <2>3, Zenon DEF Init, TypeOK, MemType
<1>5. PagingOK(mem)
  <2>1. /\ \A d \in Dirs, r \in Regions : mem.pd[d][r] = Null
        /\ \A t \in Tables, k \in Pages : mem.pt[t][k] = Null
    <3>1. \A r \in Regions : kernel_page_directory[r] = Null
      BY ONLY Zenon DEF kernel_page_directory
    <3>2. \A d \in Dirs : mem.pd[d] = kernel_page_directory
      BY ONLY <1>1, Zenon
    <3>3. \A t \in Tables : mem.pt[t] = [i \in Pages |-> Null]
      BY ONLY <1>1, Zenon
    <3>4. \A t \in Tables, k \in Pages : mem.pt[t][k] = Null
      BY ONLY <3>3, Zenon
    <3> QED
      BY ONLY <3>1, <3>2, <3>4, Zenon
  <2> QED
    BY ONLY <2>1, Zenon DEF PagingOK, TablesInUse, TablesOnce, FramesInUse, FramesOnce
<1>6. PoolsKeepStep
  <2>1. UsedUp(mem, 0, 0, 0) /\ mem.tid = 1 .. 0 /\ 0 <= 2 * 0
    BY <1>1, LimitsAssumption DEF UsedUp
  <2> QED
    BY <2>1, Zenon DEF PoolsKeepStep
<1>7. RingOK
  BY <1>2, Zenon DEF RingOK
<1>8. BlocksOK /\ DirsOK /\ LoadedIsMapped
  BY <1>3, Zenon DEF BlocksOK, DirsOK, LoadedIsMapped
<1>9. HeapIsReturned
  BY <1>1, <1>3, Zenon DEF Init, HeapIsReturned
<1> QED
  BY <1>4, <1>5, <1>6, <1>7, <1>8, <1>9, Zenon DEF UserInv

\* Every step keeps it.
LEMMA StepInv == UserInv /\ [Next]_vars => UserInv'
<1> SUFFICES ASSUME UserInv, [Next]_vars PROVE UserInv'
  BY Zenon
<1>0. halted \in BOOLEAN /\ booted \in BOOLEAN /\ Shell \in Programs
  BY LimitsAssumption, Zenon DEF UserInv, TypeOK
<1>1. CASE kernel_main
  BY <1>0, <1>1, LoadInv, Zenon DEF kernel_main
<1>2. CASE r0_exit_no_zombie
  BY <1>2, LeaveInv, Zenon DEF r0_exit_no_zombie
<1>3. CASE scheduler
  BY <1>3, SchedulerInv, Zenon
<1>4. CASE r3_exit
  BY <1>4, LeaveInv, Zenon DEF r3_exit
<1>5. ASSUME NEW prog \in Programs, SYS_EXEC(prog) PROVE UserInv'
  BY <1>0, <1>5, LoadInv, Zenon DEF SYS_EXEC
<1>6. CASE UNCHANGED vars
  <2>1. UNCHANGED <<mem, tcb, ring, zombie, halted, booted, program, loaded, stranded>>
    BY <1>6, Zenon DEF vars
  <2>2. load_program(Shell)
    BY <2>1, Zenon DEF load_program
  <2> QED
    BY <1>0, <2>1, <2>2, LoadInv, Zenon
<1> QED
  BY <1>1, <1>2, <1>3, <1>4, <1>5, <1>6, Zenon DEF Next

\* The inductive invariant is an invariant.
THEOREM UserInvariant == Spec => []UserInv
  BY InitInv, StepInv, PTL DEF Spec

\* What a thread reaches through its page directory is marked as used.
LEMMA ReachFacts ==
    ASSUME UserInv, NEW a \in Alive
    PROVE  /\ tcb[a].pd \in Dirs
           /\ \A t \in Range(mem.pd[tcb[a].pd]) \ {Null} :
                t \in Tables /\ \E r \in Regions : t = mem.pd[tcb[a].pd][r]
           /\ \A g \in Mapped(a) : /\ g # Null /\ g \in mem.frame
                                   /\ \E t \in Range(mem.pd[tcb[a].pd]) \ {Null}, k \in Pages :
                                         g = mem.pt[t][k]
<1>1. mem \in MemType /\ PagingOK(mem)
  BY ThreadFacts, Zenon
<1>2. tcb[a].pd \in Dirs
  BY <1>1, MemFields, Zenon DEF UserInv, DirsOK
<1>3. \A t \in Range(mem.pd[tcb[a].pd]) \ {Null} :
         t \in Tables /\ \E r \in Regions : t = mem.pd[tcb[a].pd][r]
  <2>1. mem.pd[tcb[a].pd] \in [Regions -> Tables \cup {Null}]
    BY <1>1, <1>2, MemFields, Zenon
  <2> QED
    BY ONLY <2>1, Zenon DEF Range
<1>4. ASSUME NEW g \in Mapped(a)
      PROVE  /\ g # Null /\ g \in mem.frame
             /\ \E t \in Range(mem.pd[tcb[a].pd]) \ {Null}, k \in Pages : g = mem.pt[t][k]
  <2>1. PICK t \in Range(mem.pd[tcb[a].pd]) \ {Null}, k \in Pages :
          g = mem.pt[t][k] /\ g # Null
    BY <1>4 DEF Mapped
  <2>2. t \in Tables
    BY <1>3, Zenon
  <2>3. g \in mem.frame
    BY <1>1, <2>1, <2>2, Zenon DEF PagingOK, FramesInUse
  <2> QED
    BY <2>1, <2>3, Zenon
<1> QED
  BY <1>2, <1>3, <1>4, Zenon

\* No table, and so no frame, is reached from two threads.
LEMMA NothingShared ==
    ASSUME UserInv, NEW a \in Alive, NEW b \in Alive, a # b
    PROVE  /\ tcb[a].pd # tcb[b].pd
           /\ \A t \in Range(mem.pd[tcb[a].pd]) \ {Null} : t \notin Range(mem.pd[tcb[b].pd])
           /\ Mapped(a) \cap Mapped(b) = {}
<1>1. tcb[a].pd # tcb[b].pd
  BY Zenon DEF UserInv, DirsOK
<1>2. tcb[a].pd \in Dirs /\ tcb[b].pd \in Dirs /\ TablesOnce(mem) /\ FramesOnce(mem)
  BY ReachFacts, Zenon DEF UserInv, PagingOK
<1>3. ASSUME NEW t \in Range(mem.pd[tcb[a].pd]) \ {Null}, t \in Range(mem.pd[tcb[b].pd])
      PROVE  FALSE
  <2>1. PICK r \in Regions : t = mem.pd[tcb[a].pd][r]
    BY ReachFacts, Zenon
  <2>2. PICK q \in Regions : t = mem.pd[tcb[b].pd][q]
    BY <1>3, ReachFacts, Zenon
  <2>3. mem.pd[tcb[a].pd][r] # Null /\ mem.pd[tcb[a].pd][r] = mem.pd[tcb[b].pd][q]
    BY <2>1, <2>2, Zenon
  <2> QED
    BY ONLY <1>1, <1>2, <2>3, r \in Regions, q \in Regions DEF TablesOnce
<1>4. ASSUME NEW g \in Mapped(a), g \in Mapped(b)
      PROVE  FALSE
  <2>1. PICK t \in Range(mem.pd[tcb[a].pd]) \ {Null}, k \in Pages : g = mem.pt[t][k]
    BY ReachFacts, Zenon
  <2>2. PICK u \in Range(mem.pd[tcb[b].pd]) \ {Null}, l \in Pages : g = mem.pt[u][l]
    BY <1>4, ReachFacts
  <2>3. t \in Tables /\ u \in Tables /\ g # Null
    BY ReachFacts, Zenon
  <2>4. mem.pt[t][k] # Null /\ mem.pt[t][k] = mem.pt[u][l]
    BY <2>1, <2>2, <2>3, Zenon
  <2>5. t = u
    BY ONLY <1>2, <2>3, <2>4, k \in Pages, l \in Pages DEF FramesOnce
  <2> QED
    BY <1>3, <2>5, Zenon
<1> QED
  BY <1>1, <1>3, <1>4, Zenon

\* No two threads share a page directory, a page table or a frame, whatever was
\* loaded, exited and reaped before.
THEOREM Disjoint == Spec => []AddressSpacesAreDisjoint
<1>1. UserInv => AddressSpacesAreDisjoint
  <2> SUFFICES ASSUME UserInv, NEW a \in Alive, NEW b \in Alive, a # b
               PROVE  /\ tcb[a].pd # tcb[b].pd
                      /\ Range(mem.pd[tcb[a].pd]) \cap Range(mem.pd[tcb[b].pd]) \subseteq {Null}
                      /\ Mapped(a) \cap Mapped(b) = {}
    BY Zenon DEF AddressSpacesAreDisjoint
  <2> QED
    BY NothingShared, Zenon
<1> QED
  BY <1>1, UserInvariant, PTL

\* What a thread uses is marked as used: no pool hands it out again.
THEOREM Owned == Spec => []OwnedIsAllocated
<1>1. UserInv => OwnedIsAllocated
  <2> SUFFICES ASSUME UserInv, NEW b \in Alive
               PROVE  /\ {b, tcb[b].kstack} \subseteq mem.heap
                      /\ tcb[b].pd \in mem.pd_used
                      /\ Range(mem.pd[tcb[b].pd]) \ {Null} \subseteq mem.user_pt_used
                      /\ Mapped(b) \cup {tcb[b].user_frame} \subseteq mem.frame
    BY Zenon DEF OwnedIsAllocated, UserInv
  <2>1. {b, tcb[b].kstack} \subseteq mem.heap /\ tcb[b].pd \in mem.pd_used
    BY Zenon DEF UserInv, BlocksOK, DirsOK
  <2>2. TablesInUse(mem) /\ FramesInUse(mem) /\ tcb[b].pd \in Dirs
    BY ReachFacts, Zenon DEF UserInv, PagingOK
  <2>3. Range(mem.pd[tcb[b].pd]) \ {Null} \subseteq mem.user_pt_used
    <3> SUFFICES ASSUME NEW t \in Range(mem.pd[tcb[b].pd]) \ {Null}
                 PROVE  t \in mem.user_pt_used
      BY Zenon
    <3>1. PICK q \in Regions : t = mem.pd[tcb[b].pd][q]
      BY ReachFacts, Zenon
    <3>2. mem.pd[tcb[b].pd][q] # Null
      BY <3>1, Zenon
    <3> QED
      BY ONLY <2>2, <3>1, <3>2, q \in Regions, Zenon DEF TablesInUse
  <2>4. tcb[b].user_frame \in mem.frame
    <3> DEFINE t == mem.pd[tcb[b].pd]["stack"]
    <3>1. t # Null /\ mem.pt[t][0] = tcb[b].user_frame /\ tcb[b].user_frame # Null
      BY Zenon DEF UserInv, DirsOK
    <3>2. t \in Tables /\ 0 \in Pages
      <4>1. 0 \in Pages /\ "stack" \in Regions /\ mem \in MemType
        BY ThreadFacts, PagesFacts, Zenon DEF Pages, Regions
      <4>2. mem.pd[tcb[b].pd] \in [Regions -> Tables \cup {Null}]
        BY <2>2, <4>1, MemFields, Zenon
      <4> QED
        BY <3>1, <4>1, <4>2, Zenon
    <3> QED
      BY ONLY <2>2, <3>1, <3>2, Zenon DEF FramesInUse
  <2> QED
    BY <2>1, <2>3, <2>4, ReachFacts, Zenon
<1> QED
  BY <1>1, UserInvariant, PTL

\* No two threads have the same tid, although tids are never given back and next()
\* damages its bitmap once they are used up: a thread's tid is the number of its page
\* directory.
THEOREM UniqueTids == Spec => []TidsAreUnique
<1>1. UserInv => TidsAreUnique
  BY DEF UserInv, DirsOK, TidsAreUnique
<1> QED
  BY <1>1, UserInvariant, PTL

\* A program whose load_program returned 0 has its stack and all its pages.
THEOREM Mapping == Spec => []LoadedIsMapped
<1>1. UserInv => LoadedIsMapped
  BY Zenon DEF UserInv
<1> QED
  BY <1>1, UserInvariant, PTL

\* A block of the heap that is in use belongs to a thread, or a thread_create that
\* failed has dropped it.
THEOREM HeapReturned == Spec => []HeapIsReturned
<1>1. UserInv => HeapIsReturned
  BY Zenon DEF UserInv
<1> QED
  BY <1>1, UserInvariant, PTL
=============================================================================
