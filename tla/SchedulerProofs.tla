-------------------------- MODULE SchedulerProofs --------------------------
(* The list of tasks stays acyclic for any number of tasks, however their  *)
(* list operations are preempted and overlap.  As long as none was torn,   *)
(* the list holds the tasks it should, and no task that has returned is    *)
(* resumed.                                                                *)
EXTENDS Scheduler, FiniteSetTheorems, TLAPS

(***************************************************************************)
(* What a list operation has read and will still store: the links on its   *)
(* path are in the order of the list, and the link it holds is older than  *)
(* all of them.                                                            *)
(***************************************************************************)
OpDescends(o, m) ==
  /\ o.link <= m
  /\ \A i \in 1 .. Len(o.path) : o.path[i] <= m
  /\ \A i \in 1 .. Len(o.path) - 1 : o.path[i + 1] < o.path[i]
  /\ o.path # <<>> => o.link < o.path[Len(o.path)]

\* The inductive invariant: the stored links descend, and so do the ones in flight.
ListInv ==
  /\ elements \in Tasks \union {Nil}
  /\ next \in [Tasks -> Tasks \union {Nil}]
  /\ size \in Int
  /\ made \in 0 .. MaxTasks
  /\ op \in [Actors -> Ops]
  /\ ListDescends
  /\ \A a \in Actors : OpDescends(op[a], made)

\* NoOp, and an operation that begins with a link of the list, descend.
LEMMA FreshDescends ==
  ASSUME NEW m \in Nat, NEW p \in Tasks \union {Nil}, p <= m,
         NEW s \in {"none", "store", "seek"}, NEW t \in Tasks \union {Nil},
         NEW d \in {-1, 0, 1}
  PROVE  ListOp(s, t, p, d) \in Ops /\ OpDescends(ListOp(s, t, p, d), m)
<1> DEFINE o == ListOp(s, t, p, d)
<1>1. o.path = <<>> /\ Len(o.path) = 0 /\ o.link = p
  BY DEF ListOp
<1>2. OpDescends(o, m)
  BY <1>1 DEF OpDescends
<1>3. <<>> \in Seq(Tasks)
  OBVIOUS
<1>4. o \in Ops
  BY <1>3 DEF Ops, ListOp
<1>. QED
  BY <1>2, <1>4

\* A process outside of any list operation has nothing in flight.
LEMMA NoOpDescends ==
  ASSUME NEW m \in Nat
  PROVE  NoOp \in Ops /\ OpDescends(NoOp, m)
<1>1. Nil \in Tasks \union {Nil} /\ Nil <= m
  BY DEF Nil
<1>. QED
  BY <1>1, FreshDescends DEF NoOp

(***************************************************************************)
(* A step that changes neither the list nor the links made, and one        *)
(* process's operation to one that descends, keeps the invariant.          *)
(***************************************************************************)
LEMMA OneOperation ==
  ASSUME ListInv, NEW a \in Actors, NEW o \in Ops, OpDescends(o, made),
         op' = [op EXCEPT ![a] = o],
         UNCHANGED <<elements, next, made>>, size' \in Int
  PROVE  ListInv'
<1>1. op' \in [Actors -> Ops]
  BY DEF ListInv
<1>2. ListDescends'
  BY DEF ListInv, ListDescends, Tasks
<1>3. ASSUME NEW b \in Actors
      PROVE  OpDescends(op'[b], made')
  <2>1. OpDescends(op'[b], made)
    BY DEF ListInv
  <2>. QED
    BY <2>1 DEF OpDescends
<1>. QED
  BY <1>1, <1>2, <1>3 DEF ListInv, Tasks

\* Nothing is in the list, or in flight, at the start.
LEMMA InitListInv == Init => ListInv
<1>. SUFFICES ASSUME Init PROVE ListInv
  OBVIOUS
<1>. USE SchedulerAssumption
<1>1. made \in Nat /\ made \in 0 .. MaxTasks
  BY DEF Init
<1>2. \A a \in Actors : op[a] = NoOp
  BY DEF Init
<1>3. op \in [Actors -> Ops] /\ \A a \in Actors : OpDescends(op[a], made)
  BY <1>1, <1>2, NoOpDescends DEF Init
<1>4. next \in [Tasks -> Tasks \union {Nil}] /\ elements = 0
  BY DEF Init, Nil
<1>5. ListDescends
  BY DEF Init, ListDescends, Tasks, Nil
<1>. QED
  BY <1>1, <1>3, <1>4, <1>5 DEF Init, ListInv, Nil

\* List>>add: puts a link that is younger than all others in front of them.
LEMMA AddLinkListInv == \A a \in Actors : ListInv /\ AddLink(a) => ListInv'
<1>. SUFFICES ASSUME ListInv, NEW a \in Actors, AddLink(a) PROVE ListInv'
  OBVIOUS
<1>. USE SchedulerAssumption
<1> DEFINE p == made + 1
           o == ListOp("store", Nil, p, 1)
<1>1. /\ p \in Tasks /\ made' = p /\ made \in Nat /\ elements \in Int /\ elements <= made
      /\ next' = [next EXCEPT ![p] = elements]
      /\ op' = [op EXCEPT ![a] = o]
      /\ UNCHANGED <<elements, size>>
  BY DEF AddLink, ListInv, ListDescends, Tasks, Nil
<1>2. o \in Ops /\ OpDescends(o, p)
  BY <1>1, FreshDescends
<1>. HIDE DEF o
<1>5. op' \in [Actors -> Ops]
  BY <1>1, <1>2 DEF ListInv
<1>6. next' \in [Tasks -> Tasks \union {Nil}]
  BY <1>1 DEF ListInv
<1>7. ListDescends'
  <2>1. elements' <= made'
    BY <1>1
  <2>2. \A q \in Tasks : next'[q] < q
    BY <1>1 DEF ListInv, ListDescends
  <2>. QED
    BY <2>1, <2>2 DEF ListDescends, Tasks
<1>8. ASSUME NEW b \in Actors
      PROVE  OpDescends(op'[b], made')
  <2>1. CASE b = a
    <3>1. op'[b] = o
      BY <1>1, <2>1 DEF ListInv
    <3>. QED
      BY <1>1, <1>2, <3>1
  <2>2. CASE b # a
    <3>1. op'[b] = op[b] /\ op[b] \in Ops
      BY <1>1, <2>2 DEF ListInv
    <3>2. OpDescends(op[b], made)
      BY DEF ListInv
    <3>3. op[b].link \in Int /\ op[b].path \in Seq(Tasks)
      BY <3>1 DEF Ops, Tasks, Nil
    <3>4. \A i \in 1 .. Len(op[b].path) : op[b].path[i] \in Int
      BY <3>3 DEF Tasks
    <3>5. made' = made + 1 /\ made \in Int
      BY <1>1
    <3>6. OpDescends(op[b], made + 1)
      BY <3>2, <3>3, <3>4, <3>5 DEF OpDescends
    <3>. QED
      BY <3>1, <3>5, <3>6
  <2>. QED
    BY <2>1, <2>2
<1>9. elements' \in Tasks \union {Nil} /\ made' \in 0 .. MaxTasks /\ size' \in Int
  BY <1>1 DEF ListInv, Tasks
<1>. QED
  BY <1>5, <1>6, <1>7, <1>8, <1>9 DEF ListInv, Tasks

\* remove:ifAbsent: begins at the first link.
LEMMA RemoveListInv ==
  \A a \in Actors, p \in Tasks :
    ListInv /\ Remove(a, p) /\ UNCHANGED <<list, made>> => ListInv'
<1>. SUFFICES ASSUME ListInv, NEW a \in Actors, NEW p \in Tasks,
                     Remove(a, p), UNCHANGED <<list, made>>
              PROVE  ListInv'
  OBVIOUS
<1> DEFINE o == ListOp("seek", p, elements, -1)
<1>1. op' = [op EXCEPT ![a] = o]
  BY DEF Remove
<1>2. elements \in Tasks \union {Nil} /\ elements <= made /\ made \in Nat /\ size' \in Int
  BY SchedulerAssumption DEF ListInv, ListDescends, list
<1>3. o \in Ops /\ OpDescends(o, made)
  BY <1>2, FreshDescends
<1>. HIDE DEF o
<1>. QED
  BY <1>1, <1>2, <1>3, OneOperation DEF list

\* What a process that steps has in flight.
LEMMA OpFacts ==
  ASSUME ListInv, NEW a \in Actors
  PROVE  /\ op[a] \in Ops /\ OpDescends(op[a], made)
         /\ op[a].link \in Tasks \union {Nil} /\ op[a].link \in Int
         /\ op[a].path \in Seq(Tasks) /\ Len(op[a].path) \in Nat
         /\ \A i \in 1 .. Len(op[a].path) : op[a].path[i] \in Tasks /\ op[a].path[i] \in Int
         /\ made \in Int
<1>1. op[a] \in Ops /\ OpDescends(op[a], made)
  BY DEF ListInv
<1>2. op[a].link \in Tasks \union {Nil} /\ op[a].path \in Seq(Tasks)
  BY <1>1 DEF Ops
<1>3. op[a].link \in Int
  BY <1>2 DEF Tasks, Nil
<1>4. Len(op[a].path) \in Nat /\ \A i \in 1 .. Len(op[a].path) : op[a].path[i] \in Tasks
  BY <1>2
<1>. QED
  BY <1>1, <1>2, <1>3, <1>4 DEF ListInv, Tasks

\* Reading on, finding the task and the two steps on size store no link.
LEMMA ReadListInv ==
  \A a \in Actors :
    ListInv /\ (Absent(a) \/ Seek(a) \/ Found(a) \/ ReadSize(a) \/ StoreSize(a)) => ListInv'
<1>. SUFFICES ASSUME ListInv, NEW a \in Actors,
                     Absent(a) \/ Seek(a) \/ Found(a) \/ ReadSize(a) \/ StoreSize(a)
              PROVE  ListInv'
  OBVIOUS
<1>. USE SchedulerAssumption
<1>0. made \in Nat /\ NoOp \in Ops /\ OpDescends(NoOp, made)
  BY NoOpDescends DEF ListInv
<1>1. CASE Absent(a)
  BY <1>0, <1>1, OneOperation DEF Absent, list, ListInv
<1>2. CASE Seek(a)
  <2> DEFINE c == op[a]
             o == [c EXCEPT !.link = next[c.link], !.path = Append(c.path, c.link)]
  <2>1. c.link \in Tasks /\ next[c.link] \in Tasks \union {Nil} /\ next[c.link] < c.link
    BY <1>2, OpFacts DEF Seek, ListInv, ListDescends
  <2>2. op' = [op EXCEPT ![a] = o] /\ UNCHANGED <<elements, next, made>> /\ size' \in Int
    BY <1>2 DEF Seek, list, ListInv
  <2>3. Append(c.path, c.link) \in Seq(Tasks)
    BY <2>1, OpFacts
  <2>4. o \in Ops /\ o.link = next[c.link] /\ o.path = Append(c.path, c.link)
    BY <2>1, <2>3, OpFacts DEF Ops
  <2>5. /\ Len(o.path) = Len(c.path) + 1
        /\ \A i \in 1 .. Len(c.path) : o.path[i] = c.path[i]
        /\ o.path[Len(c.path) + 1] = c.link
    BY <2>1, <2>4, OpFacts
  <2>6. next[c.link] \in Int /\ c.link \in Int
    BY <2>1 DEF Tasks, Nil
  <2>7. OpDescends(o, made)
    <3> HIDE DEF o
    <3>1. o.link <= made
      BY <2>1, <2>4, <2>6, OpFacts DEF OpDescends
    <3>2. ASSUME NEW i \in 1 .. Len(o.path) PROVE o.path[i] <= made
      <4>1. i \in 1 .. Len(c.path) \/ i = Len(c.path) + 1
        BY <2>5, OpFacts
      <4>. QED
        BY <2>5, <4>1, OpFacts DEF OpDescends
    <3>3. \A i \in 1 .. Len(o.path) - 1 : o.path[i + 1] < o.path[i]
      <4>. SUFFICES ASSUME NEW i \in 1 .. Len(c.path) PROVE o.path[i + 1] < o.path[i]
        BY <2>5, OpFacts
      <4>1. CASE i = Len(c.path)
        <5>1. c.path # <<>>
          BY <4>1, OpFacts
        <5>. QED
          BY <2>5, <4>1, <5>1, OpFacts DEF OpDescends
      <4>2. CASE i # Len(c.path)
        <5>1. i \in 1 .. Len(c.path) - 1 /\ i + 1 \in 1 .. Len(c.path)
          BY <4>2, OpFacts
        <5>. QED
          BY <2>5, <5>1, OpFacts DEF OpDescends
      <4>. QED
        BY <4>1, <4>2
    <3>. QED
      BY <2>1, <2>4, <2>5, <3>1, <3>2, <3>3 DEF OpDescends
  <2>. HIDE DEF o
  <2>. QED
    BY <2>2, <2>4, <2>7, OneOperation
<1>3. CASE Found(a)
  <2> DEFINE c == op[a]
             o == [c EXCEPT !.link = next[c.link], !.step = "relink"]
  <2>1. c.link \in Tasks /\ next[c.link] \in Tasks \union {Nil} /\ next[c.link] < c.link
    BY <1>3, OpFacts DEF Found, ListInv, ListDescends
  <2>2. op' = [op EXCEPT ![a] = o] /\ UNCHANGED <<elements, next, made>> /\ size' \in Int
    BY <1>3 DEF Found, list, ListInv
  <2>3. o \in Ops /\ o.link = next[c.link] /\ o.path = c.path
    BY <2>1, OpFacts DEF Ops
  <2>4. next[c.link] \in Int /\ c.link \in Int
    BY <2>1 DEF Tasks, Nil
  <2>5. OpDescends(o, made)
    <3> HIDE DEF o
    <3>1. c.path # <<>> => Len(c.path) \in 1 .. Len(c.path)
      BY OpFacts
    <3>. QED
      BY <2>1, <2>3, <2>4, <3>1, OpFacts DEF OpDescends
  <2>. HIDE DEF o
  <2>. QED
    BY <2>2, <2>3, <2>5, OneOperation
<1>4. CASE ReadSize(a)
  <2> DEFINE c == op[a]
             o == [c EXCEPT !.step = "count", !.read = size]
  <2>1. op' = [op EXCEPT ![a] = o] /\ UNCHANGED <<elements, next, made>> /\ size' \in Int
    BY <1>4 DEF ReadSize, list, ListInv
  <2>2. o \in Ops /\ o.link = c.link /\ o.path = c.path
    BY OpFacts DEF Ops, ListInv
  <2>. HIDE DEF o
  <2>3. OpDescends(o, made)
    BY <2>2, OpFacts DEF OpDescends
  <2>. QED
    BY <2>1, <2>2, <2>3, OneOperation
<1>5. CASE StoreSize(a)
  <2>1. op[a].read + op[a].delta \in Int
    BY OpFacts DEF Ops
  <2>. QED
    BY <1>0, <1>5, <2>1, OneOperation DEF StoreSize
<1>. QED
  BY <1>1, <1>2, <1>3, <1>4, <1>5

\* The way back of remove:ifAbsent: stores a link in one that is younger.
LEMMA RelinkListInv == \A a \in Actors : ListInv /\ Relink(a) => ListInv'
<1>. SUFFICES ASSUME ListInv, NEW a \in Actors, Relink(a) PROVE ListInv'
  OBVIOUS
<1> DEFINE c == op[a]
           n == Len(c.path)
           last == c.path[n]
           rest == SubSeq(c.path, 1, n - 1)
           o == [c EXCEPT !.link = last, !.path = rest]
<1>1. n \in Nat /\ n > 0 /\ n \in 1 .. n /\ c.path # <<>>
  BY OpFacts DEF Relink
<1>2. /\ last \in Tasks /\ last \in Int /\ last <= made
      /\ c.link \in Tasks \union {Nil} /\ c.link < last
  BY <1>1, OpFacts DEF OpDescends
<1>3. /\ next' = [next EXCEPT ![last] = c.link]
      /\ op' = [op EXCEPT ![a] = o]
      /\ UNCHANGED <<elements, size, made>>
  BY DEF Relink, ListInv
<1>4. /\ rest \in Seq(Tasks) /\ Len(rest) = n - 1
      /\ \A i \in 1 .. n - 1 : rest[i] = c.path[i]
  BY <1>1, OpFacts
<1>5. o \in Ops /\ o.link = last /\ o.path = rest
  BY <1>2, <1>4, OpFacts DEF Ops
<1>6. OpDescends(o, made)
  <2>. HIDE DEF o, rest
  <2>0. /\ \A i \in 1 .. n : c.path[i] <= made
        /\ \A i \in 1 .. n - 1 : c.path[i + 1] < c.path[i]
    BY OpFacts DEF OpDescends
  <2>1. ASSUME NEW i \in 1 .. Len(o.path) PROVE o.path[i] <= made
    <3>1. i \in 1 .. n - 1 /\ i \in 1 .. n
      BY <1>1, <1>4, <1>5
    <3>. QED
      BY <1>4, <1>5, <2>0, <3>1
  <2>2. ASSUME NEW i \in 1 .. Len(o.path) - 1 PROVE o.path[i + 1] < o.path[i]
    <3>1. i \in 1 .. n - 1 /\ i + 1 \in 1 .. n - 1
      BY <1>1, <1>4, <1>5
    <3>. QED
      BY <1>4, <1>5, <2>0, <3>1
  <2>3. o.path # <<>> => o.link < o.path[Len(o.path)]
    <3>. SUFFICES ASSUME rest # <<>> PROVE last < rest[n - 1]
      BY <1>1, <1>4, <1>5
    <3>1. n - 1 \in 1 .. n - 1 /\ (n - 1) + 1 = n
      BY <1>1, <1>4
    <3>. QED
      BY <1>4, <3>1, OpFacts DEF OpDescends
  <2>. QED
    BY <1>2, <1>5, <2>1, <2>2, <2>3 DEF OpDescends
<1>. HIDE DEF o, last
<1>7. next' \in [Tasks -> Tasks \union {Nil}]
  BY <1>2, <1>3 DEF ListInv
<1>8. ListDescends'
  <2>1. \A p \in Tasks : next'[p] < p
    BY <1>2, <1>3 DEF ListInv, ListDescends
  <2>. QED
    BY <1>3, <2>1 DEF ListInv, ListDescends, Tasks
<1>9. op' \in [Actors -> Ops] /\ \A b \in Actors : OpDescends(op'[b], made')
  BY <1>3, <1>5, <1>6 DEF ListInv
<1>. QED
  BY <1>3, <1>7, <1>8, <1>9 DEF ListInv, Tasks

\* The first link becomes the one the operation holds.
LEMMA StoreElementsListInv == \A a \in Actors : ListInv /\ StoreElements(a) => ListInv'
<1>. SUFFICES ASSUME ListInv, NEW a \in Actors, StoreElements(a) PROVE ListInv'
  OBVIOUS
<1> DEFINE c == op[a]
           o == [c EXCEPT !.step = "read"]
<1>1. elements' = c.link /\ op' = [op EXCEPT ![a] = o] /\ UNCHANGED <<size, next, made>>
  BY DEF StoreElements, ListInv
<1>2. o \in Ops /\ o.link = c.link /\ o.path = c.path
  BY OpFacts DEF Ops
<1>3. c.link \in Tasks \union {Nil} /\ c.link <= made
  BY OpFacts DEF OpDescends
<1>. HIDE DEF o
<1>4. OpDescends(o, made)
  BY <1>2, OpFacts DEF OpDescends
<1>5. op' \in [Actors -> Ops] /\ \A b \in Actors : OpDescends(op'[b], made')
  BY <1>1, <1>2, <1>4 DEF ListInv
<1>6. ListDescends'
  BY <1>1, <1>3 DEF ListInv, ListDescends, Tasks
<1>. QED
  BY <1>1, <1>3, <1>5, <1>6 DEF ListInv, Tasks

\* The variables of the scheduler's loop: only a task has a slice, only a
\* finished task is removed.
LoopInv ==
  /\ pc \in {"setup", "test", "walk", "slice", "finish", "remove", "done", "halted", "crashed"}
  /\ cursor \in Tasks \union {Nil}
  /\ pc = "slice" => cursor # Nil
  /\ finished \in Seq(Tasks)
  /\ pc = "remove" => finished # <<>>
  /\ stop \in BOOLEAN
  /\ returned \in SUBSET Tasks
  /\ ended \in SUBSET Tasks /\ ends \in 0 .. MaxEnds
  /\ torn \in BOOLEAN

\* The sequence of finished tasks: adding to it, its head and its tail.
LEMMA FinishedSeq ==
  ASSUME NEW S, NEW s \in Seq(S)
  PROVE  /\ \A e \in S : <<e>> \o s \in Seq(S)
         /\ s # <<>> => Head(s) \in S /\ Tail(s) \in Seq(S)
OBVIOUS

\* The ghost torn stays a Boolean.
LEMMA TornBoolean == \A x, y : torn' = (x \/ y) => torn' \in BOOLEAN
BY Zenon

\* List operations: the variables of the loop.
LEMMA ListStepLoopInv == \A a \in Actors : LoopInv /\ ListStep(a) => LoopInv'
<1>. SUFFICES ASSUME LoopInv, NEW a \in Actors, ListStep(a) PROVE LoopInv'
  OBVIOUS
<1>1. CASE Absent(a)
  BY <1>1 DEF Absent, LoopInv, ghosts
<1>2. CASE StoreSize(a)
  <2>1. finished' \in Seq(Tasks)
    BY <1>2, FinishedSeq DEF StoreSize, LoopInv
  <2>. QED
    BY <1>2, <2>1 DEF StoreSize, LoopInv, ghosts
<1>3. CASE UNCHANGED <<loop, ghosts>>
  BY <1>3 DEF LoopInv, loop, ghosts
<1>. QED
  BY <1>1, <1>2, <1>3 DEF ListStep, Seek, Found, Relink, StoreElements, ReadSize

(***************************************************************************)
(* Every other step: it leaves the list alone, or begins an operation of   *)
(* it.                                                                     *)
(***************************************************************************)
LEMMA LoopStepInv ==
  /\ \A a \in Actors : LoopInv /\ AddLink(a) => LoopInv'
  /\ \A a \in Actors, p \in Tasks : LoopInv /\ EndProcess(a, p) => LoopInv'
  /\ ListInv /\ LoopInv /\ (\/ Run \/ RunOnce \/ DoExecute \/ TimeExpired \/ Returned
                            \/ Stop \/ WalkDone \/ RemoveFinished \/ PassDone) => LoopInv'
<1>. USE SchedulerAssumption
<1>1. ASSUME LoopInv, NEW a \in Actors, AddLink(a) PROVE LoopInv'
  <2>1. torn' \in BOOLEAN
    BY <1>1, TornBoolean DEF AddLink
  <2>. QED
    BY <1>1, <2>1 DEF AddLink, LoopInv, loop
<1>2. ASSUME LoopInv, NEW a \in Actors, NEW p \in Tasks, EndProcess(a, p) PROVE LoopInv'
  <2>1. torn' \in BOOLEAN
    BY <1>2, TornBoolean DEF EndProcess, Remove
  <2>2. ends' \in 0 .. MaxEnds
    BY <1>2 DEF EndProcess, LoopInv
  <2>. QED
    BY <1>2, <2>1, <2>2 DEF EndProcess, LoopInv, loop
<1>3. ASSUME ListInv, LoopInv, TimeExpired PROVE LoopInv'
  <2>1. torn' \in BOOLEAN
    BY <1>3, TornBoolean DEF TimeExpired
  <2>2. cursor' \in Tasks \union {Nil}
    BY <1>3 DEF TimeExpired, LoopInv, ListInv
  <2>. QED
    BY <1>3, <2>1, <2>2 DEF TimeExpired, LoopInv
<1>4. ASSUME ListInv, LoopInv, Returned PROVE LoopInv'
  <2>1. cursor \in Tasks /\ cursor' \in Tasks \union {Nil}
    BY <1>4 DEF Returned, LoopInv, ListInv
  <2>2. finished' \in Seq(Tasks)
    BY <1>4, <2>1, FinishedSeq DEF Returned, LoopInv
  <2>. QED
    BY <1>4, <2>1, <2>2 DEF Returned, LoopInv, ghosts
<1>5. ASSUME LoopInv, RemoveFinished PROVE LoopInv'
  <2>1. torn' \in BOOLEAN
    BY <1>5, TornBoolean DEF RemoveFinished, Remove
  <2>. QED
    BY <1>5, <2>1 DEF RemoveFinished, LoopInv
<1>6. ASSUME LoopInv, PassDone PROVE LoopInv'
  <2>1. stop' \in BOOLEAN
    BY <1>6, Zenon DEF PassDone
  <2>. QED
    BY <1>6, <2>1 DEF PassDone, LoopInv, ghosts
<1>7. ASSUME LoopInv, Run PROVE LoopInv'
  <2>1. stop' \in BOOLEAN
    BY <1>7, Zenon DEF Run
  <2>. QED
    BY <1>7, <2>1 DEF Run, LoopInv, ghosts
<1>8. ASSUME LoopInv, Stop PROVE LoopInv'
  <2>1. stop' \in BOOLEAN
    BY <1>8, Zenon DEF Stop
  <2>. QED
    BY <1>8, <2>1 DEF Stop, LoopInv, ghosts
<1>9. ASSUME ListInv, LoopInv, RunOnce PROVE LoopInv'
  <2>1. <<>> \in Seq(Tasks)
    OBVIOUS
  <2>. QED
    BY <1>9, <2>1 DEF RunOnce, LoopInv, ListInv, ghosts
<1>10. ASSUME LoopInv, DoExecute PROVE LoopInv'
  BY <1>10 DEF DoExecute, LoopInv, ghosts
<1>11. ASSUME LoopInv, WalkDone PROVE LoopInv'
  BY <1>11 DEF WalkDone, LoopInv, ghosts
<1>. QED
  BY <1>1, <1>2, <1>3, <1>4, <1>5, <1>6, <1>7, <1>8, <1>9, <1>10, <1>11

\* Every step of the specification keeps the links descending.
LEMMA StepListInv == ListInv /\ LoopInv /\ [Next]_vars => ListInv'
<1>. SUFFICES ASSUME ListInv, LoopInv, [Next]_vars PROVE ListInv'
  OBVIOUS
<1>1. ASSUME NEW a \in Actors, NEW p \in Links, EndProcess(a, p) PROVE ListInv'
  <2>1. p \in Tasks
    BY SchedulerAssumption DEF ListInv, Links, Tasks
  <2>. QED
    BY <1>1, <2>1, RemoveListInv DEF EndProcess
<1>2. ASSUME NEW a \in Actors, ListStep(a) PROVE ListInv'
  BY <1>2, ReadListInv, RelinkListInv, StoreElementsListInv DEF ListStep
<1>3. CASE RemoveFinished
  <2>1. Head(finished) \in Tasks
    BY <1>3, FinishedSeq DEF RemoveFinished, LoopInv
  <2>2. Host \in Actors
    BY DEF Actors
  <2>. QED
    BY <1>3, <2>1, <2>2, RemoveListInv DEF RemoveFinished
<1>4. CASE UNCHANGED <<list, made, op>>
  <2>1. /\ elements' = elements /\ size' = size /\ next' = next
        /\ made' = made /\ op' = op
    BY <1>4 DEF list
  <2>2. ListDescends'
    BY <2>1 DEF ListInv, ListDescends, Tasks
  <2>3. \A a \in Actors : OpDescends(op'[a], made')
    BY <2>1 DEF ListInv
  <2>. QED
    BY <2>1, <2>2, <2>3 DEF ListInv, Tasks
<1>5. CASE UNCHANGED vars
  BY <1>4, <1>5 DEF vars
<1>. QED
  BY <1>1, <1>2, <1>3, <1>4, <1>5, AddLinkListInv
     DEF Next, Run, RunOnce, DoExecute, TimeExpired, Returned, Stop, WalkDone, PassDone

\* Every step of the specification keeps the loop's invariant.
LEMMA StepLoopInv == ListInv /\ LoopInv /\ [Next]_vars => LoopInv'
<1>. SUFFICES ASSUME ListInv, LoopInv, [Next]_vars PROVE LoopInv'
  OBVIOUS
<1>1. ASSUME NEW a \in Actors, NEW p \in Links, EndProcess(a, p) PROVE LoopInv'
  <2>1. p \in Tasks
    BY SchedulerAssumption DEF ListInv, Links, Tasks
  <2>. QED
    BY <1>1, <2>1, LoopStepInv
<1>2. CASE UNCHANGED vars
  BY <1>2 DEF LoopInv, vars, loop, ghosts
<1>. QED
  BY <1>1, <1>2, LoopStepInv, ListStepLoopInv DEF Next

\* At the start the loop has not begun.
LEMMA InitLoopInv == Init => LoopInv
<1>. SUFFICES ASSUME Init PROVE LoopInv
  OBVIOUS
<1>1. stop \in BOOLEAN /\ torn \in BOOLEAN
  BY Zenon DEF Init
<1>2. <<>> \in Seq(Tasks)
  OBVIOUS
<1>. QED
  BY <1>1, <1>2, SchedulerAssumption DEF Init, LoopInv

(***************************************************************************)
(* The scheduler's variables, and the list operations the preempted tasks  *)
(* are in, have their types: doExecute: is only sent to a task, and what   *)
(* runOnce removes is one.                                                 *)
(***************************************************************************)
THEOREM SchedulerTypeOK == Spec => []TypeOK
<1>1. Init => ListInv /\ LoopInv
  BY InitListInv, InitLoopInv
<1>2. ListInv /\ LoopInv /\ [Next]_vars => (ListInv /\ LoopInv)'
  BY StepListInv, StepLoopInv
<1>3. ListInv /\ LoopInv => TypeOK
  BY DEF ListInv, LoopInv, TypeOK
<1>. QED
  BY <1>1, <1>2, <1>3, PTL DEF Spec

(***************************************************************************)
(* However many tasks add: and remove: processes, and wherever the end of  *)
(* a slice cuts List>>add: and Link>>remove:ifAbsent: in two, no link ever *)
(* leads to itself or to a younger one: tasks do: cannot run in a circle.  *)
(***************************************************************************)
THEOREM ListAcyclic == Spec => []ListDescends
<1>1. Init => ListInv /\ LoopInv
  BY InitListInv, InitLoopInv
<1>2. ListInv /\ LoopInv /\ [Next]_vars => (ListInv /\ LoopInv)'
  BY StepListInv, StepLoopInv
<1>3. ListInv => ListDescends
  BY DEF ListInv
<1>. QED
  BY <1>1, <1>2, <1>3, PTL DEF Spec
-----------------------------------------------------------------------------
(***************************************************************************)
(* Chains of links.                                                        *)
(***************************************************************************)
\* What next can be: every link leads to an older one or to none.
Linking == {n \in [Tasks -> Tasks \union {Nil}] : \A p \in Tasks : n[p] < p}

\* What holds c, and is not led out of, holds the chain.
LEMMA ChainLeast ==
  ASSUME NEW n, NEW c, NEW S \in SUBSET Tasks,
         c \in S \union {Nil}, \A q \in S : n[q] \in S \union {Nil}
  PROVE  ChainOf(n, c) \subseteq S
BY DEF ChainOf

\* The chain itself is such a set.
LEMMA ChainClosed ==
  ASSUME NEW n \in Linking, NEW c \in Tasks \union {Nil}
  PROVE  /\ ChainOf(n, c) \in SUBSET Tasks
         /\ c \in ChainOf(n, c) \union {Nil}
         /\ \A q \in ChainOf(n, c) : n[q] \in ChainOf(n, c) \union {Nil}
<1>1. \A q \in ChainOf(n, c) : n[q] \in Tasks \union {Nil}
  BY DEF ChainOf, Linking
<1>. QED
  BY <1>1 DEF ChainOf

\* The chain is empty, or its first link and the chain from the second one on.
LEMMA ChainSteps ==
  ASSUME NEW n \in Linking
  PROVE  /\ ChainOf(n, Nil) = {}
         /\ \A c \in Tasks : ChainOf(n, c) = {c} \union ChainOf(n, n[c])
<1>0. Nil \notin Tasks
  BY DEF Tasks, Nil
<1>1. ChainOf(n, Nil) \subseteq {}
  <2> DEFINE S == {}
  <2>1. S \in SUBSET Tasks /\ Nil \in S \union {Nil} /\ \A q \in S : n[q] \in S \union {Nil}
    OBVIOUS
  <2>. HIDE DEF S
  <2>2. ChainOf(n, Nil) \subseteq S
    BY <2>1, ChainLeast
  <2>. QED
    BY <2>2 DEF S
<1>2. ASSUME NEW c \in Tasks PROVE ChainOf(n, c) = {c} \union ChainOf(n, n[c])
  <2>1. n[c] \in Tasks \union {Nil}
    BY DEF Linking
  <2>2. ChainOf(n, c) \subseteq {c} \union ChainOf(n, n[c])
    <3> DEFINE S == {c} \union ChainOf(n, n[c])
    <3>1. /\ ChainOf(n, n[c]) \in SUBSET Tasks
          /\ n[c] \in ChainOf(n, n[c]) \union {Nil}
          /\ \A q \in ChainOf(n, n[c]) : n[q] \in ChainOf(n, n[c]) \union {Nil}
      BY <2>1, ChainClosed
    <3>2. S \in SUBSET Tasks /\ c \in S \union {Nil} /\ \A q \in S : n[q] \in S \union {Nil}
      BY <3>1
    <3>. HIDE DEF S
    <3>3. ChainOf(n, c) \subseteq S
      BY <3>2, ChainLeast
    <3>. QED
      BY <3>3 DEF S
  <2>3. /\ ChainOf(n, c) \in SUBSET Tasks /\ c \in ChainOf(n, c)
        /\ \A q \in ChainOf(n, c) : n[q] \in ChainOf(n, c) \union {Nil}
    BY <1>0, ChainClosed
  <2>4. ChainOf(n, n[c]) \subseteq ChainOf(n, c)
    BY <2>3, ChainLeast
  <2>. QED
    BY <2>2, <2>3, <2>4
<1>. QED
  BY <1>1, <1>2

\* A chain descends.
LEMMA ChainBelow ==
  ASSUME NEW n \in Linking, NEW c \in Tasks \union {Nil}
  PROVE  \A p \in ChainOf(n, c) : p \in Tasks /\ p <= c
<1> DEFINE S == {p \in Tasks : p <= c}
<1>1. c \in S \union {Nil}
  BY DEF Tasks, Nil
<1>2. \A q \in S : n[q] \in S \union {Nil}
  <2>. TAKE q \in S
  <2>1. n[q] < q /\ n[q] \in Tasks \union {Nil}
    BY DEF Linking
  <2>. QED
    BY <2>1 DEF Tasks, Nil
<1>3. ChainOf(n, c) \subseteq S
  BY <1>1, <1>2, ChainLeast
<1>. QED
  BY <1>3

\* The chain from a link of the chain is part of it.
LEMMA ChainWithin ==
  ASSUME NEW n \in Linking, NEW c \in Tasks \union {Nil}, NEW d \in ChainOf(n, c) \union {Nil}
  PROVE  ChainOf(n, d) \subseteq ChainOf(n, c)
BY ChainClosed, ChainLeast

\* Of two links of a chain one is on the chain from the other.
LEMMA ChainLinear ==
  ASSUME NEW n \in Linking, NEW c \in Tasks \union {Nil},
         NEW p \in ChainOf(n, c), NEW q \in ChainOf(n, c)
  PROVE  p \in ChainOf(n, q) \/ q \in ChainOf(n, p)
<1> DEFINE S == {x \in ChainOf(n, c) : x \in ChainOf(n, q) \/ q \in ChainOf(n, x)}
<1>0. /\ ChainOf(n, c) \in SUBSET Tasks /\ c \in ChainOf(n, c) \union {Nil} /\ q \in Tasks
      /\ \A x \in ChainOf(n, c) : n[x] \in ChainOf(n, c) \union {Nil}
  BY ChainClosed
<1>1. c \in S \union {Nil}
  BY <1>0
<1>2. ASSUME NEW x \in S PROVE n[x] \in S \union {Nil}
  <2>. SUFFICES ASSUME n[x] # Nil PROVE n[x] \in S
    OBVIOUS
  <2>1. x \in Tasks /\ n[x] \in ChainOf(n, c)
    BY <1>0
  <2>2. CASE x \in ChainOf(n, q)
    <3>1. n[x] \in ChainOf(n, q)
      BY <1>0, <2>2, ChainClosed
    <3>. QED
      BY <2>1, <3>1
  <2>3. CASE q \in ChainOf(n, x)
    <3>1. q = x \/ q \in ChainOf(n, n[x])
      BY <2>1, <2>3, ChainSteps
    <3>2. CASE q = x
      <4>1. n[x] \in ChainOf(n, n[x]) /\ ChainOf(n, x) = {x} \union ChainOf(n, n[x])
        BY <1>0, <2>1, ChainSteps, ChainClosed
      <4>. QED
        BY <2>1, <3>2, <4>1
    <3>. QED
      BY <2>1, <3>1, <3>2
  <2>. QED
    BY <2>2, <2>3
<1>3. S \in SUBSET Tasks
  BY <1>0
<1>4. ChainOf(n, c) \subseteq S
  BY <1>1, <1>2, <1>3, ChainLeast
<1>. QED
  BY <1>4

\* No two links of a chain have the same next one, and none has the first.
LEMMA ChainInjective ==
  ASSUME NEW n \in Linking, NEW c \in Tasks \union {Nil}, NEW p \in ChainOf(n, c)
  PROVE  /\ n[p] # c
         /\ \A q \in ChainOf(n, c) : n[p] = n[q] /\ n[p] # Nil => p = q
<1>0. p \in Tasks /\ p <= c /\ n[p] < p /\ n[p] \in Tasks \union {Nil}
  BY ChainBelow DEF Linking
<1>1. n[p] # c
  BY <1>0 DEF Tasks, Nil
<1>2. ASSUME NEW x \in ChainOf(n, c), NEW y \in ChainOf(n, c),
             n[x] = n[y], n[x] # Nil, x \in ChainOf(n, y)
      PROVE  x = y
  <2>1. x \in Tasks /\ y \in Tasks /\ n[y] < y /\ n[x] < x /\ n[y] \in Tasks
    BY <1>2, ChainBelow DEF Linking
  <2>2. x = y \/ x \in ChainOf(n, n[y])
    BY <1>2, <2>1, ChainSteps
  <2>3. x \in ChainOf(n, n[y]) => x <= n[y]
    BY <2>1, ChainBelow
  <2>. QED
    BY <1>2, <2>1, <2>2, <2>3 DEF Tasks
<1>3. ASSUME NEW q \in ChainOf(n, c), n[p] = n[q], n[p] # Nil PROVE p = q
  <2>1. p \in ChainOf(n, q) \/ q \in ChainOf(n, p)
    BY ChainLinear
  <2>. QED
    BY <1>2, <1>3, <2>1
<1>. QED
  BY <1>1, <1>3

\* A change behind the chain does not concern it.
LEMMA ChainSame ==
  ASSUME NEW n \in Linking, NEW m \in Linking, NEW c \in Tasks \union {Nil},
         \A q \in ChainOf(n, c) : m[q] = n[q]
  PROVE  ChainOf(m, c) = ChainOf(n, c)
<1>1. /\ ChainOf(n, c) \in SUBSET Tasks /\ c \in ChainOf(n, c) \union {Nil}
      /\ \A q \in ChainOf(n, c) : n[q] \in ChainOf(n, c) \union {Nil}
  BY ChainClosed
<1>2. ChainOf(m, c) \subseteq ChainOf(n, c)
  BY <1>1, ChainLeast
<1>3. /\ ChainOf(m, c) \in SUBSET Tasks /\ c \in ChainOf(m, c) \union {Nil}
      /\ \A q \in ChainOf(m, c) : m[q] \in ChainOf(m, c) \union {Nil}
  BY ChainClosed
<1>4. \A q \in ChainOf(m, c) : n[q] \in ChainOf(m, c) \union {Nil}
  BY <1>2, <1>3
<1>5. ChainOf(n, c) \subseteq ChainOf(m, c)
  BY <1>3, <1>4, ChainLeast
<1>. QED
  BY <1>2, <1>5

\* Linking p past the next one t takes t out of the chain, and nothing else.
LEMMA ChainCut ==
  ASSUME NEW n \in Linking, NEW m \in Linking, NEW c \in Tasks \union {Nil},
         NEW p \in ChainOf(n, c), NEW t \in Tasks, n[p] = t,
         m[p] = n[t], \A q \in Tasks : q # p => m[q] = n[q]
  PROVE  ChainOf(m, c) = ChainOf(n, c) \ {t}
<1>0. Nil \notin Tasks
  BY DEF Tasks, Nil
<1>1. /\ ChainOf(n, c) \in SUBSET Tasks /\ c \in ChainOf(n, c) \union {Nil} /\ p \in Tasks
      /\ \A q \in ChainOf(n, c) : n[q] \in ChainOf(n, c) \union {Nil}
  BY ChainClosed
<1>2. t \in ChainOf(n, c) /\ n[t] \in ChainOf(n, c) \union {Nil} /\ n[t] # t /\ t # c
  <2>1. t \in ChainOf(n, c) /\ t # c
    BY <1>0, <1>1, ChainInjective
  <2>2. n[t] < t /\ n[t] \in Tasks \union {Nil}
    BY DEF Linking
  <2>. QED
    BY <1>1, <2>1, <2>2 DEF Tasks, Nil
<1>3. m[p] = n[t] /\ \A q \in Tasks : q # p => m[q] = n[q]
  OBVIOUS
<1>4. ChainOf(m, c) \subseteq ChainOf(n, c) \ {t}
  <2> DEFINE S == ChainOf(n, c) \ {t}
  <2>1. \A q \in S : q # p => n[q] # t
    BY <1>0, ChainInjective
  <2>2. ASSUME NEW q \in S PROVE m[q] \in S \union {Nil}
    <3>1. CASE q = p
      BY <1>2, <1>3, <3>1
    <3>2. CASE q # p
      BY <1>1, <1>3, <2>1, <3>2
    <3>. QED
      BY <3>1, <3>2
  <2>3. S \in SUBSET Tasks /\ c \in S \union {Nil}
    BY <1>1, <1>2
  <2>. HIDE DEF S
  <2>4. ChainOf(m, c) \subseteq S
    BY <2>2, <2>3, ChainLeast
  <2>. QED
    BY <2>4 DEF S
<1>5. /\ ChainOf(m, c) \in SUBSET Tasks /\ c \in ChainOf(m, c) \union {Nil}
      /\ \A q \in ChainOf(m, c) : m[q] \in ChainOf(m, c) \union {Nil}
  BY ChainClosed
<1>6. p \in ChainOf(m, c)
  <2>. SUFFICES ASSUME p \notin ChainOf(m, c) PROVE FALSE
    OBVIOUS
  <2>1. \A q \in ChainOf(m, c) : n[q] \in ChainOf(m, c) \union {Nil}
    BY <1>3, <1>5
  <2>2. ChainOf(n, c) \subseteq ChainOf(m, c)
    BY <1>5, <2>1, ChainLeast
  <2>. QED
    BY <2>2
<1>7. ChainOf(n, c) \subseteq ChainOf(m, c) \union {t}
  <2> DEFINE S == ChainOf(m, c) \union {t}
  <2>1. n[t] \in ChainOf(m, c) \union {Nil}
    BY <1>3, <1>5, <1>6
  <2>2. ASSUME NEW q \in S PROVE n[q] \in S \union {Nil}
    <3>1. CASE q = t \/ q = p
      BY <2>1, <3>1
    <3>2. CASE q \in ChainOf(m, c) /\ q # p
      BY <1>3, <1>5, <3>2
    <3>. QED
      BY <3>1, <3>2
  <2>3. S \in SUBSET Tasks /\ c \in S \union {Nil}
    BY <1>5
  <2>. HIDE DEF S
  <2>4. ChainOf(n, c) \subseteq S
    BY <2>2, <2>3, ChainLeast
  <2>. QED
    BY <2>4 DEF S
<1>. QED
  BY <1>4, <1>7

\* The length of a chain, with a link more or less.
LEMMA ChainLength ==
  ASSUME NEW S \in SUBSET Tasks
  PROVE  /\ IsFiniteSet(S) /\ Cardinality(S) \in Nat
         /\ \A p \in Tasks \ S : Cardinality(S \union {p}) = Cardinality(S) + 1
         /\ \A p \in S : Cardinality(S \ {p}) = Cardinality(S) - 1
<1>1. IsFiniteSet(Tasks)
  BY SchedulerAssumption, FS_Interval DEF Tasks
<1>2. IsFiniteSet(S)
  BY <1>1, FS_Subset
<1>. QED
  BY <1>2, FS_CardinalityType, FS_AddElement, FS_RemoveElement
-----------------------------------------------------------------------------
(***************************************************************************)
(* What the list holds while no operation was torn.                        *)
(***************************************************************************)
Listed == ChainOf(next, elements)
Ahead == ChainOf(next, cursor)      \* what tasks do: has not passed yet
Length == Cardinality(Listed)

\* No process but a is in a list operation.
Alone(a) == \A b \in Actors \ {a} : op[b].step = "none"

\* The link an operation came to its present one by.
Before(o) == IF o.path = <<>> THEN elements ELSE next[o.path[Len(o.path)]]

\* The path of an operation leads through the list, from its start on.
PathLinked(o) ==
  /\ o.path # <<>> => o.path[1] = elements
  /\ \A i \in 1 .. Len(o.path) - 1 : next[o.path[i]] = o.path[i + 1]
  /\ \A i \in 1 .. Len(o.path) : o.path[i] \in Listed /\ o.path[i] # o.task

\* The new link is complete, and not yet in the list.
Storing(o) ==
  /\ o.path = <<>> /\ o.delta = 1 /\ size = Length
  /\ o.link \in Links /\ next[o.link] = elements
  /\ o.link \notin Listed /\ o.link \notin ended \union returned

\* The task is not before the link the search has come to.
Seeking(o) ==
  /\ PathLinked(o) /\ o.delta = -1 /\ size = Length
  /\ Before(o) = o.link
  /\ o.task \in Listed => o.task \in ChainOf(next, o.link)
  /\ o.task \in ended \union returned

\* On the way back: the first store takes the task out, the others repeat
\* what is there.
Relinking(o) ==
  /\ PathLinked(o) /\ o.delta = -1 /\ o.task \in ended \union returned
  /\ \/ /\ o.task \in Tasks /\ o.task \in Listed
        /\ Before(o) = o.task /\ next[o.task] = o.link /\ size = Length
     \/ Before(o) = o.link /\ o.task \notin Listed /\ size = Length + 1

\* The list is changed, and size is behind.
Counting(o) ==
  /\ o.delta \in {-1, 1} /\ size = Length - o.delta
  /\ o.delta = -1 => o.task \notin Listed

\* Every member of the list, but for the link o adds or the task it removes.
Kept(o) ==
  /\ \A p \in Listed \intersect ended : o.step \in {"seek", "relink"} /\ o.task = p
  /\ \A p \in Links \ (ended \union returned) :
       p \in Listed \/ (o.step = "store" /\ o.link = p)

\* The list and size between the steps of the one operation o that is under way.
OpExact(o) ==
  /\ Kept(o)
  /\ o.step = "none" => size = Length
  /\ o.step = "store" => Storing(o)
  /\ o.step = "seek" => Seeking(o)
  /\ o.step = "relink" => Relinking(o)
  /\ o.step \in {"read", "count"} => Counting(o)
  /\ o.step = "count" => o.read = size

OneExact == \E a \in Actors : Alone(a) /\ \A o \in Ops : o = op[a] => OpExact(o)

InSeq(s) == {s[i] : i \in 1 .. Len(s)}

(***************************************************************************)
(* A task that has returned is in the list until it is removed at the end  *)
(* of the pass.  What the pass has yet to walk has not returned, and no    *)
(* link that is not yet in the list is part of it.                         *)
(***************************************************************************)
PassExact ==
  /\ ended \subseteq Links /\ returned \subseteq Links
  /\ cursor <= made
  /\ Listed \intersect returned \subseteq InSeq(finished)
  /\ InSeq(finished) \subseteq returned
  /\ pc \in {"walk", "slice"} => Ahead \intersect returned = {}
  /\ pc \in {"walk", "slice"} =>
       \A b \in Actors : op[b].step = "store" => op[b].link \notin Ahead
  /\ pc \in {"setup", "test"} => finished = <<>>
  /\ pc = "remove" => /\ op[Host].step \notin {"none", "store"} /\ op[Host].delta = -1
                      /\ op[Host].task = finished[1]
  /\ op[Host].step # "none" => pc \in {"setup", "remove"}
  /\ pc # "crashed"

\* The typing of the links and of the list.
LEMMA ListedFacts ==
  ASSUME ListInv
  PROVE  /\ next \in Linking /\ elements \in Tasks \union {Nil} /\ elements <= made
         /\ Nil \notin Tasks /\ made \in Nat /\ made <= MaxTasks
         /\ Links \in SUBSET Tasks
         /\ Listed \in SUBSET Links
         /\ elements \in Listed \union {Nil}
         /\ \A q \in Listed : next[q] \in Listed \union {Nil}
         /\ Length \in Nat /\ size \in Int
<1>. USE SchedulerAssumption
<1>1. /\ next \in Linking /\ elements \in Tasks \union {Nil} /\ elements <= made
      /\ Nil \notin Tasks /\ made \in Nat /\ made <= MaxTasks
  BY DEF ListInv, ListDescends, Linking, Tasks, Nil
<1>2. Links \in SUBSET Tasks
  BY <1>1 DEF Links, Tasks
<1>3. /\ Listed \in SUBSET Tasks /\ elements \in Listed \union {Nil}
      /\ \A q \in Listed : next[q] \in Listed \union {Nil}
  BY <1>1, ChainClosed DEF Listed
<1>4. \A q \in Listed : q \in Tasks /\ q <= elements
  BY <1>1, ChainBelow DEF Listed
<1>5. Listed \in SUBSET Links
  BY <1>1, <1>4 DEF Links, Tasks, Nil
<1>6. Length \in Nat
  BY <1>3, ChainLength DEF Length
<1>. QED
  BY <1>1, <1>2, <1>3, <1>5, <1>6 DEF ListInv

\* When one process steps alone, what its operation becomes decides.
LEMMA OneSteps ==
  ASSUME ListInv, NEW a \in Actors, NEW o \in Ops, Alone(a),
         op' = [op EXCEPT ![a] = o], OpExact(o)'
  PROVE  OneExact'
<1>1. op'[a] = o /\ \A b \in Actors \ {a} : op'[b] = op[b]
  BY DEF ListInv
<1>2. Alone(a)'
  BY <1>1 DEF Alone
<1>. QED
  BY <1>1, <1>2 DEF OneExact

\* The operation of a process that is alone is the one the invariant is about.
LEMMA AloneExact ==
  ASSUME ListInv, OneExact, NEW c \in Actors, Alone(c)
  PROVE  \A o \in Ops : o = op[c] => OpExact(o)
<1>1. PICK a \in Actors : Alone(a) /\ \A o \in Ops : o = op[a] => OpExact(o)
  BY DEF OneExact
<1>2. CASE a = c
  BY <1>1, <1>2
<1>3. CASE a # c
  <2>1. PICK x \in Ops : x = op[a]
    BY DEF ListInv
  <2>2. op[c].step = "none" /\ x.step = "none" /\ OpExact(x)
    BY <1>1, <1>3, <2>1 DEF Alone
  <2>3. ASSUME NEW o \in Ops, o = op[c] PROVE OpExact(o)
    BY <2>2, <2>3 DEF OpExact, Kept
  <2>. QED
    BY <2>3
<1>. QED
  BY <1>2, <1>3

\* A process that is in an operation is alone.
LEMMA BusyAlone ==
  ASSUME OneExact, NEW c \in Actors, op[c].step # "none"
  PROVE  Alone(c)
BY DEF OneExact, Alone

\* A list operation the process that runs takes a step of.
LEMMA PassKept ==
  ASSUME ListInv, LoopInv, PassExact,
         NEW a \in Actors, Running(a), NEW o \in Ops, op' = [op EXCEPT ![a] = o],
         UNCHANGED <<pc, cursor, finished, returned>>,
         made' \in Nat, made <= made', ended' \subseteq Links',
         Listed' \intersect returned \subseteq Listed,
         pc = "slice" => Ahead' \subseteq Ahead,
         pc = "slice" /\ o.step = "store" => o.link \notin Ahead,
         pc = "remove" => /\ o.step \notin {"none", "store"} /\ o.delta = -1
                          /\ o.task = op[Host].task
  PROVE  PassExact'
<1>1. Host \in Actors /\ Host \notin Tasks \union {Nil}
  BY DEF Actors, Host, Tasks, Nil
<1>2. CASE a = Host
  <2>1. pc \in {"setup", "remove"} /\ op'[Host] = o
    BY <1>1, <1>2 DEF Running, LoopInv, ListInv
  <2>2. returned' \subseteq Links' /\ cursor' <= made'
    BY ListedFacts DEF PassExact, Links, LoopInv, Tasks, Nil
  <2>. QED
    BY <2>1, <2>2 DEF PassExact
<1>3. CASE a # Host
  <2>1. /\ pc = "slice" /\ op'[Host] = op[Host]
        /\ op'[a] = o /\ \A b \in Actors : b # a => op'[b] = op[b]
    BY <1>1, <1>3 DEF Running, ListInv
  <2>2. returned' \subseteq Links' /\ cursor' <= made'
    BY ListedFacts DEF PassExact, Links, LoopInv, Tasks, Nil
  <2>. QED
    BY <2>1, <2>2 DEF PassExact
<1>. QED
  BY <1>2, <1>3

\* The links after a step that keeps the descending order.
LEMMA ListedAfter ==
  ASSUME ListInv'
  PROVE  /\ next' \in Linking /\ elements' \in Tasks \union {Nil}
         /\ Listed' = ChainOf(next', elements') /\ Ahead' = ChainOf(next', cursor')
         /\ Length' = Cardinality(Listed')
         /\ Listed' \in SUBSET Tasks
         /\ elements' \in Listed' \union {Nil}
         /\ \A q \in Listed' : next'[q] \in Listed' \union {Nil}
<1>1. next' \in Linking /\ elements' \in Tasks \union {Nil}
  BY DEF ListInv, ListDescends, Linking
<1>2. Listed' = ChainOf(next', elements') /\ Ahead' = ChainOf(next', cursor')
  BY DEF Listed, Ahead
<1>. QED
  BY <1>1, <1>2, ChainClosed DEF Length

\* Steps that store neither a link nor the first one leave the chains alone.
LEMMA ListedSame ==
  ASSUME UNCHANGED <<elements, next>>
  PROVE  Listed' = Listed /\ Length' = Length /\ (cursor' = cursor => Ahead' = Ahead)
BY DEF Listed, Length, Ahead

\* An operation that begins without overlapping another finds the list exact.
LEMMA BeginsAlone ==
  ASSUME ListInv, OneExact, NEW a \in Actors, op[a].step = "none", ~Overlaps(a)
  PROVE  /\ Alone(a) /\ size = Length
         /\ Listed \intersect ended = {}
         /\ Links \ (ended \union returned) \subseteq Listed
<1>1. Alone(a)
  BY DEF Alone, Overlaps
<1>2. PICK o \in Ops : o = op[a]
  BY DEF ListInv
<1>3. OpExact(o)
  BY <1>1, <1>2, AloneExact
<1>. QED
  BY <1>1, <1>2, <1>3 DEF OpExact, Kept

\* List>>add: the link is made.
LEMMA AddLinkExact ==
  ASSUME ListInv, LoopInv, ListInv', OneExact, PassExact,
         NEW a \in Actors, AddLink(a), ~torn'
  PROVE  OneExact' /\ PassExact'
<1> DEFINE p == made + 1
<1>0. ~Overlaps(a) /\ op[a].step = "none"
  BY Zenon DEF AddLink
<1>1. /\ Alone(a) /\ size = Length /\ Listed \intersect ended = {}
      /\ Links \ (ended \union returned) \subseteq Listed
  BY <1>0, BeginsAlone
<1>2. PICK o \in Ops : o = ListOp("store", Nil, p, 1)
  BY FreshDescends DEF AddLink, Tasks, Nil, ListInv
<1>3. /\ o.step = "store" /\ o.task = Nil /\ o.link = p /\ o.delta = 1 /\ o.path = <<>>
  BY <1>2 DEF ListOp
<1>4. /\ op' = [op EXCEPT ![a] = o] /\ p \in Tasks /\ made' = p
      /\ next' = [next EXCEPT ![p] = elements]
      /\ elements' = elements /\ size' = size /\ ended' = ended
      /\ UNCHANGED <<pc, cursor, finished, returned>> /\ Running(a) /\ pc # "remove"
  BY <1>2 DEF AddLink, loop
<1>5. /\ next \in Linking /\ next' \in Linking /\ Listed \in SUBSET Links
      /\ p \notin Links /\ Links' = Links \union {p} /\ made' \in Nat /\ made <= made'
      /\ next'[p] = elements /\ \A q \in Tasks : q # p => next'[q] = next[q]
  BY <1>4, ListedFacts, ListedAfter DEF Links, Linking
<1>6. Listed' = Listed
  <2>1. \A q \in ChainOf(next, elements) : next'[q] = next[q]
    BY <1>5, ListedFacts DEF Listed
  <2>2. ChainOf(next', elements) = ChainOf(next, elements)
    BY <1>5, <2>1, ListedFacts, ChainSame
  <2>. QED
    BY <1>4, <2>2, ListedAfter DEF Listed
<1>7. Ahead' = Ahead
  <2>1. cursor \in Tasks \union {Nil} /\ cursor <= made
    BY DEF LoopInv, PassExact
  <2>2. \A q \in ChainOf(next, cursor) : q \in Tasks /\ q <= cursor
    BY <1>5, <2>1, ChainBelow
  <2>3. \A q \in ChainOf(next, cursor) : next'[q] = next[q]
    BY <1>5, <2>1, <2>2, ListedFacts DEF Tasks, Nil
  <2>. QED
    BY <1>4, <1>5, <2>1, <2>3, ListedAfter, ChainSame DEF Ahead
<1>8. Length' = Length
  BY <1>6 DEF Length
<1>9. OpExact(o)'
  <2>1. Storing(o)'
    BY <1>1, <1>3, <1>4, <1>5, <1>6, <1>8, ListedFacts DEF Storing, PassExact
  <2>2. Kept(o)'
    BY <1>1, <1>3, <1>4, <1>5, <1>6, <1>8 DEF Kept
  <2>. QED
    BY <1>3, <2>1, <2>2 DEF OpExact
<1>10. OneExact'
  BY <1>1, <1>4, <1>9, OneSteps
<1>11. PassExact'
  <2>1. pc = "slice" => o.link \notin Ahead
    <3>1. cursor \in Tasks \union {Nil} /\ cursor <= made
      BY DEF LoopInv, PassExact
    <3>2. \A q \in ChainOf(next, cursor) : q \in Tasks /\ q <= cursor
      BY <1>5, <3>1, ChainBelow
    <3>. QED
      BY <1>3, <3>1, <3>2, ListedFacts DEF Ahead, Tasks, Nil
  <2>2. ended' \subseteq Links'
    BY <1>4, <1>5 DEF PassExact
  <2>. QED
    BY <1>4, <1>5, <1>6, <1>7, <2>1, <2>2, PassKept
<1>. QED
  BY <1>10, <1>11

\* remove:ifAbsent: begins, for a task that has been ended or has returned.
LEMMA RemoveExact ==
  ASSUME ListInv, ListInv', OneExact, NEW a \in Actors, NEW t \in Tasks, Remove(a, t),
         ~Overlaps(a), UNCHANGED <<list, made, returned>>,
         ended \subseteq ended', t \in ended' \union returned,
         Listed \intersect ended' \subseteq {t}
  PROVE  /\ OneExact'
         /\ \E o \in Ops : /\ op' = [op EXCEPT ![a] = o]
                           /\ o.step = "seek" /\ o.delta = -1 /\ o.task = t
<1>1. /\ Alone(a) /\ size = Length /\ Listed \intersect ended = {}
      /\ Links \ (ended \union returned) \subseteq Listed
  BY BeginsAlone DEF Remove
<1>2. PICK o \in Ops : o = ListOp("seek", t, elements, -1)
  BY FreshDescends, ListedFacts
<1>3. o.step = "seek" /\ o.task = t /\ o.link = elements /\ o.delta = -1 /\ o.path = <<>>
  BY <1>2 DEF ListOp
<1>4. op' = [op EXCEPT ![a] = o]
  BY <1>2 DEF Remove
<1>5. /\ elements' = elements /\ next' = next /\ size' = size /\ made' = made
      /\ returned' = returned /\ Links' = Links /\ Listed' = Listed /\ Length' = Length
  BY ListedSame DEF list, Links
<1>6. Seeking(o)'
  <2>1. PathLinked(o)'
    BY <1>3 DEF PathLinked
  <2>2. Before(o)' = elements
    BY <1>3, <1>5 DEF Before
  <2>3. o.task \in Listed' => o.task \in ChainOf(next', o.link)
    BY <1>3, <1>5 DEF Listed
  <2>. QED
    BY <1>1, <1>3, <1>5, <2>1, <2>2, <2>3 DEF Seeking
<1>7. Kept(o)'
  BY <1>1, <1>3, <1>5 DEF Kept
<1>8. OpExact(o)'
  BY <1>3, <1>6, <1>7 DEF OpExact
<1>. QED
  BY <1>1, <1>3, <1>4, <1>8, OneSteps

\* endProcess: sent by the process that runs.
LEMMA EndProcessExact ==
  ASSUME ListInv, LoopInv, ListInv', OneExact, PassExact,
         NEW a \in Actors, NEW t \in Links, EndProcess(a, t), ~torn'
  PROVE  OneExact' /\ PassExact'
<1>0. ~Overlaps(a) /\ op[a].step = "none"
  BY Zenon DEF EndProcess, Remove
<1>1. t \in Tasks /\ Remove(a, t) /\ ended' = ended \union {t} /\ pc # "remove" /\ Running(a)
  BY ListedFacts DEF EndProcess
<1>2. /\ elements' = elements /\ next' = next /\ made' = made /\ Links' = Links
      /\ UNCHANGED <<list, made, returned>> /\ UNCHANGED <<pc, cursor, finished, returned>>
  BY DEF EndProcess, list, loop, Links
<1>3. Listed \intersect ended' \subseteq {t}
  BY <1>0, <1>1, BeginsAlone
<1>4. /\ OneExact'
      /\ \E o \in Ops : /\ op' = [op EXCEPT ![a] = o]
                        /\ o.step = "seek" /\ o.delta = -1 /\ o.task = t
  BY <1>0, <1>1, <1>2, <1>3, RemoveExact
<1>5. Listed' = Listed /\ Ahead' = Ahead
  BY <1>2, ListedSame
<1>6. ended' \subseteq Links' /\ made' \in Nat /\ made <= made'
  BY <1>1, <1>2, ListedFacts DEF PassExact
<1>7. PICK o \in Ops : op' = [op EXCEPT ![a] = o]
  BY <1>4
<1>. QED
  BY <1>1, <1>2, <1>4, <1>5, <1>6, <1>7, PassKept

\* runOnce removes the first of the tasks that have returned.
LEMMA RemoveFinishedExact ==
  ASSUME ListInv, LoopInv, ListInv', OneExact, PassExact, RemoveFinished, ~torn'
  PROVE  OneExact' /\ PassExact'
<1>0. ~Overlaps(Host) /\ op[Host].step = "none"
  BY Zenon DEF RemoveFinished, Remove
<1> DEFINE t == Head(finished)
<1>1. /\ Host \in Actors /\ t \in Tasks /\ Remove(Host, t) /\ t = finished[1]
      /\ pc' = "remove" /\ UNCHANGED <<list, made, cursor, finished, returned, ended>>
  BY FinishedSeq DEF RemoveFinished, LoopInv, Actors
<1>2. t \in returned
  BY <1>1 DEF PassExact, InSeq, RemoveFinished, LoopInv
<1>3. Listed \intersect ended' \subseteq {t}
  BY <1>0, <1>1, BeginsAlone
<1>4. /\ OneExact'
      /\ \E o \in Ops : /\ op' = [op EXCEPT ![Host] = o]
                        /\ o.step = "seek" /\ o.delta = -1 /\ o.task = t
  BY <1>0, <1>1, <1>2, <1>3, RemoveExact
<1>5. Listed' = Listed
  BY <1>1, ListedSame DEF list
<1>6. op'[Host].step = "seek" /\ op'[Host].delta = -1 /\ op'[Host].task = t
  BY <1>1, <1>4 DEF ListInv
<1>7. Links' = Links /\ made' = made
  BY <1>1 DEF Links
<1>. QED
  BY <1>1, <1>4, <1>5, <1>6, <1>7 DEF PassExact

\* A step that only reads the list.
LEMMA PassRead ==
  ASSUME ListInv, LoopInv, PassExact,
         NEW a \in Actors, Running(a), NEW o \in Ops, op' = [op EXCEPT ![a] = o],
         pc' = pc, cursor' = cursor, finished' = finished, returned' = returned,
         elements' = elements, next' = next, made' = made, ended' = ended,
         o.step # "store",
         pc = "remove" => /\ o.step \notin {"none", "store"} /\ o.delta = -1
                          /\ o.task = op[Host].task
  PROVE  PassExact'
<1>1. Listed' = Listed /\ Ahead' = Ahead
  BY ListedSame
<1>2. made' \in Nat /\ made <= made' /\ ended' \subseteq Links'
  BY ListedFacts DEF PassExact, Links
<1>. QED
  BY <1>1, <1>2, PassKept

\* The link a search or a way back has come to, when there is one, is in the list.
LEMMA BeforeListed ==
  ASSUME ListInv, NEW o \in Ops, PathLinked(o)
  PROVE  Before(o) \in Listed \union {Nil}
<1>1. CASE o.path = <<>>
  BY <1>1, ListedFacts DEF Before
<1>2. CASE o.path # <<>>
  <2>1. o.path \in Seq(Tasks)
    BY DEF Ops
  <2>2. Len(o.path) \in 1 .. Len(o.path)
    BY <1>2, <2>1
  <2>3. o.path[Len(o.path)] \in Listed
    BY <2>2 DEF PathLinked
  <2>. QED
    BY <1>2, <2>3, ListedFacts DEF Before
<1>. QED
  BY <1>1, <1>2

\* A path is linked in the list as it was, whatever the operation's other fields.
LEMMA PathSame ==
  ASSUME NEW o \in Ops, NEW r \in Ops, r.path = o.path, r.task = o.task,
         UNCHANGED <<elements, next>>
  PROVE  (PathLinked(o) => PathLinked(r)') /\ Before(r)' = Before(o)
BY ListedSame DEF PathLinked, Before

\* The task is not in the list.
LEMMA AbsentExact ==
  ASSUME ListInv, LoopInv, ListInv', OneExact, PassExact,
         NEW a \in Actors, Running(a), Absent(a)
  PROVE  OneExact' /\ PassExact'
<1>1. PICK c \in Ops : c = op[a]
  BY DEF ListInv
<1>2. c.step = "seek" /\ c.link = Nil
  BY <1>1 DEF Absent
<1>3. Alone(a) /\ OpExact(c)
  BY <1>1, <1>2, BusyAlone, AloneExact
<1>4. Seeking(c) /\ Kept(c) /\ size = Length
  BY <1>2, <1>3 DEF OpExact, Seeking
<1>5. c.task \notin Listed
  BY <1>2, <1>4, ChainSteps, ListedFacts DEF Seeking
<1>6. PICK o \in Ops : o = NoOp
  BY NoOpDescends, ListedFacts
<1>7. o.step = "none"
  BY <1>6 DEF NoOp, ListOp
<1>8. /\ op' = [op EXCEPT ![a] = o] /\ UNCHANGED <<elements, next, size, made>>
      /\ UNCHANGED <<cursor, finished, returned, ended>>
      /\ pc' = IF pc = "remove" THEN "halted" ELSE pc
  BY <1>6 DEF Absent, list, ghosts
<1>9. Listed' = Listed /\ Length' = Length /\ Links' = Links /\ Ahead' = Ahead
  BY <1>8, ListedSame DEF Links
<1>10. Kept(o)'
  BY <1>2, <1>4, <1>5, <1>7, <1>8, <1>9 DEF Kept
<1>11. OpExact(o)'
  BY <1>4, <1>7, <1>8, <1>9, <1>10 DEF OpExact
<1>12. OneExact'
  BY <1>3, <1>8, <1>11, OneSteps
<1>13. CASE pc = "remove"
  <2>1. op'[Host].step = "none"
    <3>1. a = Host /\ Host \in Actors
      BY <1>13 DEF Running, Actors
    <3>. QED
      BY <1>7, <1>8, <3>1 DEF ListInv
  <2>. QED
    BY <1>8, <1>9, <1>12, <1>13, <2>1 DEF PassExact
<1>14. CASE pc # "remove"
  <2>1. PassExact'
    BY <1>7, <1>8, <1>14, PassRead
  <2>. QED
    BY <1>12, <2>1
<1>. QED
  BY <1>13, <1>14

\* The search goes on to the next link.
LEMMA SeekExact ==
  ASSUME ListInv, LoopInv, ListInv', OneExact, PassExact,
         NEW a \in Actors, Running(a), Seek(a)
  PROVE  OneExact' /\ PassExact'
<1>1. PICK c \in Ops : c = op[a]
  BY DEF ListInv
<1>2. c.step = "seek" /\ c.link # Nil /\ c.link # c.task
  BY <1>1 DEF Seek
<1>3. Alone(a) /\ OpExact(c)
  BY <1>1, <1>2, BusyAlone, AloneExact
<1>4. Seeking(c) /\ Kept(c) /\ size = Length
  BY <1>2, <1>3 DEF OpExact, Seeking
<1>5. c.link \in Listed /\ c.link \in Tasks /\ next[c.link] \in Tasks \union {Nil}
  BY <1>2, <1>4, BeforeListed, ListedFacts DEF Seeking, Linking
<1> DEFINE r == [c EXCEPT !.link = next[c.link], !.path = Append(c.path, c.link)]
<1>6. /\ c.path \in Seq(Tasks) /\ Append(c.path, c.link) \in Seq(Tasks)
      /\ Len(Append(c.path, c.link)) = Len(c.path) + 1 /\ Len(c.path) \in Nat
      /\ \A i \in 1 .. Len(c.path) : Append(c.path, c.link)[i] = c.path[i]
      /\ Append(c.path, c.link)[Len(c.path) + 1] = c.link
  BY <1>5 DEF Ops
<1>7. r \in Ops
  BY <1>5, <1>6 DEF Ops
<1>8. PICK o \in Ops : o = r
  BY <1>7
<1>9. /\ o.step = "seek" /\ o.task = c.task /\ o.link = next[c.link] /\ o.delta = c.delta
      /\ o.path = Append(c.path, c.link)
  BY <1>2, <1>8 DEF Ops
<1>10. /\ op' = [op EXCEPT ![a] = o] /\ UNCHANGED <<elements, next, size, made>>
       /\ UNCHANGED <<pc, cursor, finished, returned, ended>>
  BY <1>1, <1>8 DEF Seek, list, loop, ghosts
<1>. HIDE DEF r
<1>11. Listed' = Listed /\ Length' = Length /\ Links' = Links /\ Ahead' = Ahead
  BY <1>10, ListedSame DEF Links
<1> DEFINE n == Len(c.path)
<1>12. /\ n \in Nat /\ Len(o.path) = n + 1 /\ o.path[n + 1] = c.link
       /\ \A i \in 1 .. n : o.path[i] = c.path[i]
  BY <1>6, <1>9
<1>13. PathLinked(o)'
  <2>1. o.path[1] = elements
    <3>1. CASE c.path = <<>>
      BY <1>4, <1>6, <1>12, <3>1 DEF Seeking, Before
    <3>2. CASE c.path # <<>>
      <4>1. 1 \in 1 .. n
        BY <1>6, <3>2
      <4>. QED
        BY <1>4, <1>12, <3>2, <4>1 DEF Seeking, PathLinked
    <3>. QED
      BY <3>1, <3>2
  <2>2. ASSUME NEW i \in 1 .. n PROVE next[o.path[i]] = o.path[i + 1]
    <3>1. CASE i = n
      <4>1. c.path # <<>>
        BY <1>6, <3>1
      <4>. QED
        BY <1>4, <1>12, <3>1, <4>1 DEF Seeking, Before
    <3>2. CASE i # n
      <4>1. i \in 1 .. n - 1 /\ i + 1 \in 1 .. n
        BY <1>12, <3>2
      <4>. QED
        BY <1>4, <1>12, <4>1 DEF Seeking, PathLinked
    <3>. QED
      BY <3>1, <3>2
  <2>3. ASSUME NEW i \in 1 .. n + 1 PROVE o.path[i] \in Listed /\ o.path[i] # o.task
    <3>1. i \in 1 .. n \/ i = n + 1
      BY <1>12
    <3>. QED
      BY <1>2, <1>4, <1>5, <1>9, <1>12, <3>1 DEF Seeking, PathLinked
  <2>. QED
    BY <1>9, <1>10, <1>11, <1>12, <2>1, <2>2, <2>3 DEF PathLinked
<1>14. Before(o)' = o.link
  <2>1. o.path # <<>>
    BY <1>6, <1>9
  <2>. QED
    BY <1>9, <1>10, <1>12, <2>1 DEF Before
<1>15. o.task \in Listed' => o.task \in ChainOf(next', o.link)
  BY <1>2, <1>4, <1>5, <1>9, <1>10, <1>11, ChainSteps, ListedFacts DEF Seeking
<1>16. Seeking(o)'
  BY <1>4, <1>9, <1>10, <1>11, <1>13, <1>14, <1>15 DEF Seeking
<1>17. Kept(o)'
  BY <1>2, <1>4, <1>9, <1>10, <1>11 DEF Kept
<1>18. OpExact(o)'
  BY <1>9, <1>16, <1>17 DEF OpExact
<1>19. OneExact'
  BY <1>3, <1>10, <1>18, OneSteps
<1>20. pc = "remove" => o.task = op[Host].task /\ o.delta = -1
  BY <1>1, <1>4, <1>9 DEF Running, Seeking
<1>21. PassExact'
  BY <1>9, <1>10, <1>20, PassRead
<1>. QED
  BY <1>19, <1>21

\* The search comes to the task.
LEMMA FoundExact ==
  ASSUME ListInv, LoopInv, ListInv', OneExact, PassExact,
         NEW a \in Actors, Running(a), Found(a)
  PROVE  OneExact' /\ PassExact'
<1>1. PICK c \in Ops : c = op[a]
  BY DEF ListInv
<1>2. c.step = "seek" /\ c.link # Nil /\ c.link = c.task
  BY <1>1 DEF Found
<1>3. Alone(a) /\ OpExact(c)
  BY <1>1, <1>2, BusyAlone, AloneExact
<1>4. Seeking(c) /\ Kept(c) /\ size = Length
  BY <1>2, <1>3 DEF OpExact, Seeking
<1>5. c.link \in Listed /\ c.link \in Tasks /\ next[c.link] \in Tasks \union {Nil}
  BY <1>2, <1>4, BeforeListed, ListedFacts DEF Seeking, Linking
<1> DEFINE r == [c EXCEPT !.link = next[c.link], !.step = "relink"]
<1>6. r \in Ops
  BY <1>5 DEF Ops
<1>7. PICK o \in Ops : o = r
  BY <1>6
<1>8. /\ o.step = "relink" /\ o.task = c.task /\ o.link = next[c.link] /\ o.delta = c.delta
      /\ o.path = c.path
  BY <1>7 DEF Ops
<1>9. /\ op' = [op EXCEPT ![a] = o] /\ UNCHANGED <<elements, next, size, made>>
      /\ UNCHANGED <<pc, cursor, finished, returned, ended>>
  BY <1>1, <1>7 DEF Found, list, loop, ghosts
<1>. HIDE DEF r
<1>10. Listed' = Listed /\ Length' = Length /\ Links' = Links /\ Ahead' = Ahead
  BY <1>9, ListedSame DEF Links
<1>11. PathLinked(o)' /\ Before(o)' = c.link
  BY <1>4, <1>8, <1>9, PathSame DEF Seeking
<1>12. Relinking(o)'
  BY <1>2, <1>4, <1>5, <1>8, <1>9, <1>10, <1>11 DEF Seeking, Relinking
<1>13. Kept(o)'
  BY <1>2, <1>4, <1>8, <1>9, <1>10 DEF Kept
<1>14. OpExact(o)'
  BY <1>8, <1>12, <1>13 DEF OpExact
<1>15. OneExact'
  BY <1>3, <1>9, <1>14, OneSteps
<1>16. pc = "remove" => o.task = op[Host].task /\ o.delta = -1
  BY <1>1, <1>4, <1>8 DEF Running, Seeking
<1>17. PassExact'
  BY <1>8, <1>9, <1>16, PassRead
<1>. QED
  BY <1>15, <1>17

\* The way back: the last link of the path gets the link the operation holds.
LEMMA RelinkExact ==
  ASSUME ListInv, LoopInv, ListInv', OneExact, PassExact,
         NEW a \in Actors, Running(a), Relink(a)
  PROVE  OneExact' /\ PassExact'
<1>1. PICK c \in Ops : c = op[a]
  BY DEF ListInv
<1>2. c.step = "relink" /\ c.path # <<>> /\ c.path \in Seq(Tasks)
  BY <1>1 DEF Relink, Ops
<1>3. Alone(a) /\ OpExact(c) /\ OpDescends(c, made)
  BY <1>1, <1>2, BusyAlone, AloneExact DEF ListInv
<1>4. Relinking(c) /\ PathLinked(c) /\ Kept(c)
  BY <1>2, <1>3 DEF OpExact, Relinking
<1> DEFINE n == Len(c.path)
           p == c.path[n]
           rest == SubSeq(c.path, 1, n - 1)
           r == [c EXCEPT !.link = p, !.path = rest]
<1>5. n \in Nat /\ n > 0 /\ n \in 1 .. n /\ p \in Tasks
  BY <1>2
<1>6. /\ rest \in Seq(Tasks) /\ Len(rest) = n - 1
      /\ \A i \in 1 .. n - 1 : rest[i] = c.path[i]
  BY <1>2, <1>5
<1>7. r \in Ops
  BY <1>5, <1>6 DEF Ops
<1>8. PICK o \in Ops : o = r
  BY <1>7
<1>9. /\ o.step = "relink" /\ o.task = c.task /\ o.link = p /\ o.delta = c.delta
      /\ o.path = rest
  BY <1>2, <1>8 DEF Ops
<1>10. /\ op' = [op EXCEPT ![a] = o] /\ next' = [next EXCEPT ![p] = c.link]
       /\ UNCHANGED <<elements, size, made>>
       /\ pc' = pc /\ cursor' = cursor /\ finished' = finished /\ returned' = returned
       /\ ended' = ended
  BY <1>1, <1>8 DEF Relink, loop, ghosts
<1>. HIDE DEF r, rest
<1>11. /\ Before(c) = next[p] /\ p \in Listed /\ p # c.task
       /\ next \in Linking /\ next' \in Linking /\ Links' = Links
  BY <1>2, <1>4, <1>5, <1>10, ListedFacts, ListedAfter DEF Before, PathLinked, Links
<1>12. \A q \in Tasks : q # p => next'[q] = next[q]
  BY <1>10, <1>11 DEF Linking
<1>13. next'[p] = c.link
  BY <1>5, <1>10, <1>11 DEF Linking
\* What the store does to the list and to the part of it still to be walked.
<1>14. /\ Listed' = Listed \ {c.task} /\ Ahead' \subseteq Ahead
       /\ size = Length' + 1
  <2>1. CASE Before(c) = c.link /\ c.task \notin Listed /\ size = Length + 1
    <3>1. next' = next
      BY <1>10, <1>11, <1>12, <1>13, <2>1 DEF Linking
    <3>2. Listed' = Listed /\ Length' = Length /\ Ahead' = Ahead
      BY <1>10, <3>1, ListedSame
    <3>. QED
      BY <2>1, <3>2
  <2>2. CASE /\ c.task \in Tasks /\ c.task \in Listed
             /\ Before(c) = c.task /\ next[c.task] = c.link /\ size = Length
    <3>1. /\ next[p] = c.task /\ next'[p] = next[c.task]
          /\ p \in ChainOf(next, elements) /\ elements \in Tasks \union {Nil}
      BY <1>11, <1>13, <2>2, ListedFacts DEF Listed
    <3>2. ChainOf(next', elements) = ChainOf(next, elements) \ {c.task}
      BY <1>11, <1>12, <2>2, <3>1, ChainCut
    <3>3. Listed' = Listed \ {c.task}
      BY <1>10, <3>2, ListedAfter DEF Listed
    <3>4. Listed \in SUBSET Tasks /\ Length' = Cardinality(Listed')
      BY ListedFacts, ListedAfter
    <3>5. Length' = Length - 1
      BY <2>2, <3>3, <3>4, ChainLength DEF Length
    <3>6. cursor \in Tasks \union {Nil}
      BY DEF LoopInv
    <3>7. ChainOf(next', cursor) \subseteq ChainOf(next, cursor)
      <4>1. CASE p \in ChainOf(next, cursor)
        BY <1>11, <1>12, <2>2, <3>1, <3>6, <4>1, ChainCut
      <4>2. CASE p \notin ChainOf(next, cursor)
        <5>1. \A q \in ChainOf(next, cursor) : next'[q] = next[q]
          BY <1>11, <1>12, <3>6, <4>2, ChainClosed
        <5>. QED
          BY <1>11, <3>6, <5>1, ChainSame
      <4>. QED
        BY <4>1, <4>2
    <3>8. Ahead' \subseteq Ahead
      BY <1>10, <3>7, ListedAfter DEF Ahead
    <3>. QED
      BY <2>2, <3>3, <3>5, <3>8, ListedFacts
  <2>. QED
    BY <1>4, <2>1, <2>2 DEF Relinking
\* The rest of the path is linked as before.
<1>15. \A i \in 1 .. n - 1 : next'[c.path[i]] = c.path[i + 1]
  <2>. TAKE i \in 1 .. n - 1
  <2>1. i \in 1 .. n /\ i + 1 \in 1 .. n
    BY <1>5
  <2>2. next[c.path[i]] = c.path[i + 1] /\ c.path[i] \in Tasks /\ c.path[i + 1] # c.task
    BY <1>2, <1>4, <2>1 DEF PathLinked
  <2>3. CASE c.path[i] # p
    BY <1>12, <2>2, <2>3
  <2>4. CASE c.path[i] = p
    <3>1. Before(c) = c.link
      BY <1>4, <1>11, <2>2, <2>4 DEF Relinking
    <3>. QED
      BY <1>11, <1>13, <2>2, <2>4, <3>1
  <2>. QED
    BY <2>3, <2>4
<1>16. PathLinked(o)'
  <2>1. o.path # <<>> => o.path[1] = elements
    <3>. SUFFICES ASSUME rest # <<>> PROVE rest[1] = elements
      BY <1>9
    <3>1. 1 \in 1 .. n - 1
      BY <1>5, <1>6
    <3>. QED
      BY <1>2, <1>4, <1>6, <3>1 DEF PathLinked
  <2>2. ASSUME NEW i \in 1 .. (n - 1) - 1 PROVE next'[o.path[i]] = o.path[i + 1]
    <3>1. i \in 1 .. n - 1 /\ i + 1 \in 1 .. n - 1
      BY <1>5
    <3>. QED
      BY <1>6, <1>9, <1>15, <3>1
  <2>3. ASSUME NEW i \in 1 .. n - 1 PROVE o.path[i] \in Listed' /\ o.path[i] # o.task
    <3>1. i \in 1 .. n
      BY <1>5
    <3>. QED
      BY <1>4, <1>6, <1>9, <1>14, <3>1 DEF PathLinked
  <2>. QED
    BY <1>6, <1>9, <1>10, <2>1, <2>2, <2>3 DEF PathLinked
<1>17. Before(o)' = o.link
  <2>1. CASE rest = <<>>
    <3>1. n = 1
      BY <1>5, <1>6, <2>1
    <3>. QED
      BY <1>2, <1>4, <1>9, <1>10, <2>1, <3>1 DEF Before, PathLinked
  <2>2. CASE rest # <<>>
    <3>1. n - 1 \in 1 .. n - 1 /\ (n - 1) + 1 = n
      BY <1>5, <1>6, <2>2
    <3>2. next'[rest[n - 1]] = p
      BY <1>6, <1>15, <3>1
    <3>. QED
      BY <1>6, <1>9, <2>2, <3>2 DEF Before
  <2>. QED
    BY <2>1, <2>2
<1>18. Relinking(o)'
  BY <1>4, <1>9, <1>10, <1>14, <1>16, <1>17 DEF Relinking
<1>19. Kept(o)'
  BY <1>2, <1>4, <1>9, <1>10, <1>11, <1>14 DEF Kept, Relinking
<1>20. OpExact(o)'
  BY <1>9, <1>18, <1>19 DEF OpExact
<1>21. OneExact'
  BY <1>3, <1>10, <1>20, OneSteps
<1>22. PassExact'
  <2>1. pc = "remove" => o.task = op[Host].task /\ o.delta = -1
    BY <1>1, <1>4, <1>9 DEF Running, Relinking
  <2>2. made' \in Nat /\ made <= made' /\ ended' \subseteq Links'
    BY <1>10, <1>11, ListedFacts DEF PassExact
  <2>. QED
    BY <1>9, <1>10, <1>14, <2>1, <2>2, PassKept
<1>. QED
  BY <1>21, <1>22

\* The operation's last link becomes the first of the list.
LEMMA StoreElementsExact ==
  ASSUME ListInv, LoopInv, ListInv', OneExact, PassExact,
         NEW a \in Actors, Running(a), StoreElements(a)
  PROVE  OneExact' /\ PassExact'
<1>1. PICK c \in Ops : c = op[a]
  BY DEF ListInv
<1>2. c.step = "store" \/ (c.step = "relink" /\ c.path = <<>>)
  BY <1>1 DEF StoreElements
<1>3. Alone(a) /\ OpExact(c)
  BY <1>1, <1>2, BusyAlone, AloneExact
<1>4. Kept(c) /\ (c.step = "store" => Storing(c)) /\ (c.step = "relink" => Relinking(c))
  BY <1>3 DEF OpExact
<1> DEFINE r == [c EXCEPT !.step = "read"]
<1>5. r \in Ops
  BY DEF Ops
<1>6. PICK o \in Ops : o = r
  BY <1>5
<1>7. o.step = "read" /\ o.task = c.task /\ o.delta = c.delta
  BY <1>6 DEF Ops
<1>8. /\ op' = [op EXCEPT ![a] = o] /\ elements' = c.link
      /\ next' = next /\ size' = size /\ made' = made
      /\ pc' = pc /\ cursor' = cursor /\ finished' = finished /\ returned' = returned
      /\ ended' = ended
  BY <1>1, <1>6 DEF StoreElements, loop, ghosts
<1>. HIDE DEF r
<1>9. /\ Listed' = ChainOf(next, c.link) /\ Ahead' = Ahead /\ Links' = Links
      /\ Length' = Cardinality(Listed') /\ Listed \in SUBSET Tasks /\ Listed' \in SUBSET Tasks
      /\ next \in Linking
  BY <1>8, ListedFacts, ListedAfter DEF Ahead, Links
<1>10. CASE c.step = "store"
  <2>1. c.link \in Tasks /\ c.link \notin Listed /\ next[c.link] = elements
    BY <1>4, <1>10, ListedFacts DEF Storing
  <2>2. Listed' = Listed \union {c.link}
    BY <1>9, <2>1, ChainSteps DEF Listed
  <2>3. Length' = Length + 1
    BY <1>9, <2>1, <2>2, ChainLength DEF Length
  <2>4. Counting(o)'
    BY <1>4, <1>7, <1>8, <1>10, <2>3, ListedFacts DEF Counting, Storing
  <2>5. Kept(o)'
    BY <1>4, <1>7, <1>8, <1>9, <1>10, <2>2 DEF Kept, Storing
  <2>6. pc # "remove" /\ Listed' \intersect returned \subseteq Listed
    <3>1. pc = "remove" => a = Host
      BY DEF Running
    <3>. QED
      BY <1>1, <1>4, <1>10, <2>2, <3>1 DEF PassExact, Storing
  <2>. QED
    <3>1. OpExact(o)'
      BY <1>7, <2>4, <2>5 DEF OpExact
    <3>2. OneExact'
      BY <1>3, <1>8, <3>1, OneSteps
    <3>3. made' \in Nat /\ made <= made' /\ ended' \subseteq Links'
      BY <1>8, <1>9, ListedFacts DEF PassExact
    <3>4. PassExact'
      BY <1>7, <1>8, <1>9, <2>6, <3>3, PassKept
    <3>. QED
      BY <3>2, <3>4
<1>11. CASE c.step = "relink"
  <2>1. Relinking(c) /\ c.path = <<>> /\ Before(c) = elements
    BY <1>2, <1>4, <1>11 DEF Before
  <2>2. Listed' = Listed \ {c.task} /\ size = Length' + 1
    <3>1. CASE elements = c.link /\ c.task \notin Listed /\ size = Length + 1
      BY <1>9, <3>1 DEF Listed, Length
    <3>2. CASE /\ c.task \in Tasks /\ c.task \in Listed
               /\ elements = c.task /\ next[c.task] = c.link /\ size = Length
      <4>1. Listed = {c.task} \union Listed'
        BY <1>9, <3>2, ChainSteps DEF Listed
      <4>2. c.link \in Tasks \union {Nil} /\ c.link < c.task
        BY <1>9, <3>2 DEF Linking
      <4>3. c.task \notin Listed'
        BY <1>9, <3>2, <4>2, ChainBelow DEF Tasks, Nil
      <4>4. Length = Length' + 1
        BY <1>9, <3>2, <4>1, <4>3, ChainLength DEF Length
      <4>. QED
        BY <3>2, <4>1, <4>3, <4>4
    <3>. QED
      BY <2>1, <3>1, <3>2 DEF Relinking
  <2>3. Counting(o)'
    <3>1. Length' \in Nat
      BY <1>9, ChainLength
    <3>. QED
      BY <1>7, <1>8, <2>1, <2>2, <3>1 DEF Counting, Relinking
  <2>4. Kept(o)'
    BY <1>4, <1>7, <1>8, <1>9, <1>11, <2>1, <2>2 DEF Kept, Relinking
  <2>5. pc = "remove" => o.task = op[Host].task /\ o.delta = -1
    BY <1>1, <1>7, <2>1 DEF Running, Relinking
  <2>. QED
    <3>1. OpExact(o)'
      BY <1>7, <2>3, <2>4 DEF OpExact
    <3>2. OneExact'
      BY <1>3, <1>8, <3>1, OneSteps
    <3>3. made' \in Nat /\ made <= made' /\ ended' \subseteq Links'
      BY <1>8, <1>9, ListedFacts DEF PassExact
    <3>4. PassExact'
      BY <1>7, <1>8, <1>9, <2>2, <2>5, <3>3, PassKept
    <3>. QED
      BY <3>2, <3>4
<1>. QED
  BY <1>2, <1>10, <1>11

\* The old size is read.
LEMMA ReadSizeExact ==
  ASSUME ListInv, LoopInv, ListInv', OneExact, PassExact,
         NEW a \in Actors, Running(a), ReadSize(a)
  PROVE  OneExact' /\ PassExact'
<1>1. PICK c \in Ops : c = op[a]
  BY DEF ListInv
<1>2. c.step = "read" /\ size \in Int
  BY <1>1 DEF ReadSize, ListInv
<1>3. Alone(a) /\ OpExact(c)
  BY <1>1, <1>2, BusyAlone, AloneExact
<1>4. Kept(c) /\ Counting(c)
  BY <1>2, <1>3 DEF OpExact
<1> DEFINE r == [c EXCEPT !.step = "count", !.read = size]
<1>5. r \in Ops
  BY <1>2 DEF Ops
<1>6. PICK o \in Ops : o = r
  BY <1>5
<1>7. o.step = "count" /\ o.task = c.task /\ o.delta = c.delta /\ o.read = size
  BY <1>6 DEF Ops
<1>8. /\ op' = [op EXCEPT ![a] = o] /\ elements' = elements
      /\ next' = next /\ size' = size /\ made' = made
      /\ pc' = pc /\ cursor' = cursor /\ finished' = finished /\ returned' = returned
      /\ ended' = ended
  BY <1>1, <1>6 DEF ReadSize, list, loop, ghosts
<1>. HIDE DEF r
<1>9. Listed' = Listed /\ Length' = Length /\ Links' = Links
  BY <1>8, ListedSame DEF Links
<1>10. Counting(o)' /\ Kept(o)'
  BY <1>2, <1>4, <1>7, <1>8, <1>9 DEF Counting, Kept
<1>11. OpExact(o)'
  BY <1>7, <1>8, <1>10 DEF OpExact
<1>12. OneExact'
  BY <1>3, <1>8, <1>11, OneSteps
<1>13. pc = "remove" => o.task = op[Host].task /\ o.delta = -1
  BY <1>1, <1>7 DEF Running, PassExact
<1>14. PassExact'
  BY <1>7, <1>8, <1>13, PassRead
<1>. QED
  BY <1>12, <1>14

\* The new size is stored: the operation is over.
LEMMA StoreSizeExact ==
  ASSUME ListInv, LoopInv, ListInv', OneExact, PassExact,
         NEW a \in Actors, Running(a), StoreSize(a)
  PROVE  OneExact' /\ PassExact'
<1>1. PICK c \in Ops : c = op[a]
  BY DEF ListInv
<1>2. c.step = "count"
  BY <1>1 DEF StoreSize
<1>3. Alone(a) /\ OpExact(c)
  BY <1>1, <1>2, BusyAlone, AloneExact
<1>4. Kept(c) /\ Counting(c) /\ c.read = size
  BY <1>2, <1>3 DEF OpExact
<1>5. PICK o \in Ops : o = NoOp
  BY NoOpDescends, ListedFacts
<1>6. o.step = "none"
  BY <1>5 DEF NoOp, ListOp
<1>7. /\ op' = [op EXCEPT ![a] = o] /\ elements' = elements
      /\ next' = next /\ size' = c.read + c.delta /\ made' = made
      /\ cursor' = cursor /\ returned' = returned /\ ended' = ended
  BY <1>1, <1>5 DEF StoreSize, ghosts
<1>8. Listed' = Listed /\ Length' = Length /\ Links' = Links /\ Ahead' = Ahead
  BY <1>7, ListedSame DEF Links
<1>9. size' = Length'
  BY <1>4, <1>7, <1>8, ListedFacts DEF Counting
<1>10. Kept(o)'
  BY <1>2, <1>4, <1>6, <1>7, <1>8 DEF Kept
<1>11. OpExact(o)'
  BY <1>6, <1>9, <1>10 DEF OpExact
<1>12. OneExact'
  BY <1>3, <1>7, <1>11, OneSteps
<1>13. CASE pc = "remove"
  <2>1. a = Host /\ Host \in Actors
    BY <1>13 DEF Running, Actors
  <2>2. /\ pc' = "finish" /\ finished' = Tail(finished)
        /\ finished \in Seq(Tasks) /\ finished # <<>>
        /\ op'[Host].step = "none" /\ finished[1] \notin Listed
    BY <1>1, <1>4, <1>6, <1>7, <1>13, <2>1 DEF StoreSize, LoopInv, ListInv, PassExact, Counting
  <2>3. InSeq(finished) = {finished[1]} \union InSeq(finished')
    <3>1. /\ Len(finished') = Len(finished) - 1 /\ Len(finished) \in Nat /\ Len(finished) > 0
          /\ \A i \in 1 .. Len(finished) - 1 : finished'[i] = finished[i + 1]
      BY <2>2
    <3>2. ASSUME NEW i \in 1 .. Len(finished)
          PROVE  finished[i] \in {finished[1]} \union InSeq(finished')
      <4>1. i = 1 \/ (i - 1 \in 1 .. Len(finished) - 1 /\ (i - 1) + 1 = i)
        BY <3>1
      <4>. QED
        BY <3>1, <4>1 DEF InSeq
    <3>3. ASSUME NEW i \in 1 .. Len(finished') PROVE finished'[i] \in InSeq(finished)
      <4>1. i \in 1 .. Len(finished) - 1 /\ i + 1 \in 1 .. Len(finished)
        BY <3>1
      <4>. QED
        BY <3>1, <4>1 DEF InSeq
    <3>4. finished[1] \in InSeq(finished)
      BY <3>1 DEF InSeq
    <3>. QED
      BY <3>2, <3>3, <3>4 DEF InSeq
  <2>4. InSeq(finished)' = InSeq(finished')
    BY DEF InSeq
  <2>5. PassExact'
    BY <1>7, <1>8, <2>2, <2>3, <2>4 DEF PassExact
  <2>. QED
    BY <1>12, <2>5
<1>14. CASE pc # "remove"
  <2>1. pc' = pc /\ finished' = finished
    BY <1>14 DEF StoreSize
  <2>2. PassExact'
    BY <1>6, <1>7, <1>14, <2>1, PassRead
  <2>. QED
    BY <1>12, <2>2
<1>. QED
  BY <1>13, <1>14

\* Steps of the loop: no list operation moves, and at most one more task returns.
LEMMA LoopStepExact ==
  ASSUME ListInv, OneExact, UNCHANGED <<list, made, op, ended>>,
         returned \subseteq returned',
         \A b \in Actors : op[b].step = "store" => op[b].link \notin returned'
  PROVE  OneExact' /\ Listed' = Listed /\ Links' = Links
<1>1. PICK a \in Actors : Alone(a) /\ \A o \in Ops : o = op[a] => OpExact(o)
  BY DEF OneExact
<1>2. PICK o \in Ops : o = op[a]
  BY DEF ListInv
<1>3. OpExact(o)
  BY <1>1, <1>2
<1>4. /\ elements' = elements /\ next' = next /\ size' = size /\ made' = made /\ op' = op
      /\ ended' = ended /\ Links' = Links /\ Listed' = Listed /\ Length' = Length
  BY ListedSame DEF list, Links
<1>5. PathLinked(o)' = PathLinked(o) /\ Before(o)' = Before(o)
  BY <1>4 DEF PathLinked, Before
<1>6. Kept(o)'
  BY <1>3, <1>4 DEF OpExact, Kept
<1>7. o.step = "store" => Storing(o)'
  BY <1>2, <1>3, <1>4 DEF OpExact, Storing
<1>8. o.step = "seek" => Seeking(o)'
  BY <1>3, <1>4, <1>5 DEF OpExact, Seeking
<1>9. o.step = "relink" => Relinking(o)'
  BY <1>3, <1>4, <1>5 DEF OpExact, Relinking
<1>10. o.step \in {"read", "count"} => Counting(o)'
  BY <1>3, <1>4 DEF OpExact, Counting
<1>11. OpExact(o)'
  BY <1>3, <1>4, <1>6, <1>7, <1>8, <1>9, <1>10 DEF OpExact
<1>12. Alone(a)'
  BY <1>1, <1>4 DEF Alone
<1>. QED
  BY <1>2, <1>4, <1>11, <1>12 DEF OneExact

\* No link that is being added is one of a task that has returned.
LEMMA StoredNotReturned ==
  ASSUME ListInv, OneExact
  PROVE  \A b \in Actors : op[b].step = "store" =>
            op[b].link \notin returned /\ op[b].link \notin Listed
<1>. SUFFICES ASSUME NEW b \in Actors, op[b].step = "store"
              PROVE  op[b].link \notin returned /\ op[b].link \notin Listed
  OBVIOUS
<1>1. PICK o \in Ops : o = op[b]
  BY DEF ListInv
<1>2. OpExact(o)
  BY <1>1, BusyAlone, AloneExact
<1>. QED
  BY <1>1, <1>2 DEF OpExact, Storing

\* The walk goes on behind the task that had a slice.
LEMMA AheadNext ==
  ASSUME ListInv, LoopInv, PassExact, pc = "slice",
         UNCHANGED <<elements, next>>, cursor' = next[cursor]
  PROVE  /\ cursor \in Tasks /\ cursor \in Links /\ cursor \in Ahead
         /\ Ahead' \subseteq Ahead /\ cursor \notin Ahead' /\ cursor' <= made
<1>1. cursor \in Tasks /\ cursor <= made /\ next \in Linking /\ made \in Nat
  BY ListedFacts DEF LoopInv, PassExact
<1>2. next[cursor] \in Tasks \union {Nil} /\ next[cursor] < cursor
  BY <1>1 DEF Linking
<1>3. Ahead' = ChainOf(next, next[cursor])
  BY DEF Ahead
<1>4. Ahead = {cursor} \union ChainOf(next, next[cursor])
  BY <1>1, ChainSteps DEF Ahead
<1>5. cursor \notin ChainOf(next, next[cursor])
  BY <1>1, <1>2, ChainBelow DEF Tasks, Nil
<1>. QED
  BY <1>1, <1>2, <1>3, <1>4, <1>5 DEF Links, Tasks, Nil

\* The slice is over, and the task has not returned.
LEMMA TimeExpiredExact ==
  ASSUME ListInv, LoopInv, OneExact, PassExact, TimeExpired
  PROVE  OneExact' /\ PassExact'
<1>1. /\ pc = "slice" /\ pc' = "walk" /\ cursor' = next[cursor]
      /\ UNCHANGED <<list, made, op, ended>> /\ elements' = elements /\ next' = next
      /\ finished' = finished /\ returned' = returned /\ made' = made /\ op' = op
      /\ ended' = ended
  BY DEF TimeExpired, list
<1>2. OneExact' /\ Listed' = Listed /\ Links' = Links
  BY <1>1, StoredNotReturned, LoopStepExact
<1>3. Ahead' \subseteq Ahead /\ cursor' <= made
  BY <1>1, AheadNext
<1>. QED
  BY <1>1, <1>2, <1>3 DEF PassExact

\* The task has returned: it will be removed, and is not come to again.
LEMMA ReturnedExact ==
  ASSUME ListInv, LoopInv, OneExact, PassExact, Returned
  PROVE  OneExact' /\ PassExact'
<1>1. /\ pc = "slice" /\ pc' = "walk" /\ cursor' = next[cursor]
      /\ UNCHANGED <<list, made, op, ended>> /\ elements' = elements /\ next' = next
      /\ finished' = <<cursor>> \o finished /\ returned' = returned \union {cursor}
      /\ made' = made /\ op' = op /\ ended' = ended
  BY DEF Returned, list, ghosts
<1>2. /\ cursor \in Tasks /\ cursor \in Links /\ cursor \in Ahead
      /\ Ahead' \subseteq Ahead /\ cursor \notin Ahead' /\ cursor' <= made
  BY <1>1, AheadNext
<1>3. \A b \in Actors : op[b].step = "store" => op[b].link \notin returned'
  BY <1>1, <1>2, StoredNotReturned DEF PassExact
<1>4. OneExact' /\ Listed' = Listed /\ Links' = Links
  BY <1>1, <1>3, LoopStepExact
<1>5. InSeq(finished') = {cursor} \union InSeq(finished)
  <2>1. /\ finished \in Seq(Tasks) /\ Len(finished') = Len(finished) + 1
        /\ finished'[1] = cursor /\ Len(finished) \in Nat
        /\ \A i \in 1 .. Len(finished) : finished'[i + 1] = finished[i]
    BY <1>1, <1>2 DEF LoopInv
  <2>2. ASSUME NEW i \in 1 .. Len(finished')
        PROVE  finished'[i] \in {cursor} \union InSeq(finished)
    <3>1. i = 1 \/ (i - 1 \in 1 .. Len(finished) /\ (i - 1) + 1 = i)
      BY <2>1
    <3>. QED
      BY <2>1, <3>1 DEF InSeq
  <2>3. ASSUME NEW i \in 1 .. Len(finished) PROVE finished[i] \in InSeq(finished')
    <3>1. i + 1 \in 1 .. Len(finished')
      BY <2>1
    <3>. QED
      BY <2>1, <3>1 DEF InSeq
  <2>4. cursor \in InSeq(finished')
    BY <2>1 DEF InSeq
  <2>. QED
    BY <2>2, <2>3, <2>4 DEF InSeq
<1>6. InSeq(finished)' = InSeq(finished')
  BY DEF InSeq
<1>. QED
  BY <1>1, <1>2, <1>4, <1>5, <1>6 DEF PassExact

\* The steps between the slices.
LEMMA BetweenExact ==
  ASSUME ListInv, LoopInv, OneExact, PassExact,
         Run \/ RunOnce \/ DoExecute \/ Stop \/ WalkDone \/ PassDone \/ UNCHANGED vars
  PROVE  OneExact' /\ PassExact'
<1>1. UNCHANGED <<list, made, op, ended, returned>> /\ elements' = elements /\ next' = next
  BY DEF Run, RunOnce, DoExecute, Stop, WalkDone, PassDone, vars, list, ghosts, loop
<1>2. OneExact' /\ Listed' = Listed /\ Links' = Links
  BY <1>1, StoredNotReturned, LoopStepExact
<1>3. CASE RunOnce
  <2>1. /\ pc = "test" /\ finished = <<>> /\ finished' = <<>> /\ pc' \in {"done", "walk"}
        /\ pc' = "walk" => cursor' = elements
        /\ cursor' \in {Nil, elements}
    BY <1>3 DEF RunOnce, PassExact
  <2>2. pc' = "walk" => Ahead' = Listed
    BY <1>1, <2>1 DEF Ahead, Listed
  <2>3. InSeq(finished) = {} /\ Listed \intersect returned = {}
    BY <2>1 DEF InSeq, PassExact
  <2>4. cursor' <= made'
    BY <1>1, <2>1, ListedFacts DEF Nil
  <2>. QED
    BY <1>1, <1>2, <2>1, <2>2, <2>3, <2>4, StoredNotReturned DEF PassExact
<1>4. CASE DoExecute
  <2>1. /\ pc = "walk" /\ cursor \in Tasks /\ cursor' = cursor /\ finished' = finished
        /\ pc' = IF cursor \in returned THEN "crashed" ELSE "slice"
    BY <1>4 DEF DoExecute, LoopInv
  <2>2. cursor \in Ahead
    BY <2>1, ChainSteps, ListedFacts DEF Ahead
  <2>3. pc' = "slice"
    BY <2>1, <2>2 DEF PassExact
  <2>4. Ahead' = Ahead
    BY <1>1, <2>1, ListedSame
  <2>. QED
    BY <1>1, <1>2, <2>1, <2>3, <2>4 DEF PassExact
<1>5. CASE Run \/ Stop \/ WalkDone \/ PassDone \/ UNCHANGED vars
  <2>1. /\ cursor' = cursor /\ finished' = finished
        /\ \/ pc = "setup" /\ op[Host].step = "none" /\ pc' = "test"
           \/ pc = "walk" /\ pc' = "finish"
           \/ pc = "finish" /\ finished = <<>> /\ pc' = "test"
           \/ pc' = pc
    BY <1>5 DEF Run, Stop, WalkDone, PassDone, vars, loop
  <2>2. Ahead' = Ahead
    BY <1>1, <2>1, ListedSame
  <2>. QED
    BY <1>1, <1>2, <2>1, <2>2 DEF PassExact
<1>. QED
  BY <1>3, <1>4, <1>5

\* The inductive invariant, beside the descending links and the loop's types.
ListHolds == ~torn => OneExact /\ PassExact

\* Nothing was torn before a step after which nothing is.
LEMMA TornStays == [Next]_vars /\ ~torn' => ~torn
<1>. SUFFICES ASSUME [Next]_vars, torn PROVE torn'
  BY Zenon
<1>1. ASSUME NEW a \in Actors, AddLink(a) PROVE torn'
  BY <1>1, Zenon DEF AddLink
<1>2. ASSUME NEW a \in Actors, NEW t \in Links, EndProcess(a, t) PROVE torn'
  BY <1>2, Zenon DEF EndProcess, Remove
<1>3. ASSUME RemoveFinished PROVE torn'
  BY <1>3, Zenon DEF RemoveFinished, Remove
<1>4. ASSUME TimeExpired PROVE torn'
  BY <1>4, Zenon DEF TimeExpired
<1>5. ASSUME torn' = torn PROVE torn'
  BY <1>5, Zenon
<1>6. ASSUME NEW a \in Actors, ListStep(a) PROVE torn' = torn
  BY <1>6 DEF ListStep, Absent, Seek, Found, Relink, StoreElements, ReadSize, StoreSize, ghosts
<1>7. ASSUME Run \/ RunOnce \/ DoExecute \/ Returned \/ Stop \/ WalkDone \/ PassDone
             \/ UNCHANGED vars
      PROVE  torn' = torn
  BY <1>7 DEF Run, RunOnce, DoExecute, Returned, Stop, WalkDone, PassDone, ghosts, vars
<1>. QED
  BY <1>1, <1>2, <1>3, <1>4, <1>5, <1>6, <1>7, Zenon DEF Next

LEMMA StepListHolds ==
  ListInv /\ LoopInv /\ ListInv' /\ ListHolds /\ [Next]_vars => ListHolds'
<1>. SUFFICES ASSUME ListInv, LoopInv, ListInv', ListHolds, [Next]_vars, ~torn'
              PROVE  OneExact' /\ PassExact'
  BY Zenon DEF ListHolds
<1>1. OneExact /\ PassExact
  BY TornStays, Zenon DEF ListHolds
<1>2. ASSUME NEW a \in Actors, ListStep(a) PROVE OneExact' /\ PassExact'
  BY <1>1, <1>2, AbsentExact, SeekExact, FoundExact, RelinkExact, StoreElementsExact,
     ReadSizeExact, StoreSizeExact, Zenon DEF ListStep
<1>3. ASSUME NEW a \in Actors, AddLink(a) PROVE OneExact' /\ PassExact'
  BY <1>1, <1>3, AddLinkExact, Zenon
<1>4. ASSUME NEW a \in Actors, NEW t \in Links, EndProcess(a, t) PROVE OneExact' /\ PassExact'
  BY <1>1, <1>4, EndProcessExact, Zenon
<1>5. ASSUME RemoveFinished PROVE OneExact' /\ PassExact'
  BY <1>1, <1>5, RemoveFinishedExact, Zenon
<1>6. ASSUME TimeExpired \/ Returned PROVE OneExact' /\ PassExact'
  BY <1>1, <1>6, TimeExpiredExact, ReturnedExact, Zenon
<1>7. ASSUME Run \/ RunOnce \/ DoExecute \/ Stop \/ WalkDone \/ PassDone \/ UNCHANGED vars
      PROVE  OneExact' /\ PassExact'
  BY <1>1, <1>7, BetweenExact, Zenon
<1>. QED
  BY <1>2, <1>3, <1>4, <1>5, <1>6, <1>7, Zenon DEF Next

\* The list is empty at the start.
LEMMA InitListHolds == Init => ListHolds
<1>. SUFFICES ASSUME Init PROVE OneExact /\ PassExact
  BY Zenon DEF ListHolds
<1>1. ListInv
  BY InitListInv
<1>2. /\ elements = Nil /\ size = 0 /\ pc = "setup" /\ cursor = Nil /\ finished = <<>>
      /\ returned = {} /\ made = 0 /\ ended = {}
      /\ \A b \in Actors : op[b] = NoOp
  BY DEF Init
<1>3. Host \in Actors /\ NoOp \in Ops /\ NoOp.step = "none"
  BY <1>1, NoOpDescends, ListedFacts DEF Actors, NoOp, ListOp
<1>4. Listed = {}
  BY <1>1, <1>2, ListedFacts, ChainSteps DEF Listed
<1>5. Length = 0
  BY <1>4, FS_EmptySet DEF Length
<1>6. Links = {}
  BY <1>2 DEF Links
<1>7. OpExact(NoOp)
  BY <1>2, <1>3, <1>4, <1>5, <1>6 DEF OpExact, Kept
<1>8. Alone(Host)
  BY <1>2, <1>3 DEF Alone
<1>9. OneExact
  BY <1>2, <1>3, <1>7, <1>8 DEF OneExact
<1>10. PassExact
  BY <1>2, <1>3, <1>4, <1>6 DEF PassExact, InSeq, Nil
<1>. QED
  BY <1>9, <1>10

\* All three parts of the inductive invariant, from the start on.
LEMMA SpecHolds == Spec => [](ListInv /\ ListHolds)
<1>1. Init => ListInv /\ LoopInv /\ ListHolds
  BY InitListInv, InitLoopInv, InitListHolds
<1>2. ListInv /\ LoopInv /\ ListHolds /\ [Next]_vars => (ListInv /\ LoopInv /\ ListHolds)'
  BY StepListInv, StepLoopInv, StepListHolds
<1>. QED
  BY <1>1, <1>2, PTL DEF Spec

(***************************************************************************)
(* However many tasks are added, ended and return, and wherever a slice    *)
(* ends in List>>add: or remove:ifAbsent:, when no operation is under way  *)
(* and none was torn the list holds the tasks it should, and size is its   *)
(* length: the search, and the links stored on the way back, take out one  *)
(* task and lose no other.                                                 *)
(***************************************************************************)
THEOREM ListCorrect == Spec => []ListExact
<1>1. ListInv /\ ListHolds => ListExact
  <2>. SUFFICES ASSUME ListInv, ListHolds, ~torn, \A a \in Actors : op[a].step = "none"
                PROVE  /\ Links \ (ended \union returned) \subseteq Chain(elements)
                       /\ Chain(elements) \intersect ended = {}
                       /\ size = Cardinality(Chain(elements))
    BY Zenon DEF ListExact
  <2>1. OneExact
    BY Zenon DEF ListHolds
  <2>2. Chain(elements) = Listed
    BY DEF Chain, Listed
  <2>3. Host \in Actors /\ ~Overlaps(Host)
    BY DEF Actors, Overlaps
  <2>4. /\ size = Length /\ Listed \intersect ended = {}
        /\ Links \ (ended \union returned) \subseteq Listed
    BY <2>1, <2>3, BeginsAlone
  <2>. QED
    BY <2>2, <2>4 DEF Length
<1>. QED
  BY <1>1, SpecHolds, PTL

(***************************************************************************)
(* As long as no operation was torn, doExecute: is never sent to a process *)
(* that has returned or failed, in the same pass or a later one: execute() *)
(* is not called with nil for a context.                                   *)
(***************************************************************************)
THEOREM FinishedStayFinished == Spec => []FinishedNotResumed
<1>1. ListInv /\ ListHolds => FinishedNotResumed
  BY Zenon DEF ListHolds, PassExact, FinishedNotResumed
<1>. QED
  BY <1>1, SpecHolds, PTL
=============================================================================
