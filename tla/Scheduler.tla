----------------------------- MODULE Scheduler -----------------------------
(***************************************************************************)
(* The round-robin scheduler of the image and the List of tasks it walks.  *)
(* A task may add and end processes in its slice, that is change the list  *)
(* the scheduler is walking, and the slice may be over between any two     *)
(* bytecodes of List>>add: or List>>remove:ifAbsent:, which the task       *)
(* finishes in a later slice.                                              *)
(*                                                                         *)
(* A process is added once (Thread>>run makes a new one every time), so a  *)
(* Link is named by the process it holds, and both by the order in which   *)
(* the links were made.                                                    *)
(***************************************************************************)
EXTENDS Integers, Sequences, FiniteSets

CONSTANTS
  MaxTasks,   \* bound: how many processes are added
  MaxEnds     \* bound: how often endProcess: is sent

ASSUME SchedulerAssumption == MaxTasks \in Nat /\ MaxEnds \in Nat

Tasks == 1 .. MaxTasks
Nil == 0
Host == -1   \* the process that runs the scheduler itself, without a time limit

VARIABLES
  elements, size,   \* the instance variables of the List tasks
  next,             \* Link>>next, of the link that holds a task
  pc,               \* where Scheduler>>run is
  cursor,           \* the link Link>>do: has reached
  finished,         \* the List finished of runOnce
  stop,
  returned,         \* tasks whose process has returned or failed
  op,               \* the list operation every process is in
  made,             \* the links made so far
  ended, ends,      \* ghost: tasks endProcess: was sent for, and how often it was sent
  torn              \* ghost: a list operation overlapped another or was left undone

list == <<elements, size, next>>
loop == <<pc, cursor, finished, stop, returned>>
ghosts == <<ended, ends, torn>>
vars == <<list, made, loop, op, ghosts>>

Actors == Tasks \union {Host}
Links == 1 .. made

ListOp(step, task, link, delta) ==
  [step |-> step, task |-> task, link |-> link, path |-> <<>>, delta |-> delta, read |-> 0]
NoOp == ListOp("none", Nil, Nil, 0)

Init ==
  /\ elements = Nil /\ size = 0
  /\ next = [p \in Tasks |-> Nil]
  /\ pc = "setup" /\ cursor = Nil /\ finished = <<>>
  /\ stop = FALSE
  /\ returned = {}
  /\ op = [a \in Actors |-> NoOp]
  /\ made = 0
  /\ ended = {} /\ ends = 0
  /\ torn = FALSE

\* The process the virtual machine executes.
Running(a) ==
  \/ a = Host /\ pc \in {"setup", "remove"}
  \/ a = cursor /\ pc = "slice"

\* The links from c on when n leads from one to the next: the least set with c
\* that n does not lead out of.
ChainOf(n, c) ==
  {p \in Tasks :
     \A S \in SUBSET Tasks :
       c \in S \union {Nil} /\ (\A q \in S : n[q] \in S \union {Nil}) => p \in S}

Chain(c) == ChainOf(next, c)

Overlaps(a) == \E b \in Actors \ {a} : op[b].step # "none"

-----------------------------------------------------------------------------
\* List>>add: evaluates Link value: p next: elements ...
AddLink(a) ==
  LET p == made + 1 IN
  /\ Running(a) /\ pc # "remove"
  /\ op[a].step = "none"
  /\ p \in Tasks
  /\ made' = p
  /\ next' = [next EXCEPT ![p] = elements]
  /\ op' = [op EXCEPT ![a] = ListOp("store", Nil, p, 1)]
  /\ torn' = (torn \/ Overlaps(a))
  /\ UNCHANGED <<elements, size, loop, ended, ends>>

\* List>>remove:ifAbsent: begins.
Remove(a, p) ==
  /\ op[a].step = "none"
  /\ op' = [op EXCEPT ![a] = ListOp("seek", p, elements, -1)]
  /\ torn' = (torn \/ Overlaps(a))

\* Scheduler>>endProcess: of any task, the sender included.
EndProcess(a, p) ==
  /\ Running(a) /\ pc # "remove"
  /\ Remove(a, p)
  /\ ended' = ended \union {p}
  /\ ends < MaxEnds /\ ends' = ends + 1
  /\ UNCHANGED <<list, made, loop>>

(***************************************************************************)
(* The task is not in the list: endProcess: answers false, the remove: of  *)
(* runOnce sends emptyCollection, an error that halts the host.            *)
(***************************************************************************)
Absent(a) ==
  /\ op[a].step = "seek"
  /\ op[a].link = Nil
  /\ op' = [op EXCEPT ![a] = NoOp]
  /\ pc' = IF pc = "remove" THEN "halted" ELSE pc
  /\ UNCHANGED <<list, made, cursor, finished, stop, returned, ghosts>>

\* Link>>remove:ifAbsent: descends to the next link ...
Seek(a) ==
  LET o == op[a] IN
  /\ o.step = "seek"
  /\ o.link \notin {Nil, o.task}
  /\ op' = [op EXCEPT ![a].link = next[o.link], ![a].path = Append(@, o.link)]
  /\ UNCHANGED <<list, made, loop, ghosts>>

\* ... finds the task ...
Found(a) ==
  LET o == op[a] IN
  /\ o.step = "seek"
  /\ o.link # Nil /\ o.link = o.task
  /\ op' = [op EXCEPT ![a].link = next[o.link], ![a].step = "relink"]
  /\ UNCHANGED <<list, made, loop, ghosts>>

\* Mutant: the links on the way back are set to the start of the list.
RelinkToStart(a) ==
  LET o == op[a]
      n == Len(o.path) IN
  /\ o.step = "relink"
  /\ n > 0
  /\ next' = [next EXCEPT ![o.path[n]] = IF o.link = Nil THEN elements ELSE o.link]
  /\ op' = [op EXCEPT ![a].link = o.path[n], ![a].path = SubSeq(@, 1, n - 1)]
  /\ UNCHANGED <<elements, size, made, loop, ghosts>>

\* ... and on the way back stores next in every link it came through.
Relink(a) ==
  LET o == op[a]
      n == Len(o.path) IN
  /\ o.step = "relink"
  /\ n > 0
  /\ next' = [next EXCEPT ![o.path[n]] = o.link]
  /\ op' = [op EXCEPT ![a].link = o.path[n], ![a].path = SubSeq(@, 1, n - 1)]
  /\ UNCHANGED <<elements, size, made, loop, ghosts>>

\* Mutant: the first link is never replaced.
StoreElementsKeepsFirst(a) ==
  /\ op[a].step = "store" \/ (op[a].step = "relink" /\ op[a].path = <<>>)
  /\ elements' = IF op[a].step = "store" THEN op[a].link ELSE elements
  /\ op' = [op EXCEPT ![a].step = "read"]
  /\ UNCHANGED <<size, next, made, loop, ghosts>>

\* Both operations: elements <- ..., then size <- size + 1 or size - 1.
StoreElements(a) ==
  /\ op[a].step = "store" \/ (op[a].step = "relink" /\ op[a].path = <<>>)
  /\ elements' = op[a].link
  /\ op' = [op EXCEPT ![a].step = "read"]
  /\ UNCHANGED <<size, next, made, loop, ghosts>>

ReadSize(a) ==
  /\ op[a].step = "read"
  /\ op' = [op EXCEPT ![a].step = "count", ![a].read = size]
  /\ UNCHANGED <<list, made, loop, ghosts>>

StoreSize(a) ==
  /\ op[a].step = "count"
  /\ size' = op[a].read + op[a].delta
  /\ op' = [op EXCEPT ![a] = NoOp]
  /\ IF pc = "remove" THEN pc' = "finish" /\ finished' = Tail(finished)
                      ELSE UNCHANGED <<pc, finished>>
  /\ UNCHANGED <<elements, next, made, cursor, stop, returned, ghosts>>

ListStep(a) ==
  Running(a) /\ ( \/ Absent(a) \/ Seek(a) \/ Found(a) \/ Relink(a)
                  \/ StoreElements(a) \/ ReadSize(a) \/ StoreSize(a) )

-----------------------------------------------------------------------------
\* The main process has added its threads and calls Scheduler run.
Run ==
  /\ pc = "setup" /\ op[Host].step = "none"
  /\ pc' = "test"
  /\ stop' = FALSE
  /\ UNCHANGED <<list, made, cursor, finished, returned, op, ghosts>>

\* [stop] whileFalse: [self runOnce]
RunOnce ==
  /\ pc = "test"
  /\ pc' = IF stop THEN "done" ELSE "walk"
  /\ cursor' = IF stop THEN Nil ELSE elements
  /\ finished' = <<>>
  /\ UNCHANGED <<list, made, stop, returned, op, ghosts>>

(***************************************************************************)
(* task doExecute: granularity.  A process that has returned has nil for   *)
(* its context, and execute() would run nil's fields as one; one that has  *)
(* failed would go on behind the failed instruction.                       *)
(***************************************************************************)
DoExecute ==
  /\ pc = "walk" /\ cursor # Nil
  /\ pc' = IF cursor \in returned THEN "crashed" ELSE "slice"
  /\ UNCHANGED <<list, made, cursor, finished, stop, returned, op, ghosts>>

\* Mutant: do: takes the same link again.
TimeExpiredAgain ==
  /\ pc = "slice"
  /\ pc' = "walk"
  /\ torn' = (torn \/ (op[cursor].step # "none" /\ cursor \notin Chain(elements)))
  /\ UNCHANGED <<list, made, cursor, finished, stop, returned, op, ended, ends>>

\* The slice ends with result 5.
TimeExpired ==
  /\ pc = "slice"
  /\ pc' = "walk"
  /\ cursor' = next[cursor]
  /\ torn' = (torn \/ (op[cursor].step # "none" /\ cursor \notin Chain(elements)))
  /\ UNCHANGED <<list, made, finished, stop, returned, op, ended, ends>>

\* Mutant: the result of doExecute: is not looked at.
ReturnedKept ==
  /\ pc = "slice" /\ op[cursor].step = "none"
  /\ returned' = returned \union {cursor}
  /\ finished' = finished
  /\ pc' = "walk"
  /\ cursor' = next[cursor]
  /\ UNCHANGED <<list, made, stop, op, ghosts>>

\* The task returns or fails, outside of a list operation.
Returned ==
  /\ pc = "slice" /\ op[cursor].step = "none"
  /\ returned' = returned \union {cursor}
  /\ finished' = <<cursor>> \o finished
  /\ pc' = "walk"
  /\ cursor' = next[cursor]
  /\ UNCHANGED <<list, made, stop, op, ghosts>>

\* Scheduler>>stop sent by a task.
Stop ==
  /\ pc = "slice"
  /\ stop' = TRUE
  /\ UNCHANGED <<list, made, pc, cursor, finished, returned, op, ghosts>>

\* tasks do: is over.
WalkDone ==
  /\ pc = "walk" /\ cursor = Nil
  /\ pc' = "finish"
  /\ UNCHANGED <<list, made, cursor, finished, stop, returned, op, ghosts>>

\* finished do: [:task | tasks remove: task]
RemoveFinished ==
  /\ pc = "finish" /\ finished # <<>>
  /\ pc' = "remove"
  /\ Remove(Host, Head(finished))
  /\ UNCHANGED <<list, made, cursor, finished, stop, returned, ended, ends>>

\* Mutant: the result of the last pass is kept when tasks are left.
PassDoneSticky ==
  /\ pc = "finish" /\ finished = <<>>
  /\ pc' = "test"
  /\ stop' = (stop \/ size = 0)
  /\ UNCHANGED <<list, made, cursor, finished, returned, op, ghosts>>

PassDone ==
  /\ pc = "finish" /\ finished = <<>>
  /\ pc' = "test"
  /\ stop' = (size = 0)
  /\ UNCHANGED <<list, made, cursor, finished, returned, op, ghosts>>

Next ==
  \/ \E a \in Actors : AddLink(a) \/ ListStep(a) \/ \E p \in Links : EndProcess(a, p)
  \/ Run \/ RunOnce \/ DoExecute \/ TimeExpired \/ Returned \/ Stop
  \/ WalkDone \/ RemoveFinished \/ PassDone

Spec == Init /\ [][Next]_vars

\* The host's own steps, and the end of a slice after a limited number of ticks.
HostStep ==
  \/ RunOnce \/ DoExecute \/ TimeExpired \/ WalkDone \/ RemoveFinished \/ PassDone
  \/ ListStep(Host)

FairSpec == Spec /\ WF_vars(HostStep)

-----------------------------------------------------------------------------
Ops == [step : {"none", "store", "seek", "relink", "read", "count"},
        task : Tasks \union {Nil}, link : Tasks \union {Nil}, path : Seq(Tasks),
        delta : {-1, 0, 1}, read : Int]

TypeOK ==
  /\ elements \in Tasks \union {Nil} /\ size \in Int
  /\ next \in [Tasks -> Tasks \union {Nil}]
  /\ pc \in {"setup", "test", "walk", "slice", "finish", "remove", "done", "halted", "crashed"}
  /\ cursor \in Tasks \union {Nil}
  /\ finished \in Seq(Tasks)
  /\ stop \in BOOLEAN
  /\ returned \in SUBSET Tasks
  /\ op \in [Actors -> Ops]
  /\ made \in 0 .. MaxTasks
  /\ ended \in SUBSET Tasks /\ ends \in 0 .. MaxEnds
  /\ torn \in BOOLEAN

(***************************************************************************)
(* However the operations of several tasks overlap, a link only ever leads *)
(* to an older one, so the list has no cycle and a pass comes to its end.  *)
(***************************************************************************)
ListDescends ==
  elements <= made /\ \A p \in Tasks : next[p] < p

(***************************************************************************)
(* Unless an operation was torn, the list between operations holds     *)
(* every task that was added and has neither been removed after its return *)
(* nor ended, and size is its length.                                      *)
(***************************************************************************)
ListExact ==
  ~torn /\ (\A a \in Actors : op[a].step = "none") =>
    /\ Links \ (ended \union returned) \subseteq Chain(elements)
    /\ Chain(elements) \intersect ended = {}
    /\ size = Cardinality(Chain(elements))

(***************************************************************************)
(* A process that has returned is not executed again: its context is nil.  *)
(***************************************************************************)
FinishedNotResumed == ~torn => pc # "crashed"

\* A pass of runOnce ends, in its regular way or with the error of remove:.
PassEnds == pc = "walk" ~> pc \in {"test", "halted", "crashed"}

(***************************************************************************)
(* Every task in the list gets a slice, again and again, unless it is      *)
(* ended, an operation is torn or the host is halted by its own remove:.     *)
(***************************************************************************)
RoundRobin ==
  \A p \in Tasks :
    pc = "test" /\ p \in Chain(elements) ~>
      (pc = "slice" /\ cursor = p) \/ p \in ended \union returned \/ torn \/ pc = "halted"
=============================================================================
