---------------------------- MODULE MCJITRuntime ----------------------------
(* Object and a subclass.  run sends bar twice and, from its block, run at  *)
(* the node index of the first; bar has a second version in Object and one  *)
(* in the subclass.  The subclass and its method move.                      *)
EXTENDS JITRuntime, TLC

CONSTANTS object, sub, run, bar, dnu, mRun, mBar, mBarNew, mBarSub, mDnu

MCMethods == {mRun, mBar, mBarNew, mBarSub, mDnu}
MCKlass == [m \in MCMethods |-> IF m = mBarSub THEN sub ELSE object]
MCName == [m \in MCMethods |-> CASE m = mRun -> run [] m = mDnu -> dnu [] OTHER -> bar]
MCParentClass == object :> Nil @@ sub :> object
None == [i \in {} |-> Nil]
MCSends == [m \in MCMethods |->
              IF m = mRun THEN [method |-> 1 :> bar @@ 2 :> bar, block |-> 1 :> run]
              ELSE [method |-> None, block |-> None]]
MCInstalled == {mRun, mBar, mBarSub, mDnu}
MCStaticAddress == object :> 1 @@ mRun :> 2 @@ mBar :> 3 @@ mBarNew :> 4 @@ mDnu :> 5
MCSpaceOne == {7, 8}
MCSpaceTwo == {9, 10}
\* mBar and mDnu share a line; a semispace is spread over the lines.
MCLine(a) == a % 2

(* A class is allocated before its methods, and the heap is filled from the *)
(* top: until the first collection it lies above them.                      *)
Explored == moves = 0 => loc[sub] > loc[mBarSub]
=============================================================================
