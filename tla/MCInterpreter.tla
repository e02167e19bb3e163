--------------------------- MODULE MCInterpreter ---------------------------
(* Small instances of Interpreter.  A state in which an active block was   *)
(* re-entered is checked and not explored further: TailCallsTransparent,   *)
(* SavedStackExact and ChainEnds say nothing of what follows.              *)
EXTENDS Interpreter

MCQuanta == {0, 2}

NotReentered == ~reentered

(* Two processes share up to four contexts and are switched after every    *)
(* instruction; a process that runs alone and without a time limit, and    *)
(* keeps its stacks low, may have five.                                    *)
RunsAlone ==
  /\ running # 2 /\ procContext[2] = 2 /\ savedPointer[2] = "any"
  /\ stackTop <= 1 /\ \A c \in Contexts : savedTop[c] <= 1

Unlimited == running # None => ticks = 0

Explored ==
  /\ NotReentered
  /\ \/ RunsAlone /\ Unlimited
     \/ allocated <= 4 /\ (running = None \/ ~Unlimited)
=============================================================================
