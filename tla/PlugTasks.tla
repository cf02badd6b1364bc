----------------------------- MODULE PlugTasks -----------------------------
(***************************************************************************)
(* The task scheduler (lib/task/TaskScheduler.h): a chain of tasks, each   *)
(* enabled or not, and passes over that chain.  A callback may call        *)
(* execute() itself: the passes form a stack, and each holds, as execute() *)
(* does in nextTask, the task it goes on with, read before the callback    *)
(* of the one it is at.                                                    *)
(*                                                                         *)
(* Time is counted in ticks.  age is millis() - iPreviousMillis, wait is   *)
(* iDelay, left is iIterations (-1: for ever).                             *)
(***************************************************************************)
EXTENDS Integers, SequencesExt

CONSTANTS Tasks, None,   \* the tasks, and the end of the chain
          Interval,      \* [Tasks -> ticks], iInterval
          Times,         \* [Tasks -> iSetIterations]
          MaxTicks       \* bound: how far the age of a task is counted

ASSUME TasksAssumption ==
    /\ None \notin Tasks
    /\ Interval \in [Tasks -> Nat]
    /\ Times \in [Tasks -> {-1, 1}]
    /\ MaxTicks \in Nat /\ \A t \in Tasks : Interval[t] <= MaxTicks

VARIABLES chain,    \* iFirst ... iLast
          task,     \* what the scheduler knows of each task
          passes,   \* the executions of execute() in progress: nextTask of each
          active    \* the callbacks in progress

tvars == <<chain, task, passes, active>>

(***************************************************************************)
(* What the calls on a task make of its record.                            *)
(***************************************************************************)
Fresh(t) == [on |-> FALSE, age |-> 0, wait |-> 0, left |-> Times[t]]

Forced(t, r) == IF r.on THEN [r EXCEPT !.age = Interval[t], !.wait = Interval[t]]
                       ELSE r
Enabled(t, r) == Forced(t, [r EXCEPT !.on = TRUE])
EnabledIfNot(t, r) == IF r.on THEN r ELSE Enabled(t, r)

(* The times of a disabled task are of no account: enable() sets them.     *)
Disabled(r) == [r EXCEPT !.on = FALSE, !.age = 0, !.wait = 0]

(* set() followed by enable(): how an anonymous task is used again.        *)
Armed(t) == Enabled(t, Fresh(t))

(* execute() takes a task that is due: the next iteration is counted from  *)
(* the time this one was due, not from now.                                *)
Ran(t, r) ==
    [r EXCEPT !.age = @ - r.wait, !.wait = Interval[t],
              !.left = IF @ > 0 THEN @ - 1 ELSE @]

InChain(t) == Contains(chain, t)

(* deleteTask of each task of D: the others keep their order.              *)
Without(s, D) ==
    LET kept[i \in 0 .. Len(s)] ==
            IF i = 0 THEN <<>>
            ELSE IF s[i] \in D THEN kept[i - 1] ELSE Append(kept[i - 1], s[i])
    IN  kept[Len(s)]

(* addTask: a task that is not in the chain is put at its end.             *)
With(s, t) == IF Contains(s, t) THEN s ELSE Append(s, t)

First == IF chain = <<>> THEN None ELSE Head(chain)

(* iNext of a task, NULL for one that was deleted from the chain.          *)
Following(t) ==
    LET at == {i \in DOMAIN chain : chain[i] = t /\ i < Len(chain)}
    IN  IF at = {} THEN None ELSE chain[1 + CHOOSE i \in at : TRUE]

Scanning == Len(passes) = Len(active) + 1

Top == Last(passes)

Due(t) ==
    /\ task[t].on
    /\ task[t].left # 0
    /\ task[t].age >= task[t].wait

UsedUp(t) == task[t].on /\ task[t].left = 0

HasWork(t) == Due(t) \/ UsedUp(t)

-----------------------------------------------------------------------------
Execute == passes' = Append(passes, First)

MoveOn == passes' = [passes EXCEPT ![Len(passes)] = Following(Top)]

(* Tasks with nothing to do are passed over, in one step: what another     *)
(* thread makes due behind the pass waits for the next one anyhow.         *)
NextWith(t) ==
    LET after == {i \in DOMAIN chain : HasWork(chain[i])
                      /\ \E j \in DOMAIN chain : chain[j] = t /\ j < i}
    IN  IF after = {} THEN None ELSE chain[Min(after)]

Skip ==
    /\ Scanning
    /\ Top # None
    /\ ~ HasWork(Top)
    /\ passes' = [passes EXCEPT ![Len(passes)] = NextWith(Top)]
    /\ UNCHANGED <<chain, task, active>>

(* A task whose iterations are used up is disabled.                        *)
Expire ==
    /\ Scanning
    /\ Top # None
    /\ UsedUp(Top)
    /\ task' = [task EXCEPT ![Top] = Disabled(@)]
    /\ MoveOn
    /\ UNCHANGED <<chain, active>>

(* The callback of a due task begins; t is left to the caller.             *)
Take(t) ==
    /\ Scanning
    /\ Top = t
    /\ Due(t)

EndPass ==
    /\ Scanning
    /\ Top = None
    /\ passes' = Front(passes)
    /\ UNCHANGED <<chain, task, active>>

Return == active' = Front(active)

(* A tick passes for every task; a task that waits to be run is not        *)
(* counted beyond MaxTicks.                                                *)
Tick ==
    /\ task' = [t \in Tasks |->
                   IF task[t].on
                   THEN [task[t] EXCEPT !.age = IF @ < MaxTicks THEN @ + 1 ELSE @]
                   ELSE task[t]]
    /\ UNCHANGED <<chain, passes, active>>

TasksInit ==
    /\ chain = <<>>
    /\ task = [t \in Tasks |-> Fresh(t)]
    /\ passes = <<>>
    /\ active = <<>>

TasksType ==
    /\ chain \in Seq(Tasks)
    /\ task \in [Tasks -> [on : BOOLEAN, age : Int, wait : Nat, left : -1 .. 1]]
    /\ passes \in Seq(Tasks \cup {None})
    /\ active \in Seq(Tasks)

(***************************************************************************)
(* The chain never holds a task twice, only tasks of the chain are         *)
(* enabled, and callbacks and passes nest: a pass that was begun inside a  *)
(* callback ends before the callback does (addTask, enable, execute).      *)
(***************************************************************************)
TasksSound ==
    /\ \A i, j \in DOMAIN chain : chain[i] = chain[j] => i = j
    /\ \A t \in Tasks : task[t].on => InChain(t)
    /\ Len(passes) \in {Len(active), Len(active) + 1}
=============================================================================
