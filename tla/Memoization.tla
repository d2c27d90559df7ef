----------------------------- MODULE Memoization -----------------------------
(***************************************************************************)
(* The memoized functions every document passes through, and their locks:  *)
(* Memoizer.Memoize and Memoize2 (SolrNet/Utils/Memoizer.cs), as they are  *)
(* used by MemoizingMappingManager and GenericDictionaryDocumentVisitor.   *)
(*                                                                         *)
(* Each memoized function has one dictionary, and holds that dictionary's  *)
(* monitor while it looks a key up, while it computes the value, and while *)
(* it stores it; GetRegisteredTypes does the same with a lock of its own   *)
(* and a single value.  thisField calls fields and canHandle as it         *)
(* computes, so a thread may hold one monitor while it waits for another.  *)
(***************************************************************************)
EXTENDS Naturals, Sequences, FiniteSets

CONSTANTS
  Threads,     \* threads that load documents, all through one container
  DocTypes,    \* document types
  FieldNames,  \* names of fields in Solr's responses
  PropTypes,   \* types of the mapped properties
  PropsOf,     \* [DocTypes -> Seq(PropTypes)]: the mapped properties
  Values,      \* what the memoized functions may return, at different times
  None,        \* no value
  Nobody       \* no thread

ASSUME PropsAssumption == PropsOf \in [DocTypes -> Seq(PropTypes)]
ASSUME NoneAssumption == None \notin Values /\ Nobody \notin Threads

FieldsOf(d) == [table |-> "fields", arg |-> d]
UniqueKeyOf(d) == [table |-> "uniqueKey", arg |-> d]
CanHandle(p) == [table |-> "canHandle", arg |-> p]
RegisteredTypes == [table |-> "registeredTypes", arg |-> None]
ThisField(d, f) == [table |-> "thisField", arg |-> <<d, f>>]

\* The calls of memoized functions, and the dictionaries that answer them.
Calls == {FieldsOf(d) : d \in DocTypes} \cup {UniqueKeyOf(d) : d \in DocTypes}
         \cup {RegisteredTypes} \cup {CanHandle(p) : p \in PropTypes}
         \cup {ThisField(d, f) : d \in DocTypes, f \in FieldNames}

Tables == {"fields", "uniqueKey", "registeredTypes", "canHandle", "thisField"}

\* What a function calls while it computes.  GetThisField asks the mapper for
\* the fields, then asks canHandle about the mapped properties one by one.
Inner_canHandleAsksMapper(c) ==
  IF c.table = "canHandle" THEN <<FieldsOf(CHOOSE d \in DocTypes : TRUE)>> ELSE <<>>
Inner_keyedByField(c) ==
  IF c.table = "thisField" THEN <<FieldsOf(c.arg[1]), CanHandle(c.arg[2])>> ELSE <<>>
Inner(c) ==
  IF c.table = "thisField"
  THEN LET d == c.arg[1]
       IN  <<FieldsOf(d)>> \o [i \in DOMAIN PropsOf[d] |-> CanHandle(PropsOf[d][i])]
  ELSE <<>>

VARIABLES
  memo,   \* [Calls -> Values \cup {None}]: the dictionaries
  owner,  \* [Tables -> Threads \cup {Nobody}]: their monitors
  stack,  \* [Threads -> Seq(Frame)]: calls under way, the innermost last
  got     \* history: [Calls -> SUBSET Values], what callers were given

vars == <<memo, owner, stack, got>>

\* phase: waiting for the monitor, computing with the inner calls still to
\* make, leaving with a value, or unwinding an exception.
Frame == [call : Calls, phase : {"enter", "compute", "exit", "unwind"},
          todo : Seq(Calls), value : Values \cup {None}]

TypeOK ==
  /\ memo \in [Calls -> Values \cup {None}]
  /\ owner \in [Tables -> Threads \cup {Nobody}]
  /\ stack \in [Threads -> Seq(Frame)]
  /\ got \in [Calls -> SUBSET Values]

Init ==
  /\ memo = [c \in Calls |-> None]
  /\ owner = [b \in Tables |-> Nobody]
  /\ stack = [t \in Threads |-> <<>>]
  /\ got = [c \in Calls |-> {}]

-----------------------------------------------------------------------------
Entering(c) == [call |-> c, phase |-> "enter", todo |-> <<>>, value |-> None]

Idle(t) == stack[t] = <<>>
Depth(t) == Len(stack[t])
Top(t) == stack[t][Depth(t)]
TopIn(t, ph) == ~Idle(t) /\ Top(t).phase = ph

SetTop(t, f) == stack' = [stack EXCEPT ![t][Depth(t)] = f]
Pop(t) == SubSeq(stack[t], 1, Depth(t) - 1)

\* A monitor is reentrant: it is free again when the outermost of the frames
\* that entered it leaves.
Release(t) ==
  LET b == Top(t).call.table
  IN  owner' = [owner EXCEPT ![b] =
                  IF \E i \in 1..(Depth(t) - 1) : stack[t][i].call.table = b THEN t ELSE Nobody]

\* A thread calls a memoized function from outside.
Call(t, c) ==
  /\ Idle(t)
  /\ stack' = [stack EXCEPT ![t] = <<Entering(c)>>]
  /\ UNCHANGED <<memo, owner, got>>

\* lock (results), then TryGetValue.
Enter_withoutMonitor(t) ==
  LET c == Top(t).call IN
  /\ TopIn(t, "enter")
  /\ SetTop(t, IF memo[c] # None
               THEN [Top(t) EXCEPT !.phase = "exit", !.value = memo[c]]
               ELSE [Top(t) EXCEPT !.phase = "compute", !.todo = Inner(c)])
  /\ owner' = [owner EXCEPT ![c.table] = t]
  /\ UNCHANGED <<memo, got>>
Enter(t) ==
  /\ TopIn(t, "enter")
  /\ LET c == Top(t).call IN
     /\ owner[c.table] \in {Nobody, t}
     /\ owner' = [owner EXCEPT ![c.table] = t]
     /\ SetTop(t, IF memo[c] # None
                  THEN [Top(t) EXCEPT !.phase = "exit", !.value = memo[c]]
                  ELSE [Top(t) EXCEPT !.phase = "compute", !.todo = Inner(c)])
  /\ UNCHANGED <<memo, got>>

\* The function being computed calls another memoized function.
CallInner(t) ==
  /\ TopIn(t, "compute")
  /\ Top(t).todo # <<>>
  /\ stack' = [stack EXCEPT ![t] =
       Append([stack[t] EXCEPT ![Depth(t)].todo = Tail(Top(t).todo)], Entering(Head(Top(t).todo)))]
  /\ UNCHANGED <<memo, owner, got>>

\* The function has its value, and it is added to the dictionary.  The LINQ
\* query of GetThisField is lazy: once it has the fields it may stop asking
\* canHandle as soon as it has found a match.
Compute(t) ==
  /\ TopIn(t, "compute")
  /\ \A i \in DOMAIN Top(t).todo : Top(t).todo[i].table = "canHandle"
  /\ \E v \in Values :
       /\ memo' = [memo EXCEPT ![Top(t).call] = v]
       /\ SetTop(t, [Top(t) EXCEPT !.phase = "exit", !.todo = <<>>, !.value = v])
  /\ UNCHANGED <<owner, got>>

\* The function throws: an ambiguous mapping, reflection failing on a type.
Throw(t) ==
  /\ TopIn(t, "compute")
  /\ SetTop(t, [Top(t) EXCEPT !.phase = "unwind", !.todo = <<>>])
  /\ UNCHANGED <<memo, owner, got>>

\* The value is returned and the monitor released.
Exit(t) ==
  /\ TopIn(t, "exit")
  /\ Release(t)
  /\ stack' = [stack EXCEPT ![t] = Pop(t)]
  /\ got' = [got EXCEPT ![Top(t).call] = @ \cup {Top(t).value}]
  /\ UNCHANGED memo

\* An exception leaves the frame, releases its monitor and reaches the
\* function that made the call, which does not catch it.
Unwind_leavesLockTaken(t) ==
  /\ TopIn(t, "unwind")
  /\ stack' = [stack EXCEPT ![t] =
       IF Depth(t) = 1 THEN <<>> ELSE [Pop(t) EXCEPT ![Depth(t) - 1].phase = "unwind"]]
  /\ UNCHANGED <<memo, owner, got>>
Unwind(t) ==
  /\ TopIn(t, "unwind")
  /\ Release(t)
  /\ stack' = [stack EXCEPT ![t] =
       IF Depth(t) = 1 THEN <<>>
       ELSE [Pop(t) EXCEPT ![Depth(t) - 1].phase = "unwind", ![Depth(t) - 1].todo = <<>>]]
  /\ UNCHANGED <<memo, got>>

Step(t) == Enter(t) \/ CallInner(t) \/ Compute(t) \/ Throw(t) \/ Exit(t) \/ Unwind(t)

Next == \E t \in Threads : Step(t) \/ \E c \in Calls : Call(t, c)

\* A thread that runs goes on running, and a monitor that is released again
\* and again is in the end given to each thread that waits for it; nobody has
\* to make another call.
Fairness ==
  \A t \in Threads :
    /\ SF_vars(Enter(t))
    /\ WF_vars(CallInner(t) \/ Compute(t) \/ Throw(t) \/ Exit(t) \/ Unwind(t))

Spec == Init /\ [][Next]_vars
FairSpec == Spec /\ Fairness

-----------------------------------------------------------------------------
(* Properties *)

Inside(t, i) == stack[t][i].phase # "enter"

\* The monitors are held by exactly the threads that are inside: no thread
\* computes or stores without the monitor, and no monitor outlives the call,
\* not even one that ended in an exception.
MonitorsMatchCalls ==
  \A b \in Tables, t \in Threads :
    owner[b] = t <=> \E i \in 1..Depth(t) : Inside(t, i) /\ stack[t][i].call.table = b

\* results.Add never throws "an item with the same key has already been
\* added": a value being computed is not in the dictionary.
AddNeverCollides ==
  \A t \in Threads : \A i \in 1..Depth(t) :
    stack[t][i].phase = "compute" => memo[stack[t][i].call] = None

\* All callers of a memoized function get one and the same value for a key,
\* whatever the function would return at another time.
CallersAgree == \A c \in Calls : \A v, w \in got[c] : v = w

\* A thread that holds a monitor waits only for monitors further down the
\* order thisField, fields, canHandle (the others call nothing): no cycle of
\* waiting threads can form.
Rank(b) == CASE b = "thisField" -> 2 [] b = "fields" -> 1 [] OTHER -> 0
LocksOrdered ==
  \A t \in Threads : \A i \in 1..(Depth(t) - 1) :
    Rank(stack[t][i].call.table) > Rank(Top(t).call.table)

\* Every call returns or throws, however the other threads' calls overlap it.
EveryCallReturns == \A t \in Threads : ~Idle(t) ~> Idle(t)
=============================================================================
