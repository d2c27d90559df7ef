------------------------- MODULE MemoizationProofs -------------------------
(***************************************************************************)
(* Proofs about Memoization, for any threads, document types, properties   *)
(* and fields.  Calls of memoized functions nest at most two deep, in the  *)
(* order of their monitors; what is computed is computed by the thread     *)
(* that has the monitor, so that it is computed once; and what is stored   *)
(* stays.                                                                  *)
(***************************************************************************)
EXTENDS Memoization, SequenceTheorems, TLAPS

-----------------------------------------------------------------------------
(* The inductive invariant, in terms of the stack of each thread *)

\* thisField calls fields and canHandle, which call nothing.
Leaf == {"fields", "canHandle"}
WellNested(s) ==
  /\ Len(s) \in {0, 1, 2}
  /\ \A i \in 1..Len(s) : \A j \in DOMAIN s[i].todo :
       s[i].call.table = "thisField" /\ s[i].todo[j].table \in Leaf
  /\ Len(s) = 2 => /\ s[1].phase = "compute"
                   /\ s[1].call.table = "thisField"
                   /\ s[2].call.table \in Leaf

\* What a frame of a stack knows of the dictionaries.
FramesFit(s, m) ==
  \A i \in 1..Len(s) :
    /\ s[i].phase = "compute" => m[s[i].call] = None
    /\ s[i].phase = "exit" => m[s[i].call] = s[i].value /\ s[i].value \in Values

Holds(s, b) == \E i \in 1..Len(s) : s[i].phase # "enter" /\ s[i].call.table = b

Nested == \A t \in Threads : WellNested(stack[t])
Fit == \A t \in Threads : FramesFit(stack[t], memo)
Held == \A b \in Tables, t \in Threads : owner[b] = t <=> Holds(stack[t], b)
Given == \A c \in Calls : \A v \in got[c] : v = memo[c]

IInv == TypeOK /\ Nested /\ Held /\ Fit /\ Given

-----------------------------------------------------------------------------
(* Calls *)

LEMMA TablesOfCalls == \A c \in Calls : c.table \in Tables
BY DEF Calls, Tables, FieldsOf, UniqueKeyOf, RegisteredTypes, CanHandle, ThisField

\* What a function calls.
LEMMA InnerCalls ==
  ASSUME NEW c \in Calls
  PROVE  /\ Inner(c) \in Seq(Calls)
         /\ \A j \in DOMAIN Inner(c) : c.table = "thisField" /\ Inner(c)[j].table \in Leaf
<1>1. CASE c.table = "thisField"
  <2>1. PICK d \in DocTypes, f \in FieldNames : c = ThisField(d, f)
    BY <1>1 DEF Calls, FieldsOf, UniqueKeyOf, RegisteredTypes, CanHandle, ThisField
  <2>2. c.arg[1] = d
    BY <2>1 DEF ThisField
  <2> DEFINE asked == [i \in DOMAIN PropsOf[d] |-> CanHandle(PropsOf[d][i])]
             L == {x \in Calls : x.table \in Leaf}
  <2>3. PropsOf[d] \in Seq(PropTypes)
    BY PropsAssumption
  <2>4. Len(PropsOf[d]) \in Nat /\ DOMAIN PropsOf[d] = 1..Len(PropsOf[d])
    BY <2>3, LenProperties
  <2>5. \A i \in DOMAIN PropsOf[d] : CanHandle(PropsOf[d][i]) \in L
    <3> SUFFICES ASSUME NEW i \in DOMAIN PropsOf[d] PROVE CanHandle(PropsOf[d][i]) \in L
      OBVIOUS
    <3>1. PropsOf[d][i] \in PropTypes
      BY <2>3, <2>4, ElementOfSeq
    <3> QED
      BY <3>1 DEF Calls, CanHandle, Leaf
  <2>6. asked \in [1..Len(PropsOf[d]) -> L]
    BY <2>4, <2>5
  <2>7. asked \in Seq(L)
    BY <2>4, <2>6, SeqDef
  <2>8. FieldsOf(d) \in L
    BY DEF Calls, FieldsOf, Leaf
  <2> HIDE DEF asked, L
  <2>9. <<FieldsOf(d)>> \in Seq(L)
    BY <2>8
  <2>10. <<FieldsOf(d)>> \o asked \in Seq(L)
    BY <2>7, <2>9, ConcatProperties
  <2>11. Inner(c) = <<FieldsOf(d)>> \o asked
    BY <1>1, <2>2 DEF Inner, asked
  <2>12. \A j \in DOMAIN Inner(c) : Inner(c)[j] \in L
    BY <2>10, <2>11, LenProperties, ElementOfSeq
  <2>13. Inner(c) \in Seq(Calls)
    BY <2>10, <2>11, SeqMonotonic DEF L
  <2> QED
    BY <1>1, <2>12, <2>13 DEF L
<1>2. CASE c.table # "thisField"
  BY <1>2 DEF Inner
<1> QED
  BY <1>1, <1>2

-----------------------------------------------------------------------------
(* Stacks *)

\* The top of a stack is exchanged.
LEMMA TopExchanged ==
  ASSUME TypeOK, NEW t \in Threads, ~Idle(t), NEW f \in Frame, SetTop(t, f)
  PROVE  \E s \in Seq(Frame) :
           /\ stack' = [stack EXCEPT ![t] = s]
           /\ Len(s) = Depth(t) /\ s[Depth(t)] = f
           /\ \A i \in 1..(Depth(t) - 1) : s[i] = stack[t][i]
<1> DEFINE s == [stack[t] EXCEPT ![Depth(t)] = f]
<1>1. stack[t] \in Seq(Frame) /\ Len(stack[t]) \in Nat /\ stack[t] # <<>>
  BY LenProperties DEF TypeOK, Idle
<1>2. Depth(t) \in 1..Len(stack[t])
  BY <1>1, EmptySeq DEF Depth
<1>3. /\ s \in Seq(Frame) /\ Len(s) = Len(stack[t])
      /\ \A j \in 1..Len(stack[t]) : s[j] = IF j = Depth(t) THEN f ELSE stack[t][j]
  BY <1>1, <1>2, ExceptSeq
<1>4. stack' = [stack EXCEPT ![t] = s]
  BY DEF SetTop, TypeOK
<1>5. Len(s) = Depth(t) /\ s[Depth(t)] = f
  BY <1>2, <1>3 DEF Depth
<1>6. \A i \in 1..(Depth(t) - 1) : s[i] = stack[t][i]
  BY <1>1, <1>2, <1>3 DEF Depth
<1> HIDE DEF s
<1> QED
  BY <1>3, <1>4, <1>5, <1>6

LEMMA EmptyDomain ==
  ASSUME NEW S, NEW q \in Seq(S), DOMAIN q = {}
  PROVE  q = <<>>
<1>1. Len(q) \in Nat /\ DOMAIN q = 1..Len(q)
  BY LenProperties
<1>2. Len(q) = 0
  BY <1>1
<1> QED
  BY <1>2, EmptySeq

\* The top of a stack, and what is below it.
LEMMA Tops ==
  ASSUME TypeOK, Nested, NEW t \in Threads, ~Idle(t)
  PROVE  /\ stack[t] \in Seq(Frame) /\ Top(t) \in Frame /\ Top(t) = stack[t][Depth(t)]
         /\ Depth(t) \in {1, 2} /\ Depth(t) = Len(stack[t]) /\ Depth(t) \in 1..Len(stack[t])
         /\ Top(t).call \in Calls /\ Top(t).call.table \in Tables
         /\ \A i \in 1..Depth(t) : stack[t][i] \in Frame
<1>1. stack[t] \in Seq(Frame) /\ stack[t] # <<>>
  BY DEF TypeOK, Idle
<1>2. Len(stack[t]) \in {1, 2}
  BY <1>1, EmptySeq DEF Nested, WellNested
<1>3. \A i \in 1..Len(stack[t]) : stack[t][i] \in Frame
  BY <1>1, ElementOfSeq
<1>4. Top(t) \in Frame
  BY <1>2, <1>3 DEF Top, Depth
<1> QED
  BY <1>1, <1>2, <1>3, <1>4, TablesOfCalls DEF Frame, Top, Depth
-----------------------------------------------------------------------------
(* Steps *)

\* A thread changes its own stack, takes or leaves monitors that no other
\* thread has, stores a value that was missing, or hands out one that is
\* stored.
LEMMA OwnStepPreserves ==
  ASSUME IInv, NEW t \in Threads, NEW s \in Seq(Frame), stack' = [stack EXCEPT ![t] = s],
         WellNested(s), FramesFit(s, memo'),
         owner' \in [Tables -> Threads \cup {Nobody}],
         \A b \in Tables : owner'[b] = t <=> Holds(s, b),
         \A b \in Tables : owner'[b] = owner[b]
                           \/ (owner[b] \in {Nobody, t} /\ owner'[b] \in {Nobody, t}),
         \/ UNCHANGED <<memo, got>>
         \/ /\ UNCHANGED got
            /\ \E c \in Calls, v \in Values :
                 memo[c] = None /\ owner[c.table] = t /\ memo' = [memo EXCEPT ![c] = v]
         \/ /\ UNCHANGED memo
            /\ \E c \in Calls : memo[c] \in Values /\ got' = [got EXCEPT ![c] = @ \cup {memo[c]}]
  PROVE  IInv'
<1> USE DEF IInv
<1>1. \A u \in Threads : stack'[u] = IF u = t THEN s ELSE stack[u]
  BY DEF TypeOK
<1>2. TypeOK'
  <2>1. stack' \in [Threads -> Seq(Frame)]
    BY DEF TypeOK
  <2>2. memo' \in [Calls -> Values \cup {None}]
    BY DEF TypeOK
  <2>3. got' \in [Calls -> SUBSET Values]
    BY DEF TypeOK
  <2> QED
    BY <2>1, <2>2, <2>3 DEF TypeOK
<1>3. Nested'
  BY <1>1 DEF Nested
<1>4. Held'
  <2> SUFFICES ASSUME NEW b \in Tables, NEW u \in Threads
               PROVE  owner'[b] = u <=> Holds(stack'[u], b)
    BY DEF Held
  <2>1. CASE u = t
    BY <1>1, <2>1
  <2>2. CASE u # t
    <3>1. owner[b] = u <=> Holds(stack[u], b)
      BY DEF Held
    <3>2. owner'[b] = u <=> owner[b] = u
      BY <2>2, NoneAssumption
    <3> QED
      BY <1>1, <2>2, <3>1, <3>2
  <2> QED
    BY <2>1, <2>2
<1>5. Fit'
  <2> SUFFICES ASSUME NEW u \in Threads PROVE FramesFit(stack'[u], memo')
    BY DEF Fit
  <2>1. CASE u = t
    BY <1>1, <2>1
  <2>2. CASE u # t /\ UNCHANGED memo
    BY <1>1, <2>2 DEF Fit, FramesFit
  <2>3. ASSUME u # t, NEW c \in Calls, NEW v \in Values,
               memo[c] = None, owner[c.table] = t, memo' = [memo EXCEPT ![c] = v]
        PROVE  FramesFit(stack'[u], memo')
    <3>1. stack'[u] = stack[u] /\ FramesFit(stack[u], memo)
      BY <1>1, <2>3 DEF Fit
    <3> SUFFICES ASSUME NEW i \in 1..Len(stack[u])
                 PROVE  /\ stack[u][i].phase = "compute" => memo'[stack[u][i].call] = None
                        /\ stack[u][i].phase = "exit" =>
                             memo'[stack[u][i].call] = stack[u][i].value /\ stack[u][i].value \in Values
      BY <3>1 DEF FramesFit
    <3>2. stack[u][i] \in Frame
      BY ElementOfSeq DEF TypeOK
    <3>3. CASE stack[u][i].call # c
      BY <2>3, <3>1, <3>2, <3>3 DEF TypeOK, Frame, FramesFit
    <3>4. CASE stack[u][i].call = c
      <4>1. c.table \in Tables /\ owner[c.table] # u
        BY <2>3, TablesOfCalls
      <4>2. stack[u][i].phase = "enter"
        BY <3>4, <4>1 DEF Held, Holds
      <4> QED
        BY <4>2
    <3> QED
      BY <3>3, <3>4
  <2> QED
    BY <2>1, <2>2, <2>3
<1>6. Given'
  <2>1. CASE UNCHANGED <<memo, got>>
    BY <2>1 DEF Given
  <2>2. ASSUME UNCHANGED got, NEW c \in Calls, NEW v \in Values,
               memo[c] = None, memo' = [memo EXCEPT ![c] = v]
        PROVE  Given'
    BY <2>2, NoneAssumption DEF Given, TypeOK
  <2>3. ASSUME UNCHANGED memo, NEW c \in Calls, got' = [got EXCEPT ![c] = @ \cup {memo[c]}]
        PROVE  Given'
    BY <2>3 DEF Given, TypeOK
  <2> QED
    BY <2>1, <2>2, <2>3
<1> QED
  BY <1>2, <1>3, <1>4, <1>5, <1>6

\* Initially nobody calls.
LEMMA InitIInv == Init => IInv
<1> SUFFICES ASSUME Init PROVE IInv
  OBVIOUS
<1>1. \A t \in Threads : stack[t] = <<>> /\ Len(stack[t]) = 0
  BY EmptySeq DEF Init
<1>2. TypeOK
  BY EmptySeq DEF Init, TypeOK
<1>3. Nested
  BY <1>1 DEF Nested, WellNested
<1>4. Held
  BY <1>1, NoneAssumption DEF Init, Held, Holds
<1>5. Fit
  BY <1>1 DEF Fit, FramesFit
<1>6. Given
  BY DEF Init, Given
<1> QED
  BY <1>2, <1>3, <1>4, <1>5, <1>6 DEF IInv

LEMMA CallPreserves ==
  ASSUME IInv, NEW t \in Threads, NEW c \in Calls, Call(t, c)
  PROVE  IInv'
<1> DEFINE f == Entering(c)
           s == <<f>>
<1>1. f \in Frame
  BY EmptySeq DEF Entering, Frame
<1>2. f.phase = "enter" /\ f.todo = <<>>
  BY DEF Entering
<1> HIDE DEF f
<1>3. s \in Seq(Frame) /\ Len(s) = 1 /\ s[1] = f
  BY <1>1
<1>4. WellNested(s) /\ FramesFit(s, memo') /\ \A b \in Tables : ~Holds(s, b)
  BY <1>2, <1>3 DEF WellNested, FramesFit, Holds
<1>5. \A b \in Tables : owner[b] # t
  <2>1. Len(stack[t]) = 0
    BY EmptySeq DEF Call, Idle
  <2> QED
    BY <2>1 DEF IInv, Held, Holds
<1>6. stack' = [stack EXCEPT ![t] = s] /\ UNCHANGED <<memo, owner, got>>
  BY DEF Call, f
<1> HIDE DEF s
<1>7. /\ owner' \in [Tables -> Threads \cup {Nobody}]
      /\ \A b \in Tables : owner'[b] = t <=> Holds(s, b)
      /\ \A b \in Tables : owner'[b] = owner[b]
                           \/ (owner[b] \in {Nobody, t} /\ owner'[b] \in {Nobody, t})
  BY <1>4, <1>5, <1>6 DEF IInv, TypeOK
<1>8. WellNested(s) /\ FramesFit(s, memo') /\ s \in Seq(Frame)
  BY <1>3, <1>4
<1>9. stack' = [stack EXCEPT ![t] = s] /\ UNCHANGED <<memo, got>>
  BY <1>6
<1> QED
  BY <1>7, <1>8, <1>9, OwnStepPreserves
\* The top of the stack changes, but not the call it is for.
LEMMA TopStep ==
  ASSUME IInv, NEW t \in Threads, ~Idle(t), NEW f \in Frame, SetTop(t, f),
         f.call = Top(t).call,
         Depth(t) = 2 => f.todo = <<>>,
         \A j \in DOMAIN f.todo : f.call.table = "thisField" /\ f.todo[j].table \in Leaf
  PROVE  \E s \in Seq(Frame) :
           /\ stack' = [stack EXCEPT ![t] = s]
           /\ WellNested(s)
           /\ Len(s) = Depth(t) /\ s[Depth(t)] = f
           /\ \A i \in 1..(Depth(t) - 1) : s[i] = stack[t][i]
           /\ \A b \in Tables : Holds(s, b) <=>
                \/ f.phase # "enter" /\ f.call.table = b
                \/ Holds(stack[t], b) /\ Top(t).call.table # b
<1> USE DEF IInv
<1>1. PICK s \in Seq(Frame) :
        /\ stack' = [stack EXCEPT ![t] = s]
        /\ Len(s) = Depth(t) /\ s[Depth(t)] = f
        /\ \A i \in 1..(Depth(t) - 1) : s[i] = stack[t][i]
  BY TopExchanged
<1>2. /\ Depth(t) \in {1, 2} /\ Depth(t) = Len(stack[t])
      /\ Top(t) = stack[t][Depth(t)] /\ WellNested(stack[t])
  BY Tops DEF Nested
<1>3. WellNested(s)
  BY <1>1, <1>2 DEF WellNested
<1>4. \A b \in Tables : Holds(s, b) <=>
        \/ f.phase # "enter" /\ f.call.table = b
        \/ Holds(stack[t], b) /\ Top(t).call.table # b
  <2>1. CASE Depth(t) = 1
    BY <1>1, <1>2, <2>1 DEF Holds
  <2>2. CASE Depth(t) = 2
    BY <1>1, <1>2, <2>2 DEF Holds, WellNested, Leaf
  <2> QED
    BY <1>2, <2>1, <2>2
<1> QED
  BY <1>1, <1>3, <1>4

\* Who is inside has the monitor.
LEMMA InsideHolds ==
  ASSUME IInv, NEW t \in Threads, ~Idle(t), Top(t).phase # "enter"
  PROVE  owner[Top(t).call.table] = t
<1>1. Holds(stack[t], Top(t).call.table) /\ Top(t).call.table \in Tables
  BY Tops DEF IInv, Holds
<1> QED
  BY <1>1 DEF IInv, Held

LEMMA EnterPreserves ==
  ASSUME IInv, NEW t \in Threads, Enter(t)
  PROVE  IInv'
<1> USE DEF IInv
<1> DEFINE c == Top(t).call
           f == IF memo[c] # None THEN [Top(t) EXCEPT !.phase = "exit", !.value = memo[c]]
                ELSE [Top(t) EXCEPT !.phase = "compute", !.todo = Inner(c)]
<1>1. ~Idle(t) /\ Top(t).phase = "enter" /\ SetTop(t, f)
  BY DEF Enter, TopIn
<1>2. /\ Top(t) \in Frame /\ c \in Calls /\ c.table \in Tables
      /\ Depth(t) \in {1, 2} /\ Top(t) = stack[t][Depth(t)] /\ Depth(t) = Len(stack[t])
      /\ WellNested(stack[t]) /\ FramesFit(stack[t], memo)
  BY <1>1, Tops DEF Nested, Fit
<1>3. memo[c] \in Values \cup {None}
  BY <1>2 DEF TypeOK
<1>4. f \in Frame /\ f.call = c /\ f.phase \in {"exit", "compute"}
  BY <1>2, <1>3, InnerCalls DEF Frame
<1>5. \A j \in DOMAIN f.todo : f.call.table = "thisField" /\ f.todo[j].table \in Leaf
  <2>1. CASE memo[c] # None
    <3>1. f.todo = Top(t).todo /\ f.call = Top(t).call
      BY <1>2, <2>1 DEF Frame
    <3>2. Depth(t) \in 1..Len(stack[t])
      BY <1>1, Tops
    <3> HIDE DEF f
    <3> QED
      BY <1>2, <3>1, <3>2 DEF WellNested
  <2>2. CASE memo[c] = None
    <3>1. f.todo = Inner(c)
      BY <1>2, <2>2 DEF Frame
    <3> QED
      BY <1>2, <1>4, <3>1, InnerCalls
  <2> QED
    BY <2>1, <2>2
<1>6. Depth(t) = 2 => f.todo = <<>>
  <2> SUFFICES ASSUME Depth(t) = 2 PROVE f.todo = <<>>
    OBVIOUS
  <2>1. f.call.table # "thisField"
    BY <1>2, <1>4 DEF WellNested, Leaf
  <2>2. f.todo \in Seq(Calls) /\ DOMAIN f.todo = {}
    BY <1>4, <1>5, <2>1 DEF Frame
  <2> HIDE DEF f
  <2> QED
    BY <2>2, EmptyDomain
<1>7. /\ f.phase = "exit" => memo[c] # None /\ f.value = memo[c]
      /\ f.phase = "compute" => memo[c] = None
  BY <1>2 DEF Frame
<1> HIDE DEF f
<1>8. PICK s \in Seq(Frame) :
        /\ stack' = [stack EXCEPT ![t] = s]
        /\ WellNested(s)
        /\ Len(s) = Depth(t) /\ s[Depth(t)] = f
        /\ \A i \in 1..(Depth(t) - 1) : s[i] = stack[t][i]
        /\ \A b \in Tables : Holds(s, b) <=>
             \/ f.phase # "enter" /\ f.call.table = b
             \/ Holds(stack[t], b) /\ Top(t).call.table # b
  BY <1>1, <1>4, <1>5, <1>6, TopStep
<1>9. FramesFit(s, memo)
  BY <1>2, <1>3, <1>4, <1>7, <1>8 DEF FramesFit
<1>10. /\ owner[c.table] \in {Nobody, t} /\ owner' = [owner EXCEPT ![c.table] = t]
       /\ UNCHANGED <<memo, got>>
  BY DEF Enter
<1>11. \A b \in Tables : owner'[b] = t <=> Holds(s, b)
  BY <1>2, <1>4, <1>8, <1>10 DEF TypeOK, Held
<1>12. owner' \in [Tables -> Threads \cup {Nobody}]
  BY <1>2, <1>10 DEF TypeOK
<1>13. \A b \in Tables : owner'[b] = owner[b]
                         \/ (owner[b] \in {Nobody, t} /\ owner'[b] \in {Nobody, t})
  <2>1. \A b \in Tables : owner'[b] = IF b = c.table THEN t ELSE owner[b]
    BY <1>10 DEF TypeOK
  <2> HIDE DEF c
  <2> QED
    BY <1>10, <2>1
<1>14. memo' = memo /\ got' = got /\ FramesFit(s, memo')
  BY <1>9, <1>10
<1> HIDE DEF IInv
<1> QED
  BY <1>8, <1>11, <1>12, <1>13, <1>14, OwnStepPreserves
LEMMA CallInnerPreserves ==
  ASSUME IInv, NEW t \in Threads, CallInner(t)
  PROVE  IInv'
<1> USE DEF IInv
<1>1. ~Idle(t) /\ Top(t).phase = "compute" /\ Top(t).todo # <<>>
  BY DEF CallInner, TopIn
<1>2. /\ Top(t) \in Frame /\ Top(t).call.table \in Tables
      /\ Depth(t) \in {1, 2} /\ Top(t) = stack[t][Depth(t)] /\ Depth(t) = Len(stack[t])
      /\ stack[t] \in Seq(Frame) /\ Depth(t) \in 1..Len(stack[t])
      /\ WellNested(stack[t]) /\ FramesFit(stack[t], memo)
  BY <1>1, Tops DEF Nested, Fit
<1> DEFINE todo == Top(t).todo
           f == [Top(t) EXCEPT !.todo = Tail(todo)]
           g == Entering(Head(todo))
           low == [stack[t] EXCEPT ![Depth(t)] = f]
           s == Append(low, g)
<1>3. /\ todo \in Seq(Calls) /\ Head(todo) \in Calls /\ Tail(todo) \in Seq(Calls)
      /\ Head(todo) = todo[1] /\ 1 \in DOMAIN todo
      /\ \A j \in DOMAIN Tail(todo) : \E k \in DOMAIN todo : Tail(todo)[j] = todo[k]
  <2>1. todo \in Seq(Calls) /\ todo # <<>>
    BY <1>1, <1>2 DEF Frame
  <2>2. Len(todo) \in Nat \ {0} /\ DOMAIN todo = 1..Len(todo)
    BY <2>1, EmptySeq, LenProperties
  <2>3. /\ Head(todo) \in Calls /\ Tail(todo) \in Seq(Calls) /\ Len(Tail(todo)) = Len(todo) - 1
        /\ \A i \in 1..Len(Tail(todo)) : Tail(todo)[i] = todo[i + 1]
    BY <2>1, HeadTailProperties
  <2>4. DOMAIN Tail(todo) = 1..Len(Tail(todo))
    BY <2>3, LenProperties
  <2> HIDE DEF todo
  <2>5. Head(todo) = todo[1]
    BY <2>1
  <2> QED
    BY <2>1, <2>2, <2>3, <2>4, <2>5
<1>4. /\ Top(t).call.table = "thisField" /\ Head(todo).table \in Leaf
      /\ \A j \in DOMAIN Tail(todo) : Tail(todo)[j].table \in Leaf
  BY <1>2, <1>3 DEF WellNested
<1>5. Depth(t) = 1
  BY <1>2, <1>4 DEF WellNested, Leaf
<1>6. /\ f \in Frame /\ f.call = Top(t).call /\ f.phase = "compute" /\ f.todo = Tail(todo)
  BY <1>1, <1>2, <1>3 DEF Frame
<1>7. g \in Frame /\ g.call = Head(todo) /\ g.phase = "enter" /\ g.todo = <<>>
  BY <1>3, EmptySeq DEF Frame, Entering
<1>8. stack' = [stack EXCEPT ![t] = s] /\ UNCHANGED <<memo, owner, got>>
  <2>1. /\ stack' = [stack EXCEPT ![t] =
                       Append([stack[t] EXCEPT ![Depth(t)].todo = Tail(todo)], g)]
        /\ UNCHANGED <<memo, owner, got>>
    BY DEF CallInner, TypeOK
  <2>2. [stack[t] EXCEPT ![Depth(t)].todo = Tail(todo)] = low
    BY Zenon DEF Top
  <2> QED
    BY <2>1, <2>2
<1> HIDE DEF f, g, todo
<1>9. low \in Seq(Frame) /\ Len(low) = 1 /\ low[1] = f
  <2>1. /\ low \in Seq(Frame) /\ Len(low) = Len(stack[t])
        /\ \A j \in 1..Len(stack[t]) : low[j] = IF j = Depth(t) THEN f ELSE stack[t][j]
    BY <1>2, <1>6, ExceptSeq
  <2> QED
    BY <1>2, <1>5, <2>1
<1> HIDE DEF low
<1>10. s \in Seq(Frame) /\ Len(s) = 2 /\ s[1] = f /\ s[2] = g
  <2>1. g \in Frame /\ low \in Seq(Frame) /\ Len(low) = 1 /\ low[1] = f
    BY <1>7, <1>9
  <2>2. s \in Seq(Frame)
    BY <2>1, AppendProperties
  <2>3. Len(s) = 2
    BY <2>1
  <2>4. s[1] = f
    BY <2>1, AppendProperties
  <2>5. s[2] = g
    <3>1. s[Len(low) + 1] = g
      BY ONLY <2>1, AppendProperties, Zenon
    <3> QED
      BY <2>1, <3>1
  <2> QED
    BY <2>2, <2>3, <2>4, <2>5
<1> HIDE DEF s
<1>11. WellNested(s)
  <2>1. \A i \in 1..Len(s) : i = 1 \/ i = 2
    BY <1>10
  <2>2. s[1].phase = "compute" /\ s[1].call.table = "thisField" /\ s[2].call.table \in Leaf
    BY <1>4, <1>6, <1>7, <1>10
  <2>3. \A j \in DOMAIN s[1].todo : s[1].call.table = "thisField" /\ s[1].todo[j].table \in Leaf
    BY <1>4, <1>6, <1>7, <1>10
  <2>5. s[2].todo = <<>>
    BY <1>7, <1>10
  <2>6. DOMAIN s[2].todo = {}
    BY <2>5
  <2>4. \A i \in 1..Len(s) : \A j \in DOMAIN s[i].todo :
          s[i].call.table = "thisField" /\ s[i].todo[j].table \in Leaf
    BY <2>1, <2>3, <2>6
  <2> QED
    BY <1>10, <2>2, <2>4 DEF WellNested
<1>12. FramesFit(s, memo)
  BY <1>1, <1>2, <1>5, <1>6, <1>7, <1>10 DEF FramesFit
<1>13. \A b \in Tables : Holds(s, b) <=> Holds(stack[t], b)
  BY <1>1, <1>2, <1>5, <1>6, <1>7, <1>10 DEF Holds
<1>14. /\ owner' \in [Tables -> Threads \cup {Nobody}]
       /\ \A b \in Tables : owner'[b] = t <=> Holds(s, b)
       /\ \A b \in Tables : owner'[b] = owner[b]
                            \/ (owner[b] \in {Nobody, t} /\ owner'[b] \in {Nobody, t})
  BY <1>8, <1>13 DEF TypeOK, Held
<1>15. memo' = memo /\ got' = got /\ FramesFit(s, memo')
  BY <1>8, <1>12
<1>16. stack' = [stack EXCEPT ![t] = s]
  BY <1>8
<1> HIDE DEF IInv
<1> QED
  BY <1>10, <1>11, <1>14, <1>15, <1>16, OwnStepPreserves

\* A function that ends, with a value or with an exception, in its own frame.
LEMMA EndedFrame ==
  ASSUME IInv, NEW t \in Threads, TopIn(t, "compute"),
         NEW f \in Frame, f.call = Top(t).call, f.phase # "enter", f.todo = <<>>, SetTop(t, f),
         UNCHANGED <<owner, got>>,
         \/ f.phase = "unwind" /\ UNCHANGED memo
         \/ /\ f.phase = "exit" /\ f.value \in Values
            /\ memo' = [memo EXCEPT ![f.call] = f.value]
  PROVE  IInv'
<1> USE DEF IInv
<1>1. ~Idle(t) /\ Top(t).phase = "compute"
  BY DEF TopIn
<1>2. /\ Top(t) \in Frame /\ Top(t).call \in Calls /\ Top(t).call.table \in Tables
      /\ Depth(t) \in {1, 2} /\ Top(t) = stack[t][Depth(t)] /\ Depth(t) = Len(stack[t])
      /\ Depth(t) \in 1..Len(stack[t]) /\ \A i \in 1..Depth(t) : stack[t][i] \in Frame
      /\ WellNested(stack[t]) /\ FramesFit(stack[t], memo)
  BY <1>1, Tops DEF Nested, Fit
<1>3. DOMAIN f.todo = {}
  OBVIOUS
<1>4. PICK s \in Seq(Frame) :
        /\ stack' = [stack EXCEPT ![t] = s]
        /\ WellNested(s)
        /\ Len(s) = Depth(t) /\ s[Depth(t)] = f
        /\ \A i \in 1..(Depth(t) - 1) : s[i] = stack[t][i]
        /\ \A b \in Tables : Holds(s, b) <=>
             \/ f.phase # "enter" /\ f.call.table = b
             \/ Holds(stack[t], b) /\ Top(t).call.table # b
  BY <1>1, <1>3, TopStep
<1>5. owner[Top(t).call.table] = t /\ memo[Top(t).call] = None
  BY <1>1, <1>2, InsideHolds DEF FramesFit
<1>6. FramesFit(s, memo')
  <2> SUFFICES ASSUME NEW i \in 1..Len(s)
               PROVE  /\ s[i].phase = "compute" => memo'[s[i].call] = None
                      /\ s[i].phase = "exit" => memo'[s[i].call] = s[i].value /\ s[i].value \in Values
    BY DEF FramesFit
  <2>1. CASE i = Depth(t)
    BY <1>2, <1>4, <2>1 DEF TypeOK
  <2>2. CASE i # Depth(t)
    <3>1. Depth(t) = 2 /\ i = 1 /\ s[i] = stack[t][1]
      BY <1>2, <1>4, <2>2
    <3>2. s[i].call # f.call /\ s[i].call \in Calls
      <4>1. stack[t][1].call.table = "thisField" /\ stack[t][2].call.table \in Leaf
        BY <1>2, <3>1 DEF WellNested
      <4>2. Top(t) = stack[t][2] /\ stack[t][1] \in Frame
        BY <1>2, <3>1
      <4>3. stack[t][1].call \in Calls
        BY ONLY <4>2 DEF Frame
      <4>4. stack[t][1].call # Top(t).call
        BY ONLY <4>1, <4>2 DEF Leaf
      <4> QED
        BY <3>1, <4>3, <4>4
    <3>3. memo'[s[i].call] = memo[s[i].call]
      BY <3>2 DEF TypeOK
    <3>4. /\ stack[t][1].phase = "compute" => memo[stack[t][1].call] = None
          /\ stack[t][1].phase = "exit" =>
               memo[stack[t][1].call] = stack[t][1].value /\ stack[t][1].value \in Values
      BY <1>2, <3>1 DEF FramesFit
    <3>5. s[i].phase = "compute" => memo'[s[i].call] = None
      BY ONLY <3>1, <3>3, <3>4
    <3>6. s[i].phase = "exit" => memo'[s[i].call] = s[i].value /\ s[i].value \in Values
      BY ONLY <3>1, <3>3, <3>4
    <3> QED
      BY ONLY <3>5, <3>6
  <2> QED
    BY <2>1, <2>2
<1>7. \A b \in Tables : owner'[b] = t <=> Holds(s, b)
  BY <1>2, <1>4, <1>5 DEF Held
<1>8. /\ owner' \in [Tables -> Threads \cup {Nobody}]
      /\ \A b \in Tables : owner'[b] = owner[b]
                           \/ (owner[b] \in {Nobody, t} /\ owner'[b] \in {Nobody, t})
  BY DEF TypeOK
<1>9. \/ memo' = memo
      \/ \E c \in Calls, v \in Values :
            memo[c] = None /\ owner[c.table] = t /\ memo' = [memo EXCEPT ![c] = v]
  BY <1>2, <1>5
<1> HIDE DEF IInv
<1> QED
  BY <1>4, <1>6, <1>7, <1>8, <1>9, OwnStepPreserves

LEMMA ComputePreserves ==
  ASSUME IInv, NEW t \in Threads, Compute(t)
  PROVE  IInv'
<1>1. PICK v \in Values : /\ memo' = [memo EXCEPT ![Top(t).call] = v]
                          /\ SetTop(t, [Top(t) EXCEPT !.phase = "exit", !.todo = <<>>, !.value = v])
  BY DEF Compute
<1> DEFINE f == [Top(t) EXCEPT !.phase = "exit", !.todo = <<>>, !.value = v]
<1>2. TopIn(t, "compute") /\ UNCHANGED <<owner, got>>
  BY DEF Compute
<1>3. Top(t) \in Frame
  BY <1>2, Tops DEF IInv, TopIn
<1>4. /\ f \in Frame /\ f.call = Top(t).call /\ f.phase = "exit" /\ f.todo = <<>>
      /\ f.value = v
  BY <1>3, EmptySeq DEF Frame
<1> HIDE DEF f
<1> QED
  BY <1>1, <1>2, <1>4, EndedFrame DEF f

LEMMA ThrowPreserves ==
  ASSUME IInv, NEW t \in Threads, Throw(t)
  PROVE  IInv'
<1> DEFINE f == [Top(t) EXCEPT !.phase = "unwind", !.todo = <<>>]
<1>1. TopIn(t, "compute") /\ SetTop(t, f) /\ UNCHANGED <<memo, owner, got>>
  BY DEF Throw
<1>2. Top(t) \in Frame
  BY <1>1, Tops DEF IInv, TopIn
<1>3. f \in Frame /\ f.call = Top(t).call /\ f.phase = "unwind" /\ f.todo = <<>>
  BY <1>2, EmptySeq DEF Frame
<1> HIDE DEF f
<1> QED
  BY <1>1, <1>3, EndedFrame

\* What is below the top of a stack.
LEMMA Popped ==
  ASSUME TypeOK, Nested, NEW t \in Threads, ~Idle(t)
  PROVE  /\ Pop(t) \in Seq(Frame) /\ Len(Pop(t)) = Depth(t) - 1
         /\ \A i \in 1..(Depth(t) - 1) : Pop(t)[i] = stack[t][i]
<1>1. /\ Depth(t) \in {1, 2} /\ Depth(t) = Len(stack[t])
      /\ \A i \in 1..Depth(t) : stack[t][i] \in Frame
  BY Tops
<1> DEFINE n == Depth(t) - 1
           q == stack[t]
<1>2. n \in {0, 1} /\ \A i \in 1..n : q[i] \in Frame
  BY <1>1
<1>3. Pop(t) = SubSeq(q, 1, n)
  BY DEF Pop
<1> HIDE DEF n, q
<1>4. /\ SubSeq(q, 1, n) \in Seq(Frame)
      /\ Len(SubSeq(q, 1, n)) = IF 1 <= n THEN n - 1 + 1 ELSE 0
      /\ \A i \in 1..(n - 1 + 1) : SubSeq(q, 1, n)[i] = q[1 + i - 1]
  BY <1>2, SubSeqProperties
<1>5. Len(SubSeq(q, 1, n)) = n /\ \A i \in 1..n : SubSeq(q, 1, n)[i] = q[i]
  BY <1>2, <1>4
<1> QED
  BY <1>3, <1>4, <1>5 DEF n, q

\* The monitor of the top of a stack is free again: nothing below it has it.
LEMMA Released ==
  ASSUME IInv, NEW t \in Threads, ~Idle(t), Top(t).phase # "enter", Release(t),
         NEW s, \A b \in Tables : Holds(s, b) <=> Holds(stack[t], b) /\ Top(t).call.table # b
  PROVE  /\ owner' \in [Tables -> Threads \cup {Nobody}]
         /\ \A b \in Tables : owner'[b] = t <=> Holds(s, b)
         /\ \A b \in Tables : owner'[b] = owner[b]
                              \/ (owner[b] \in {Nobody, t} /\ owner'[b] \in {Nobody, t})
<1> USE DEF IInv
<1> DEFINE x == Top(t).call.table
<1>1. x \in Tables /\ owner[x] = t
  BY Tops, InsideHolds
<1>2. /\ Depth(t) \in {1, 2} /\ Depth(t) = Len(stack[t]) /\ Top(t) = stack[t][Depth(t)]
      /\ WellNested(stack[t])
  BY Tops DEF Nested
<1>3. ~ \E i \in 1..(Depth(t) - 1) : stack[t][i].call.table = x
  BY <1>2 DEF WellNested, Leaf
<1>4. owner' = [owner EXCEPT ![x] = Nobody]
  BY <1>3 DEF Release
<1>5. \A b \in Tables : owner'[b] = IF b = x THEN Nobody ELSE owner[b]
  BY <1>4 DEF TypeOK
<1>6. \A b \in Tables : owner[b] = t <=> Holds(stack[t], b)
  BY DEF Held
<1>7. owner' \in [Tables -> Threads \cup {Nobody}]
  BY <1>4 DEF TypeOK
<1>8. \A b \in Tables : Holds(s, b) <=> Holds(stack[t], b) /\ x # b
  OBVIOUS
<1> HIDE DEF x
<1>9. \A b \in Tables : owner'[b] = t <=> Holds(s, b)
  BY <1>5, <1>6, <1>8, NoneAssumption
<1> QED
  BY <1>1, <1>5, <1>7, <1>9

LEMMA ExitPreserves ==
  ASSUME IInv, NEW t \in Threads, Exit(t)
  PROVE  IInv'
<1> USE DEF IInv
<1> DEFINE s == Pop(t)
<1>1. /\ ~Idle(t) /\ Top(t).phase = "exit" /\ Release(t)
      /\ stack' = [stack EXCEPT ![t] = s]
      /\ got' = [got EXCEPT ![Top(t).call] = @ \cup {Top(t).value}]
      /\ memo' = memo
  BY DEF Exit, TopIn
<1>2. /\ Top(t).call \in Calls /\ Top(t).call.table \in Tables
      /\ Depth(t) \in {1, 2} /\ Top(t) = stack[t][Depth(t)] /\ Depth(t) = Len(stack[t])
      /\ Depth(t) \in 1..Len(stack[t])
      /\ WellNested(stack[t]) /\ FramesFit(stack[t], memo)
  BY <1>1, Tops DEF Nested, Fit
<1>3. /\ s \in Seq(Frame) /\ Len(s) = Depth(t) - 1
      /\ \A i \in 1..(Depth(t) - 1) : s[i] = stack[t][i]
  BY <1>1, Popped
<1>4. memo[Top(t).call] = Top(t).value /\ Top(t).value \in Values
  BY <1>1, <1>2 DEF FramesFit
<1> HIDE DEF s
<1>5. WellNested(s)
  <2>1. Len(s) \in {0, 1}
    BY <1>2, <1>3
  <2>2. \A i \in 1..Len(s) : i \in 1..Len(stack[t]) /\ s[i] = stack[t][i]
    BY <1>2, <1>3
  <2> QED
    BY <1>2, <2>1, <2>2 DEF WellNested
<1>6. FramesFit(s, memo)
  BY <1>2, <1>3 DEF FramesFit
<1>7. \A b \in Tables : Holds(s, b) <=> Holds(stack[t], b) /\ Top(t).call.table # b
  <2>1. CASE Depth(t) = 1
    BY <1>2, <1>3, <2>1 DEF Holds
  <2>2. CASE Depth(t) = 2
    BY <1>2, <1>3, <2>2 DEF Holds, WellNested, Leaf
  <2> QED
    BY <1>2, <2>1, <2>2
<1>8. /\ owner' \in [Tables -> Threads \cup {Nobody}]
      /\ \A b \in Tables : owner'[b] = t <=> Holds(s, b)
      /\ \A b \in Tables : owner'[b] = owner[b]
                           \/ (owner[b] \in {Nobody, t} /\ owner'[b] \in {Nobody, t})
  BY <1>1, <1>7, Released
<1>9. FramesFit(s, memo')
  BY <1>1, <1>6
<1>10. /\ UNCHANGED memo
       /\ \E c \in Calls : memo[c] \in Values /\ got' = [got EXCEPT ![c] = @ \cup {memo[c]}]
  BY <1>1, <1>2, <1>4
<1>11. stack' = [stack EXCEPT ![t] = s]
  BY <1>1
<1> HIDE DEF IInv
<1> QED
  BY <1>3, <1>5, <1>8, <1>9, <1>10, <1>11, OwnStepPreserves

\* The one element of a sequence is exchanged.
LEMMA OneExchanged ==
  ASSUME NEW S, NEW q \in Seq(S), Len(q) = 1, NEW f \in S
  PROVE  LET s == [q EXCEPT ![1] = f] IN s \in Seq(S) /\ Len(s) = 1 /\ s[1] = f
<1> DEFINE s == [q EXCEPT ![1] = f]
<1>1. q \in [1..1 -> S]
  BY LenProperties
<1>2. s \in [1..1 -> S] /\ s[1] = f
  BY <1>1
<1>3. s \in Seq(S)
  BY <1>2, SeqDef
<1>4. Len(s) = 1
  <2> HIDE DEF s
  <2>1. Len(s) \in Nat /\ DOMAIN s = 1..Len(s) /\ DOMAIN s = 1..1
    BY <1>2, <1>3, LenProperties
  <2>2. 1..Len(s) = 1..1
    BY <2>1
  <2>3. 1 \in 1..Len(s)
    BY <2>2
  <2>4. Len(s) \in 1..Len(s)
    BY <2>1, <2>3
  <2>5. Len(s) \in 1..1
    BY <2>2, <2>4
  <2> QED
    BY <2>5
<1> QED
  BY <1>2, <1>3, <1>4

\* The stack an exception leaves behind when it passes one frame.
LEMMA Unwound ==
  ASSUME TypeOK, Nested, NEW t \in Threads, Unwind(t)
  PROVE  \E s \in Seq(Frame) :
           /\ stack' = [stack EXCEPT ![t] = s]
           /\ Len(s) = Depth(t) - 1
           /\ \A i \in 1..(Depth(t) - 1) :
                s[i].phase = "unwind" /\ s[i].todo = <<>> /\ s[i].call = stack[t][i].call
<1>1. ~Idle(t)
  BY DEF Unwind, TopIn
<1>2. /\ Depth(t) \in {1, 2} /\ Depth(t) = Len(stack[t])
      /\ \A i \in 1..Depth(t) : stack[t][i] \in Frame
  BY <1>1, Tops
<1>3. CASE Depth(t) = 1
  <2>1. stack' = [stack EXCEPT ![t] = <<>>]
    BY <1>3 DEF Unwind
  <2> DEFINE s == <<>>
  <2>2. s \in Seq(Frame) /\ Len(s) = 0
    BY EmptySeq
  <2> HIDE DEF s
  <2>3. /\ Len(s) = Depth(t) - 1
        /\ \A i \in 1..(Depth(t) - 1) :
             s[i].phase = "unwind" /\ s[i].todo = <<>> /\ s[i].call = stack[t][i].call
    BY <1>3, <2>2
  <2>4. stack' = [stack EXCEPT ![t] = s]
    BY <2>1 DEF s
  <2> QED
    BY <2>2, <2>3, <2>4
<1>4. CASE Depth(t) = 2
  <2> DEFINE q == Pop(t)
             f == [q[1] EXCEPT !.phase = "unwind", !.todo = <<>>]
             s == [q EXCEPT ![1] = f]
  <2>1. q \in Seq(Frame) /\ Len(q) = 1 /\ q[1] = stack[t][1] /\ stack[t][1] \in Frame
    <3>1. /\ q \in Seq(Frame) /\ Len(q) = Depth(t) - 1
          /\ \A i \in 1..(Depth(t) - 1) : q[i] = stack[t][i]
      BY <1>1, Popped
    <3> HIDE DEF q
    <3> QED
      BY <1>2, <1>4, <3>1
  <2>2. /\ f \in Frame /\ f.phase = "unwind" /\ f.todo = <<>>
        /\ f.call = stack[t][1].call
    BY <2>1, EmptySeq DEF Frame
  <2>3. stack' = [stack EXCEPT ![t] =
                    [q EXCEPT ![1].phase = "unwind", ![1].todo = <<>>]]
    BY <1>4 DEF Unwind
  <2>4. [q EXCEPT ![1].phase = "unwind", ![1].todo = <<>>] = s
    BY <2>1
  <2>5. stack' = [stack EXCEPT ![t] = s]
    BY <2>3, <2>4
  <2> HIDE DEF q, f
  <2>6. s \in Seq(Frame) /\ Len(s) = 1 /\ s[1] = f
    BY <2>1, <2>2, OneExchanged
  <2> HIDE DEF s
  <2>7. /\ Len(s) = Depth(t) - 1
        /\ \A i \in 1..(Depth(t) - 1) :
             s[i].phase = "unwind" /\ s[i].todo = <<>> /\ s[i].call = stack[t][i].call
    BY <1>4, <2>2, <2>6
  <2> QED
    BY <2>5, <2>6, <2>7
<1> QED
  BY <1>2, <1>3, <1>4

LEMMA UnwindPreserves ==
  ASSUME IInv, NEW t \in Threads, Unwind(t)
  PROVE  IInv'
<1> USE DEF IInv
<1>1. /\ ~Idle(t) /\ Top(t).phase = "unwind" /\ Release(t)
      /\ UNCHANGED <<memo, got>>
  BY DEF Unwind, TopIn
<1>2. /\ Depth(t) \in {1, 2} /\ Top(t) = stack[t][Depth(t)] /\ Depth(t) = Len(stack[t])
      /\ Depth(t) \in 1..Len(stack[t]) /\ WellNested(stack[t])
  BY <1>1, Tops DEF Nested
<1>3. PICK s \in Seq(Frame) :
        /\ stack' = [stack EXCEPT ![t] = s]
        /\ Len(s) = Depth(t) - 1
        /\ \A i \in 1..(Depth(t) - 1) :
             s[i].phase = "unwind" /\ s[i].todo = <<>> /\ s[i].call = stack[t][i].call
  BY Unwound
<1>4. WellNested(s)
  <2>1. Len(s) \in {0, 1} /\ \A i \in 1..Len(s) : s[i].todo = <<>>
    BY <1>2, <1>3
  <2>2. \A i \in 1..Len(s) : DOMAIN s[i].todo = {}
    BY <2>1
  <2> QED
    BY <2>1, <2>2 DEF WellNested
<1>5. FramesFit(s, memo')
  BY <1>2, <1>3 DEF FramesFit
<1>6. \A b \in Tables : Holds(s, b) <=> Holds(stack[t], b) /\ Top(t).call.table # b
  <2>1. CASE Depth(t) = 1
    BY <1>2, <1>3, <2>1 DEF Holds
  <2>2. CASE Depth(t) = 2
    BY <1>2, <1>3, <2>2 DEF Holds, WellNested, Leaf
  <2> QED
    BY <1>2, <2>1, <2>2
<1>7. /\ owner' \in [Tables -> Threads \cup {Nobody}]
      /\ \A b \in Tables : owner'[b] = t <=> Holds(s, b)
      /\ \A b \in Tables : owner'[b] = owner[b]
                           \/ (owner[b] \in {Nobody, t} /\ owner'[b] \in {Nobody, t})
  <2>1. Top(t).phase # "enter"
    BY <1>1
  <2> QED
    BY <1>1, <1>6, <2>1, Released
<1>8. stack' = [stack EXCEPT ![t] = s] /\ UNCHANGED <<memo, got>>
  BY <1>1, <1>3
<1> HIDE DEF IInv
<1> QED
  BY <1>4, <1>5, <1>7, <1>8, OwnStepPreserves

-----------------------------------------------------------------------------
(* The theorems *)

\* The strengthened invariant holds in every reachable state: no step of
\* Memoizer.cs, in whatever order the threads take them, breaks it.
THEOREM Inductive == Spec => []IInv
<1>1. Init => IInv
  BY InitIInv
<1>2. IInv /\ [Next]_vars => IInv'
  <2> SUFFICES ASSUME IInv, [Next]_vars PROVE IInv'
    OBVIOUS
  <2>1. ASSUME NEW t \in Threads, Enter(t) PROVE IInv'
    BY <2>1, EnterPreserves
  <2>2. ASSUME NEW t \in Threads, CallInner(t) PROVE IInv'
    BY <2>2, CallInnerPreserves
  <2>3. ASSUME NEW t \in Threads, Compute(t) PROVE IInv'
    BY <2>3, ComputePreserves
  <2>4. ASSUME NEW t \in Threads, Throw(t) PROVE IInv'
    BY <2>4, ThrowPreserves
  <2>5. ASSUME NEW t \in Threads, Exit(t) PROVE IInv'
    BY <2>5, ExitPreserves
  <2>6. ASSUME NEW t \in Threads, Unwind(t) PROVE IInv'
    BY <2>6, UnwindPreserves
  <2>7. ASSUME NEW t \in Threads, NEW c \in Calls, Call(t, c) PROVE IInv'
    BY <2>7, CallPreserves
  <2>8. CASE UNCHANGED vars
    BY <2>8 DEF IInv, vars, TypeOK, Nested, Held, Fit, FramesFit, Given
  <2> QED
    BY <2>1, <2>2, <2>3, <2>4, <2>5, <2>6, <2>7, <2>8 DEF Next, Step
<1> QED
  BY <1>1, <1>2, PTL DEF Spec

\* The dictionaries, the monitors and the stacks keep their types.
THEOREM TypeCorrect == Spec => []TypeOK
<1>1. IInv => TypeOK
  BY DEF IInv
<1> QED
  BY <1>1, Inductive, PTL

\* A dictionary's monitor is held by exactly the threads inside lock (results),
\* also when what they compute throws.
THEOREM MonitorsHeld == Spec => []MonitorsMatchCalls
<1>1. IInv => MonitorsMatchCalls
  BY DEF IInv, Held, Holds, MonitorsMatchCalls, Inside, Depth
<1> QED
  BY <1>1, Inductive, PTL

\* results.Add finds no value where it stores one: it never throws.
THEOREM NoCollision == Spec => []AddNeverCollides
<1>1. IInv => AddNeverCollides
  BY DEF IInv, Fit, FramesFit, AddNeverCollides, Depth
<1> QED
  BY <1>1, Inductive, PTL

\* Any two callers of a memoized function were given the same value for the
\* same key.
THEOREM Agreement == Spec => []CallersAgree
<1>1. IInv => CallersAgree
  BY DEF IInv, Given, CallersAgree
<1> QED
  BY <1>1, Inductive, PTL

\* A thread waits only for monitors further down the order of those it has,
\* so the monitors of any number of threads cannot deadlock.
THEOREM Ordered == Spec => []LocksOrdered
<1>1. IInv => LocksOrdered
  <2> SUFFICES ASSUME IInv, NEW t \in Threads, NEW i \in 1..(Depth(t) - 1)
               PROVE  Rank(stack[t][i].call.table) > Rank(Top(t).call.table)
    BY DEF LocksOrdered
  <2>1. Len(stack[t]) \in {0, 1, 2} /\ WellNested(stack[t])
    BY DEF IInv, Nested, WellNested
  <2>2. Len(stack[t]) = 2 /\ i = 1
    <3>1. i \in 1..(Len(stack[t]) - 1)
      BY DEF Depth
    <3>2. CASE Len(stack[t]) = 0
      BY <3>1, <3>2
    <3>3. CASE Len(stack[t]) = 1
      BY <3>1, <3>3
    <3>4. CASE Len(stack[t]) = 2
      BY <3>1, <3>4
    <3> QED
      BY <2>1, <3>2, <3>3, <3>4
  <2>3. stack[t][1].call.table = "thisField" /\ Top(t).call.table \in {"fields", "canHandle"}
    BY <2>1, <2>2 DEF WellNested, Top, Depth, Leaf
  <2> QED
    BY <2>2, <2>3 DEF Rank
<1> QED
  BY <1>1, Inductive, PTL
=============================================================================
