--------------------------- MODULE ApplicationProofs ---------------------------
(***************************************************************************)
(* Proofs about Application, for any number of providers, callbacks and    *)
(* attempts and any depth of nesting.                                      *)
(***************************************************************************)
EXTENDS Application, FiniteSetTheorems, SequenceTheorems, TLAPS

LEMMA SizeType ==
    ASSUME NEW sizes \in [Kinds -> 0..MaxCallbacks], NEW l \in Loops
    PROVE  Size(l, sizes) \in 0..(Providers + MaxCallbacks)
BY ApplicationAssumption DEF Size, Kinds, Loops, Booting, Booted

LEMMA SizeMonotone ==
    ASSUME NEW s \in [Kinds -> 0..MaxCallbacks], NEW t \in [Kinds -> 0..MaxCallbacks],
           \A k \in Kinds : s[k] <= t[k], NEW l \in Loops
    PROVE  Size(l, s) <= Size(l, t)
BY ApplicationAssumption DEF Size, Kinds, Loops, Booting, Booted

\* What has been called stays called, so what is done stays done.
LEMMA DoneStays ==
    ASSUME TypeOK, early' = early,
           \A l \in Loops, i \in Positions : called[l][i] > 0 => called'[l][i] > 0
    PROVE  /\ \A l \in Loops : LoopDone(l) => LoopDone(l)'
           /\ \A f \in Frame : FrameOK(f) => FrameOK(f)'
<1>1. early \in [Kinds -> 0..MaxCallbacks]
  BY DEF TypeOK
<1>2. \A l \in Loops : Size(l, early) \in Nat /\ 1..Size(l, early) \subseteq Positions
  <2> TAKE l \in Loops
  <2>1. Size(l, early) \in 0..(Providers + MaxCallbacks)
    BY <1>1, SizeType
  <2> QED
    BY <2>1, ApplicationAssumption DEF Positions
<1>3. ASSUME NEW l \in Loops, LoopDone(l) PROVE LoopDone(l)'
  BY <1>2, <1>3 DEF LoopDone
<1>4. ASSUME NEW f \in Frame, FrameOK(f) PROVE FrameOK(f)'
  <2>1. f.loop \in Loops /\ \A k \in 1..(f.loop - 1) : k \in Loops
    BY DEF Frame, Loops
  <2>2. \A k \in 1..(f.loop - 1) : LoopDone(k)'
    BY <1>3, <1>4, <2>1 DEF FrameOK
  <2>3. \A i \in 1..Size(f.loop, early) :
           i < f.at \/ (i = f.at /\ f.inCall) => called'[f.loop][i] > 0
    BY <1>2, <1>4, <2>1 DEF FrameOK
  <2> QED
    BY <1>4, <2>2, <2>3 DEF FrameOK
<1> QED
  BY <1>3, <1>4

\* Frames of the new stack that are as the invariant wants them keep it.
LEMMA FramesKept ==
    ASSUME stack' \in Seq(Frame),
           \A n \in 1..Len(stack') : \E f \in Frame : stack'[n] = f /\ FrameOK(f)'
    PROVE  FramesOK'
<1> SUFFICES ASSUME NEW n \in 1..Len(stack') PROVE FrameOK(stack[n])'
  BY DEF FramesOK
<1>1. PICK f \in Frame : stack'[n] = f /\ FrameOK(f)'
  OBVIOUS
<1> QED
  BY <1>1 DEF FrameOK

\* Where nothing is called, the parts of the invariant that speak of what has
\* been called keep.
LEMMA HistoryKept ==
    ASSUME IInv, UNCHANGED <<early, called>>
    PROVE  /\ LoopsInOrder'
           /\ \A l \in Loops : LoopDone(l) => LoopDone(l)'
           /\ \A f \in Frame : FrameOK(f) => FrameOK(f)'
BY DoneStays DEF IInv, LoopsInOrder, LoopDone

LEMMA InitInv == Init => IInv
<1> SUFFICES ASSUME Init PROVE IInv
  OBVIOUS
<1> USE ApplicationAssumption
<1>1. stack \in Seq(Frame) /\ Len(stack) = 0
  BY DEF Init
<1>2. called \in [Loops -> [Positions -> Nat]]
      /\ \A l \in Loops, i \in Positions : called[l][i] = 0
  BY DEF Init
<1>3. callbacks \in [Kinds -> 0..MaxCallbacks] /\ early = callbacks
  BY DEF Init
<1>4. attempts \in 0..MaxAttempts /\ ~booted /\ ~running /\ ~crashed
  BY DEF Init
<1>5. booted \in BOOLEAN /\ running \in BOOLEAN /\ crashed \in BOOLEAN
  BY DEF Init
<1>6. TypeOK
  BY <1>1, <1>2, <1>3, <1>4, <1>5 DEF TypeOK
<1>7. LoopsInOrder
  BY <1>2 DEF LoopsInOrder
<1>8. EarlyAreThere /\ FirstAttempt
  BY <1>2, <1>3, <1>4 DEF EarlyAreThere, FirstAttempt, Init
<1>9. FramesOK
  BY <1>1 DEF FramesOK
<1> QED
  BY <1>4, <1>6, <1>7, <1>8, <1>9 DEF IInv, BootedMeansCalled, RunningMeansBooted

-------------------------------------------------------------------------------

\* A new call has nothing behind it.
LEMMA BeginKeeps ==
    ASSUME IInv, NEW function \in {"bootstrap", "run"}, Begin(function)
    PROVE  IInv'
<1> USE ApplicationAssumption
<1>1. TypeOK /\ EarlyAreThere /\ FramesOK /\ BootedMeansCalled /\ RunningMeansBooted
  BY DEF IInv
<1>2. /\ UNCHANGED <<booted, running, callbacks, crashed, early, called>>
      /\ attempts' = attempts + 1
      /\ attempts < MaxAttempts
  BY DEF Begin
<1>3. callbacks \in [Kinds -> 0..MaxCallbacks] /\ early \in [Kinds -> 0..MaxCallbacks]
      /\ stack \in Seq(Frame) /\ Len(stack) \in Nat
      /\ \A k \in Kinds : early[k] <= callbacks[k]
  BY <1>1 DEF TypeOK, EarlyAreThere
<1>4. /\ Size(Booting, callbacks) \in 0..(Providers + MaxCallbacks)
      /\ Size(Booting, early) \in 0..(Providers + MaxCallbacks)
      /\ Size(Booting, early) <= Size(Booting, callbacks)
  <2>1. Booting \in Loops
    BY DEF Loops, Booting
  <2> QED
    BY <1>3, <2>1, SizeType, SizeMonotone
<1>5. PICK f \in Frame : FrameOK(f) /\ stack' = Append(stack, f)
  <2> DEFINE f == [function |-> function, loop |-> Booting, at |-> 1,
                   end |-> Size(Booting, callbacks), inCall |-> FALSE]
  <2>1. f \in Frame
    BY <1>4 DEF Frame, Loops, Booting
  <2>2. FrameOK(f)
    BY <1>4 DEF FrameOK, Booting
  <2> QED
    BY <2>1, <2>2 DEF Begin, Enter
<1>6. /\ stack' \in Seq(Frame)
      /\ Len(stack') = Len(stack) + 1
      /\ stack'[Len(stack) + 1] = f
      /\ \A n \in 1..Len(stack) : stack'[n] = stack[n]
  BY <1>3, <1>5
<1>7. \A n \in 1..Len(stack) : stack[n] \in Frame /\ FrameOK(stack[n])
  BY <1>1, <1>3 DEF FramesOK
<1>8. \A n \in 1..Len(stack') : stack'[n] \in Frame /\ FrameOK(stack'[n])
  BY <1>3, <1>5, <1>6, <1>7
<1>9. \A n \in 1..Len(stack') : \E g \in Frame : stack'[n] = g /\ FrameOK(g)'
  BY <1>2, <1>8, HistoryKept
<1>10. FramesOK'
  BY <1>6, <1>9, FramesKept
<1>11. attempts' \in 0..MaxAttempts /\ attempts' # 0
  BY <1>1, <1>2 DEF TypeOK
<1>12. TypeOK'
  BY <1>1, <1>2, <1>6, <1>11 DEF TypeOK
<1>13. EarlyAreThere' /\ FirstAttempt'
  BY <1>1, <1>2, <1>11 DEF EarlyAreThere, FirstAttempt
<1>14. LoopsInOrder' /\ BootedMeansCalled' /\ RunningMeansBooted'
  BY <1>1, <1>2, HistoryKept DEF BootedMeansCalled, RunningMeansBooted
<1> QED
  BY <1>10, <1>12, <1>13, <1>14 DEF IInv

\* A step that leaves the calls and what was called alone.
LEMMA FramesUntouched ==
    ASSUME IInv, UNCHANGED <<stack, early, called>>
    PROVE  FramesOK'
<1>1. stack \in Seq(Frame)
  BY DEF IInv, TypeOK
<1>2. \A n \in 1..Len(stack) : stack[n] \in Frame /\ FrameOK(stack[n])
  BY <1>1 DEF IInv, FramesOK
<1>3. \A n \in 1..Len(stack') : \E g \in Frame : stack'[n] = g /\ FrameOK(g)'
  BY <1>2, HistoryKept
<1> QED
  BY <1>1, <1>3, FramesKept

\* Callbacks are only added; those added before any attempt count as early.
LEMMA AddCallbackKeeps ==
    ASSUME IInv, NEW k \in Kinds, AddCallback(k)
    PROVE  IInv'
<1> USE ApplicationAssumption
<1>1. TypeOK /\ EarlyAreThere /\ FirstAttempt /\ BootedMeansCalled /\ RunningMeansBooted
  BY DEF IInv
<1>2. /\ callbacks' = [callbacks EXCEPT ![k] = @ + 1]
      /\ callbacks[k] < MaxCallbacks
      /\ early' = IF attempts = 0 THEN callbacks' ELSE early
      /\ crashed' \in BOOLEAN
      /\ UNCHANGED <<booted, running, stack, attempts, called>>
  BY DEF AddCallback
<1>3. callbacks \in [Kinds -> 0..MaxCallbacks] /\ early \in [Kinds -> 0..MaxCallbacks]
  BY <1>1 DEF TypeOK
<1>4. callbacks' \in [Kinds -> 0..MaxCallbacks]
      /\ \A j \in Kinds : callbacks[j] <= callbacks'[j]
  BY <1>2, <1>3
<1>5. early' \in [Kinds -> 0..MaxCallbacks]
  BY <1>2, <1>3, <1>4
<1>6. TypeOK'
  BY <1>1, <1>2, <1>4, <1>5 DEF TypeOK
<1>7. EarlyAreThere'
  <2>1. \A j \in Kinds : early[j] \in Nat /\ callbacks[j] \in Nat /\ callbacks'[j] \in Nat
                         /\ early[j] <= callbacks[j]
    BY <1>1, <1>3, <1>4 DEF EarlyAreThere
  <2>2. \A j \in Kinds : early'[j] <= callbacks'[j]
    BY <1>2, <1>4, <2>1
  <2> QED
    BY <2>2 DEF EarlyAreThere
<1>8. FirstAttempt'
  BY <1>1, <1>2 DEF FirstAttempt
<1>9. CASE attempts = 0
  <2>1. /\ stack = << >> /\ ~booted
        /\ \A l \in Loops, i \in Positions : called[l][i] = 0
    BY <1>1, <1>9 DEF FirstAttempt
  <2>2. LoopsInOrder'
    BY <1>2, <2>1 DEF LoopsInOrder
  <2>3. BootedMeansCalled' /\ RunningMeansBooted'
    BY <1>1, <1>2, <2>1 DEF BootedMeansCalled, RunningMeansBooted
  <2>4. FramesOK'
    BY <1>2, <2>1 DEF FramesOK
  <2> QED
    BY <1>6, <1>7, <1>8, <2>2, <2>3, <2>4 DEF IInv
<1>10. CASE attempts # 0
  <2>1. UNCHANGED <<early, called, stack>>
    BY <1>2, <1>10
  <2>2. LoopsInOrder' /\ BootedMeansCalled' /\ RunningMeansBooted'
    BY <1>1, <1>2, <2>1, HistoryKept DEF BootedMeansCalled, RunningMeansBooted
  <2> QED
    BY <1>6, <1>7, <1>8, <2>1, <2>2, FramesUntouched DEF IInv
<1> QED
  BY <1>9, <1>10

\* run and terminate of a booted application, and steps that change nothing.
LEMMA RunningKeeps ==
    ASSUME IInv, RunBooted \/ Terminate \/ BootstrapAtOnce \/ UNCHANGED vars
    PROVE  IInv'
<1>1. TypeOK /\ EarlyAreThere /\ FirstAttempt /\ BootedMeansCalled /\ RunningMeansBooted
  BY DEF IInv
<1>2. /\ UNCHANGED <<booted, callbacks, crashed, stack, attempts, early, called>>
      /\ running' \in BOOLEAN
      /\ running' => booted
  <2>1. CASE RunBooted
    BY <1>1, <2>1 DEF RunBooted, history
  <2>2. CASE Terminate
    BY <1>1, <2>2 DEF Terminate, history
  <2>3. CASE UNCHANGED vars
    BY <1>1, <2>3 DEF vars, TypeOK, RunningMeansBooted
  <2> QED
    BY <2>1, <2>2, <2>3 DEF BootstrapAtOnce
<1>3. TypeOK' /\ EarlyAreThere' /\ FirstAttempt' /\ RunningMeansBooted'
  BY <1>1, <1>2 DEF TypeOK, EarlyAreThere, FirstAttempt, RunningMeansBooted
<1>4. LoopsInOrder' /\ BootedMeansCalled'
  BY <1>1, <1>2, HistoryKept DEF BootedMeansCalled
<1> QED
  BY <1>2, <1>3, <1>4, FramesUntouched DEF IInv

-------------------------------------------------------------------------------

\* The call in progress.
LEMMA TopFacts ==
    ASSUME IInv, stack # << >>
    PROVE  /\ stack \in Seq(Frame)
           /\ Len(stack) \in Nat \ {0}
           /\ Top \in Frame
           /\ FrameOK(Top)
           /\ attempts # 0
           /\ \A n \in 1..Len(stack) : stack[n] \in Frame /\ FrameOK(stack[n])
<1>1. stack \in Seq(Frame)
  BY DEF IInv, TypeOK
<1>2. Len(stack) \in Nat \ {0} /\ stack[Len(stack)] \in Frame
  BY <1>1
<1>3. \A n \in 1..Len(stack) : stack[n] \in Frame /\ FrameOK(stack[n])
  BY <1>1 DEF IInv, FramesOK
<1> QED
  BY <1>1, <1>2, <1>3 DEF Top, IInv, FirstAttempt

\* A step that replaces the innermost call by one in order.
LEMMA ReplaceKeeps ==
    ASSUME IInv, stack # << >>, NEW f \in Frame, FrameOK(f)',
           SetTop(f),
           \A g \in Frame : FrameOK(g) => FrameOK(g)'
    PROVE  stack' \in Seq(Frame) /\ FramesOK'
<1>1. /\ stack \in Seq(Frame)
      /\ \A n \in 1..Len(stack) : stack[n] \in Frame /\ FrameOK(stack[n])
  BY TopFacts
<1>2. /\ stack' \in Seq(Frame)
      /\ Len(stack') = Len(stack)
      /\ \A n \in 1..Len(stack) : stack'[n] = IF n = Len(stack) THEN f ELSE stack[n]
  BY <1>1 DEF SetTop
<1>3. \A n \in 1..Len(stack') : \E g \in Frame : stack'[n] = g /\ FrameOK(g)'
  BY <1>1, <1>2
<1> QED
  BY <1>2, <1>3, FramesKept

LEMMA PopKeeps ==
    ASSUME IInv, stack # << >>, stack' = Below, UNCHANGED <<early, called>>
    PROVE  stack' \in Seq(Frame) /\ FramesOK'
<1>1. /\ stack \in Seq(Frame)
      /\ \A n \in 1..Len(stack) : stack[n] \in Frame /\ FrameOK(stack[n])
  BY TopFacts
<1>2. /\ stack' \in Seq(Frame)
      /\ Len(stack') = Len(stack) - 1
      /\ \A n \in 1..Len(stack) - 1 : stack'[n] = stack[n]
  <2> DEFINE k == Len(stack) - 1
  <2>1. k \in Nat /\ \A n \in 1..k : stack[n] \in Frame
    BY <1>1
  <2> HIDE DEF k
  <2>2. /\ SubSeq(stack, 1, k) \in Seq(Frame)
        /\ Len(SubSeq(stack, 1, k)) = IF 1 <= k THEN k - 1 + 1 ELSE 0
        /\ \A n \in 1..k - 1 + 1 : SubSeq(stack, 1, k)[n] = stack[1 + n - 1]
    BY <2>1, SubSeqProperties
  <2>3. /\ SubSeq(stack, 1, k) \in Seq(Frame)
        /\ Len(SubSeq(stack, 1, k)) = k
        /\ \A n \in 1..k : SubSeq(stack, 1, k)[n] = stack[n]
    BY <2>1, <2>2
  <2> QED  BY <2>3 DEF Below, k
<1>3. Len(stack) \in Nat
  BY <1>1
<1>4. \A n \in 1..Len(stack') : \E g \in Frame : stack'[n] = g /\ FrameOK(g)'
  BY <1>1, <1>2, <1>3, HistoryKept
<1> QED
  BY <1>2, <1>4, FramesKept

\* The element that is called is the next one of its loop, and all loops ahead
\* are done.
LEMMA CallNextKeeps == IInv /\ CallNext => IInv'
<1> SUFFICES ASSUME IInv, CallNext PROVE IInv'
  OBVIOUS
<1> USE ApplicationAssumption
<1>1. TypeOK /\ EarlyAreThere /\ LoopsInOrder /\ BootedMeansCalled /\ RunningMeansBooted
  BY DEF IInv
<1>2. PICK top : top = Top
  OBVIOUS
<1>3. /\ stack # << >>
      /\ ~top.inCall
      /\ top.at <= top.end
      /\ called' = [called EXCEPT ![top.loop][top.at] = @ + 1]
      /\ SetTop([top EXCEPT !.inCall = TRUE])
      /\ UNCHANGED <<booted, running, callbacks, crashed, attempts, early>>
  BY <1>2 DEF CallNext, InLoop
<1>4. top \in Frame /\ FrameOK(top) /\ attempts # 0
  BY <1>2, <1>3, TopFacts
<1>5. /\ top.loop \in Loops
      /\ top.at \in Positions
      /\ \A k \in 1..(top.loop - 1) : LoopDone(k)
  <2>1. top.at \in Nat \ {0} /\ top.end \in Nat /\ top.end <= Providers + MaxCallbacks
    BY <1>4 DEF Frame, FrameOK
  <2>2. top.loop \in Loops
    BY <1>4 DEF Frame
  <2> QED
    BY <1>3, <1>4, <2>1, <2>2 DEF FrameOK, Positions
<1>6. called \in [Loops -> [Positions -> Nat]]
  BY <1>1 DEF TypeOK
<1>7. /\ called' \in [Loops -> [Positions -> Nat]]
      /\ \A l \in Loops, i \in Positions :
            called'[l][i] = IF l = top.loop /\ i = top.at THEN called[l][i] + 1
                                                         ELSE called[l][i]
  BY <1>3, <1>5, <1>6
<1>8. \A l \in Loops, i \in Positions : called[l][i] > 0 => called'[l][i] > 0
  BY <1>6, <1>7
<1>9. /\ \A l \in Loops : LoopDone(l) => LoopDone(l)'
      /\ \A f \in Frame : FrameOK(f) => FrameOK(f)'
  BY <1>1, <1>3, <1>8, DoneStays
<1> DEFINE new == [top EXCEPT !.inCall = TRUE]
<1>10. /\ new \in Frame
       /\ new.loop = top.loop /\ new.at = top.at /\ new.end = top.end /\ new.inCall
  BY <1>4 DEF Frame
<1>11. FrameOK(new)'
  <2>1. FrameOK(top)'
    BY <1>4, <1>9
  <2>2. called'[top.loop][top.at] > 0
    BY <1>5, <1>6, <1>7
  <2>3. top.at \in Nat
    BY <1>4 DEF Frame
  <2> HIDE DEF new
  <2> QED
    BY <1>3, <1>10, <2>1, <2>2, <2>3 DEF FrameOK
<1> HIDE DEF new
<1>12. stack' \in Seq(Frame) /\ FramesOK'
  BY <1>3, <1>9, <1>10, <1>11, ReplaceKeeps DEF new
<1>13. LoopsInOrder'
  <2> SUFFICES ASSUME NEW l \in Loops, NEW i \in Positions, called'[l][i] > 0,
                      NEW k \in 1..(l - 1)
               PROVE  LoopDone(k)'
    BY DEF LoopsInOrder
  <2>1. k \in Loops
    BY DEF Loops
  <2>2. CASE called[l][i] > 0
    BY <1>1, <1>9, <2>1, <2>2 DEF LoopsInOrder
  <2>3. CASE ~(called[l][i] > 0)
    <3>1. l = top.loop
      BY <1>7, <2>3
    <3> QED
      BY <1>5, <1>9, <2>1, <3>1
  <2> QED
    BY <2>2, <2>3
<1>14. TypeOK' /\ EarlyAreThere' /\ FirstAttempt'
  BY <1>1, <1>3, <1>4, <1>7, <1>12 DEF TypeOK, EarlyAreThere, FirstAttempt
<1>15. BootedMeansCalled' /\ RunningMeansBooted'
  BY <1>1, <1>3, <1>9 DEF BootedMeansCalled, RunningMeansBooted
<1> QED
  BY <1>12, <1>13, <1>14, <1>15 DEF IInv

\* A step of the innermost call that calls nothing.
LEMMA QuietStepKeeps ==
    ASSUME IInv, UNCHANGED <<callbacks, crashed, history>>, attempts # 0,
           stack' \in Seq(Frame), FramesOK',
           booted' \in BOOLEAN, running' \in BOOLEAN,
           booted' => booted \/ \A l \in Loops : LoopDone(l),
           running' => booted'
    PROVE  IInv'
<1>1. TypeOK /\ EarlyAreThere /\ BootedMeansCalled
  BY DEF IInv
<1>2. UNCHANGED <<callbacks, crashed, attempts, early, called>>
  BY DEF history
<1>3. TypeOK' /\ EarlyAreThere' /\ FirstAttempt'
  BY <1>1, <1>2 DEF TypeOK, EarlyAreThere, FirstAttempt
<1>4. BootedMeansCalled' /\ LoopsInOrder' /\ RunningMeansBooted'
  BY <1>1, <1>2, HistoryKept DEF BootedMeansCalled, RunningMeansBooted
<1> QED
  BY <1>3, <1>4 DEF IInv

\* What a call that has come to the end of its loop has done.
LEMMA LoopEndFacts ==
    ASSUME IInv, NEW f \in Frame, FrameOK(f), f.at > f.end
    PROVE  \A k \in 1..f.loop : LoopDone(k)
<1>1. early \in [Kinds -> 0..MaxCallbacks] /\ f.loop \in Loops
      /\ f.at \in Nat /\ f.end \in Nat
  BY DEF IInv, TypeOK, Frame
<1>2. Size(f.loop, early) \in Nat
  BY <1>1, SizeType
<1>3. LoopDone(f.loop)
  BY <1>1, <1>2 DEF FrameOK, LoopDone
<1> QED
  BY <1>1, <1>3 DEF FrameOK, Loops

\* What the updates of a frame give.
LEMMA ReturnedFrame ==
    ASSUME NEW f \in Frame, NEW g, g = [f EXCEPT !.inCall = FALSE, !.at = @ + 1]
    PROVE  /\ g \in Frame
           /\ g.loop = f.loop /\ g.at = f.at + 1 /\ g.end = f.end
           /\ ~g.inCall
<1>1. f.at + 1 \in Nat \ {0}
  BY DEF Frame
<1>2. g \in Frame
  BY <1>1 DEF Frame
<1>3. g.loop = f.loop /\ g.at = f.at + 1 /\ g.end = f.end /\ ~g.inCall
  BY DEF Frame
<1> QED
  BY <1>2, <1>3

\* A frame moved to the start of a loop of the given size.
FrameAt(f, l, size) == [f EXCEPT !.loop = l, !.at = 1, !.end = size]

LEMMA NextLoopFrame ==
    ASSUME NEW f \in Frame, NEW l \in Loops, NEW size \in Nat
    PROVE  /\ FrameAt(f, l, size) \in Frame
           /\ FrameAt(f, l, size).loop = l
           /\ FrameAt(f, l, size).at = 1
           /\ FrameAt(f, l, size).end = size
           /\ FrameAt(f, l, size).inCall = f.inCall
<1> DEFINE a == [f EXCEPT !.loop = l]
           b == [a EXCEPT !.at = 1]
           g == [f EXCEPT !.loop = l, !.at = 1, !.end = size]
<1>1. a \in Frame
  BY DEF Frame
<1>2. b \in Frame
  <2> HIDE DEF a
  <2> QED
    BY <1>1 DEF Frame
<1>3. g = [b EXCEPT !.end = size]
  BY DEF Frame
<1>4. g \in Frame
  <2> HIDE DEF b
  <2> QED
    BY <1>2, <1>3 DEF Frame
<1>5. g.loop = l /\ g.at = 1 /\ g.end = size /\ g.inCall = f.inCall
  BY DEF Frame
<1>6. FrameAt(f, l, size) = g
  BY DEF FrameAt
<1> QED
  <2> HIDE DEF g
  <2> QED
    BY <1>4, <1>5, <1>6

LEMMA StepKeeps ==
    ASSUME IInv, CallReturns \/ CallThrows \/ NextLoop \/ Finish
    PROVE  IInv'
<1> USE ApplicationAssumption
<1>1. stack # << >>
  BY DEF CallReturns, CallThrows, NextLoop, Finish, InLoop, InCallback
<1>2. PICK top : top = Top
  OBVIOUS
<1>3. /\ stack \in Seq(Frame)
      /\ top \in Frame
      /\ FrameOK(top)
      /\ attempts # 0
  BY <1>1, <1>2, TopFacts
<1>4. /\ UNCHANGED <<early, called>>
      /\ UNCHANGED <<callbacks, crashed, history>>
  BY DEF CallReturns, CallThrows, NextLoop, Finish, history
<1>5. \A f \in Frame : FrameOK(f) => FrameOK(f)'
  BY <1>4, HistoryKept
<1>6. /\ booted \in BOOLEAN /\ running \in BOOLEAN /\ (running => booted)
      /\ callbacks \in [Kinds -> 0..MaxCallbacks]
      /\ early \in [Kinds -> 0..MaxCallbacks]
      /\ \A k \in Kinds : early[k] <= callbacks[k]
  BY DEF IInv, TypeOK, EarlyAreThere, RunningMeansBooted
<1>7. top.at \in Nat \ {0} /\ top.end \in Nat /\ top.loop \in Loops
  BY <1>3 DEF Frame
<1>8. CASE CallReturns
  <2> DEFINE new == [top EXCEPT !.inCall = FALSE, !.at = @ + 1]
  <2>1. top.inCall /\ SetTop(new) /\ UNCHANGED <<booted, running>>
    BY <1>2, <1>8 DEF CallReturns, InCallback
  <2>2. /\ new \in Frame
        /\ new.loop = top.loop /\ new.at = top.at + 1 /\ new.end = top.end
        /\ ~new.inCall
    BY <1>3, ReturnedFrame
  <2> HIDE DEF new
  <2>3. \A i \in 1..Size(top.loop, early) : i < top.at + 1 => called[top.loop][i] > 0
    <3>1. Size(top.loop, early) \in Nat
      BY <1>6, <1>7, SizeType
    <3> QED
      BY <1>3, <1>7, <2>1, <3>1 DEF FrameOK
  <2>4. FrameOK(new)
    BY <1>3, <1>7, <2>1, <2>2, <2>3 DEF FrameOK
  <2>5. stack' \in Seq(Frame) /\ FramesOK'
    BY <1>1, <1>5, <2>1, <2>2, <2>4, ReplaceKeeps
  <2> QED
    BY <1>3, <1>4, <1>6, <2>1, <2>5, QuietStepKeeps
<1>9. CASE CallThrows
  <2>1. stack' = Below /\ UNCHANGED <<booted, running>>
    BY <1>9 DEF CallThrows
  <2>2. stack' \in Seq(Frame) /\ FramesOK'
    BY <1>1, <1>4, <2>1, PopKeeps
  <2> QED
    BY <1>3, <1>4, <1>6, <2>1, <2>2, QuietStepKeeps
<1>10. CASE NextLoop
  <2> DEFINE new == [top EXCEPT !.loop = @ + 1, !.at = 1,
                                !.end = Size(top.loop + 1, callbacks)]
  <2>1. /\ top.at > top.end /\ ~top.inCall /\ top.loop # Booted
        /\ SetTop(new) /\ UNCHANGED <<booted, running>>
    BY <1>2, <1>10 DEF NextLoop, InLoop
  <2>2. top.loop + 1 \in Loops
    BY <1>7, <2>1 DEF Loops, Booted
  <2>3. /\ Size(top.loop + 1, callbacks) \in 0..(Providers + MaxCallbacks)
        /\ Size(top.loop + 1, early) \in 0..(Providers + MaxCallbacks)
        /\ Size(top.loop + 1, early) <= Size(top.loop + 1, callbacks)
    BY <1>6, <2>2, SizeType, SizeMonotone
  <2>4. /\ new \in Frame
        /\ new.loop = top.loop + 1 /\ new.at = 1
        /\ new.end = Size(top.loop + 1, callbacks)
        /\ ~new.inCall
    <3>1. PICK size \in Nat : size = Size(top.loop + 1, callbacks)
      BY <2>3
    <3>2. PICK l \in Loops : l = top.loop + 1
      BY <2>2
    <3>3. top \in Frame
      BY <1>3
    <3>4. /\ new \in Frame
          /\ new.loop = top.loop + 1 /\ new.at = 1 /\ new.end = size
          /\ new.inCall = top.inCall
      <4>1. new = FrameAt(top, l, size)
        BY <3>1, <3>2 DEF FrameAt
      <4> HIDE DEF new
      <4> QED
        BY <3>2, <3>3, <4>1, NextLoopFrame
    <3> QED
      BY <2>1, <3>1, <3>4
  <2> HIDE DEF new
  <2>5. \A k \in 1..(new.loop - 1) : LoopDone(k)
    BY <1>3, <1>7, <2>1, <2>4, LoopEndFacts DEF Loops
  <2>6. FrameOK(new)
    BY <2>3, <2>4, <2>5 DEF FrameOK
  <2>7. stack' \in Seq(Frame) /\ FramesOK'
    BY <1>1, <1>5, <2>1, <2>4, <2>6, ReplaceKeeps
  <2> QED
    BY <1>3, <1>4, <1>6, <2>1, <2>7, QuietStepKeeps
<1>11. CASE Finish
  <2>1. /\ top.at > top.end /\ top.loop = Booted
        /\ booted' = TRUE
        /\ running' = (running \/ top.function = "run")
        /\ stack' = Below
    BY <1>2, <1>11 DEF Finish, InLoop
  <2>2. \A l \in Loops : LoopDone(l)
    BY <1>3, <2>1, LoopEndFacts DEF Loops, Booted
  <2>3. stack' \in Seq(Frame) /\ FramesOK'
    BY <1>1, <1>4, <2>1, PopKeeps
  <2>4. booted' \in BOOLEAN /\ running' \in BOOLEAN
    BY <2>1
  <2> QED
    BY <1>3, <1>4, <2>1, <2>2, <2>3, <2>4, QuietStepKeeps
<1> QED
  BY <1>8, <1>9, <1>10, <1>11

LEMMA NextKeeps == IInv /\ [Next]_vars => IInv'
<1> SUFFICES ASSUME IInv, [Next]_vars PROVE IInv'
  OBVIOUS
<1>1. CASE \E k \in Kinds : AddCallback(k)
  BY <1>1, AddCallbackKeeps
<1>2. CASE \E function \in {"bootstrap", "run"} : Begin(function)
  BY <1>2, BeginKeeps
<1>3. CASE RunBooted \/ Terminate \/ BootstrapAtOnce \/ UNCHANGED vars
  BY <1>3, RunningKeeps
<1>4. CASE CallNext
  BY <1>4, CallNextKeeps
<1>5. CASE CallReturns \/ CallThrows \/ NextLoop \/ Finish
  BY <1>5, StepKeeps
<1> QED
  BY <1>1, <1>2, <1>3, <1>4, <1>5 DEF Next

-------------------------------------------------------------------------------

\* The inductive invariant of bootstrap holds for any providers, callbacks and
\* depth of nested calls.
THEOREM Invariant == Spec => []IInv
BY InitInv, NextKeeps, PTL DEF Spec

\* Nothing of a loop of bootstrap is called before the loops ahead of it have
\* called what was there at the first attempt.
THEOREM LoopOrder == Spec => []LoopsInOrder
<1>1. IInv => LoopsInOrder
  BY DEF IInv
<1> QED
  BY <1>1, Invariant, PTL

\* booted_ means that everything in place at the first attempt was called.
THEOREM BootedIsComplete == Spec => []BootedMeansCalled
<1>1. IInv => BootedMeansCalled
  BY DEF IInv
<1> QED
  BY <1>1, Invariant, PTL

\* A running application is booted.
THEOREM RunningIsBooted == Spec => []RunningMeansBooted
<1>1. IInv => RunningMeansBooted
  BY DEF IInv
<1> QED
  BY <1>1, Invariant, PTL

-------------------------------------------------------------------------------

\* A call in progress that has element i of loop l still to call.
ToCall(f, l, i) ==
    \/ f.loop < l
    \/ f.loop = l /\ f.at < i
    \/ f.loop = l /\ f.at = i /\ ~f.inCall

Waiting(l, i) == {n \in 1..Len(stack) : ToCall(stack[n], l, i)}

\* What makes OncePerBootstrap inductive: each bootstrap that has begun has called
\* an element, or is one of those in progress that have not reached it yet, or has
\* passed it over; never two of these.
CallsCounted ==
    \A l \in Loops, i \in Positions :
        called[l][i] + Cardinality(Waiting(l, i)) <= attempts

LEMMA WaitingFinite ==
    ASSUME IInv, NEW l, NEW i
    PROVE  /\ IsFiniteSet(Waiting(l, i))
           /\ Cardinality(Waiting(l, i)) \in Nat
<1>1. Len(stack) \in Nat
  BY DEF IInv, TypeOK
<1>2. IsFiniteSet(1..Len(stack)) /\ Waiting(l, i) \in SUBSET (1..Len(stack))
  BY <1>1, FS_Interval DEF Waiting
<1>3. IsFiniteSet(Waiting(l, i))
  BY <1>2, FS_Subset
<1> QED
  BY <1>3, FS_CardinalityType

\* A step that calls nothing and gives no call in progress more to do.
LEMMA CountKept ==
    ASSUME IInv, IInv', CallsCounted, UNCHANGED <<attempts, called>>,
           Len(stack') <= Len(stack),
           \A n \in 1..Len(stack'), l \in Loops, i \in Positions :
               ToCall(stack'[n], l, i) => ToCall(stack[n], l, i)
    PROVE  CallsCounted'
<1> SUFFICES ASSUME NEW l \in Loops, NEW i \in Positions
             PROVE  called[l][i] + Cardinality(Waiting(l, i)') <= attempts
  BY DEF CallsCounted
<1>1. Len(stack) \in Nat /\ Len(stack') \in Nat
  BY DEF IInv, TypeOK
<1>2. Waiting(l, i)' \in SUBSET Waiting(l, i)
  BY <1>1 DEF Waiting, ToCall
<1>3. /\ Cardinality(Waiting(l, i)') <= Cardinality(Waiting(l, i))
      /\ IsFiniteSet(Waiting(l, i)')
  BY <1>2, WaitingFinite, FS_Subset
<1>4. Cardinality(Waiting(l, i)') \in Nat /\ Cardinality(Waiting(l, i)) \in Nat
  BY <1>3, WaitingFinite, FS_CardinalityType
<1>5. called[l][i] \in Nat /\ attempts \in Nat
  BY ApplicationAssumption DEF IInv, TypeOK
<1> QED
  BY <1>3, <1>4, <1>5 DEF CallsCounted

LEMMA BeginCounts ==
    ASSUME IInv, CallsCounted, NEW function \in {"bootstrap", "run"}, Begin(function)
    PROVE  CallsCounted'
<1> SUFFICES ASSUME NEW l \in Loops, NEW i \in Positions
             PROVE  called'[l][i] + Cardinality(Waiting(l, i)') <= attempts'
  BY DEF CallsCounted
<1> DEFINE m == Len(stack) + 1
<1>1. stack \in Seq(Frame) /\ Len(stack) \in Nat
  BY DEF IInv, TypeOK
<1>2. /\ Len(stack') = m
      /\ \A n \in 1..Len(stack) : stack'[n] = stack[n]
  BY <1>1 DEF Begin, Enter
<1>3. Waiting(l, i)' \in SUBSET (Waiting(l, i) \cup {m})
  BY <1>1, <1>2 DEF Waiting, ToCall
<1>4. /\ IsFiniteSet(Waiting(l, i) \cup {m})
      /\ Cardinality(Waiting(l, i) \cup {m}) <= Cardinality(Waiting(l, i)) + 1
      /\ Cardinality(Waiting(l, i)) \in Nat
  <2> HIDE DEF m
  <2>1. IsFiniteSet(Waiting(l, i)) /\ Cardinality(Waiting(l, i)) \in Nat
    BY WaitingFinite
  <2>2. /\ IsFiniteSet(Waiting(l, i) \cup {m})
        /\ \/ Cardinality(Waiting(l, i) \cup {m}) = Cardinality(Waiting(l, i))
           \/ Cardinality(Waiting(l, i) \cup {m}) = Cardinality(Waiting(l, i)) + 1
    BY <2>1, FS_AddElement
  <2> QED  BY <2>1, <2>2
<1>5. /\ IsFiniteSet(Waiting(l, i)')
      /\ Cardinality(Waiting(l, i)') <= Cardinality(Waiting(l, i) \cup {m})
  BY <1>3, <1>4, FS_Subset
<1>6. Cardinality(Waiting(l, i)') \in Nat /\ Cardinality(Waiting(l, i) \cup {m}) \in Nat
  BY <1>4, <1>5, FS_CardinalityType
<1>7. called'[l][i] = called[l][i] /\ attempts' = attempts + 1
  BY DEF Begin
<1>8. called[l][i] \in Nat /\ attempts \in Nat
  BY ApplicationAssumption DEF IInv, TypeOK
<1>9. called[l][i] + Cardinality(Waiting(l, i)) <= attempts
  BY DEF CallsCounted
<1> HIDE DEF m
<1> QED
  BY <1>4, <1>5, <1>6, <1>7, <1>8, <1>9

\* The call that is made was one to make, and is none any more.
LEMMA CallCounts ==
    ASSUME IInv, CallsCounted, CallNext
    PROVE  CallsCounted'
<1> SUFFICES ASSUME NEW l \in Loops, NEW i \in Positions
             PROVE  called'[l][i] + Cardinality(Waiting(l, i)') <= attempts'
  BY DEF CallsCounted
<1> DEFINE m == Len(stack)
<1>1. /\ stack \in Seq(Frame) /\ m \in Nat \ {0}
      /\ Top \in Frame /\ Top = stack[m]
      /\ FrameOK(Top)
  BY TopFacts DEF CallNext, InLoop, Top
<1>2. ~Top.inCall /\ attempts' = attempts
  BY DEF CallNext, InLoop
<1>3. PICK f : f = [Top EXCEPT !.inCall = TRUE]
  OBVIOUS
<1>4. f.loop = Top.loop /\ f.at = Top.at /\ f.inCall
  BY <1>1, <1>3 DEF Frame
<1>5. /\ Len(stack') = m
      /\ \A n \in 1..m : stack'[n] = IF n = m THEN f ELSE stack[n]
  BY <1>1, <1>3 DEF CallNext, SetTop
<1>6. Top.loop \in Loops /\ Top.at \in Nat \ {0}
  BY <1>1 DEF Frame
<1>7. called' = [called EXCEPT ![Top.loop][Top.at] = @ + 1]
  BY DEF CallNext
<1>8. called \in [Loops -> [Positions -> Nat]] /\ attempts \in Nat
  BY ApplicationAssumption DEF IInv, TypeOK
<1>9. called[l][i] + Cardinality(Waiting(l, i)) <= attempts
  BY DEF CallsCounted
<1>10. IsFiniteSet(Waiting(l, i)) /\ Cardinality(Waiting(l, i)) \in Nat
  BY WaitingFinite
<1>11. CASE Top.loop = l /\ Top.at = i
  <2>1. called'[l][i] = called[l][i] + 1
    BY <1>7, <1>8, <1>11
  <2>2. m \in Waiting(l, i)
    BY <1>1, <1>2, <1>11 DEF Waiting, ToCall
  <2>3. Waiting(l, i)' = Waiting(l, i) \ {m}
    <3>1. \A n \in 1..m : n # m => (ToCall(stack'[n], l, i) <=> ToCall(stack[n], l, i))
      BY <1>5
    <3>2. ~ToCall(f, l, i)
      <4>1. f.loop = l /\ f.at = i /\ f.inCall /\ l \in Int /\ i \in Int
        BY <1>4, <1>11 DEF Loops, Positions
      <4> QED  BY <4>1 DEF ToCall
    <3> QED  BY <1>1, <1>5, <3>1, <3>2 DEF Waiting, ToCall
  <2>4. Cardinality(Waiting(l, i)') = Cardinality(Waiting(l, i)) - 1
    BY <1>10, <2>2, <2>3, FS_RemoveElement
  <2>5. called[l][i] \in Nat
    BY <1>8
  <2> QED  BY <1>2, <1>8, <1>9, <1>10, <2>1, <2>4, <2>5
<1>12. CASE ~(Top.loop = l /\ Top.at = i)
  <2>1. called'[l][i] = called[l][i]
    BY <1>6, <1>7, <1>8, <1>12
  <2>2. ToCall(f, l, i) <=> ToCall(Top, l, i)
    BY <1>2, <1>4, <1>12 DEF ToCall
  <2>3. Waiting(l, i)' = Waiting(l, i)
    <3>1. \A n \in 1..m : ToCall(stack'[n], l, i) <=> ToCall(stack[n], l, i)
      BY <1>1, <1>5, <2>2
    <3> QED  BY <1>5, <3>1 DEF Waiting, ToCall
  <2> QED  BY <1>2, <1>9, <2>1, <2>3
<1> QED
  BY <1>11, <1>12

\* Where the innermost call goes on, it has no more to do than before.
LEMMA GoOnCounts ==
    ASSUME IInv, IInv', CallsCounted, CallReturns \/ NextLoop
    PROVE  CallsCounted'
<1> DEFINE m == Len(stack)
<1>1. /\ stack \in Seq(Frame) /\ m \in Nat \ {0}
      /\ Top \in Frame /\ Top = stack[m]
      /\ UNCHANGED <<attempts, called>>
  <2>1. stack # << >> /\ UNCHANGED <<attempts, called>>
    BY DEF CallReturns, NextLoop, InCallback, InLoop, history
  <2> QED  BY <2>1, TopFacts DEF Top
<1>2. PICK f : /\ SetTop(f)
               /\ \A l \in Loops, i \in Positions : ToCall(f, l, i) => ToCall(Top, l, i)
  <2>1. CASE CallReturns
    <3>1. PICK f : f = [Top EXCEPT !.inCall = FALSE, !.at = @ + 1]
      OBVIOUS
    <3>2. f.loop = Top.loop /\ f.at = Top.at + 1
      BY <1>1, <3>1, ReturnedFrame
    <3>3. Top.loop \in Int /\ Top.at \in Int
      BY <1>1 DEF Frame, Loops
    <3>4. \A l \in Loops, i \in Positions : ToCall(f, l, i) => ToCall(Top, l, i)
      BY <3>2, <3>3 DEF ToCall, Loops, Positions
    <3>5. SetTop(f)
      BY <2>1, <3>1 DEF CallReturns, SetTop
    <3> QED  BY <3>4, <3>5
  <2>2. CASE NextLoop
    <3>1. PICK size : size = Size(Top.loop + 1, callbacks)
      OBVIOUS
    <3>2. Top.loop + 1 \in Loops /\ size \in Nat
      <4>1. Top.loop \in Loops /\ Top.loop # Booted
        BY <1>1, <2>2 DEF NextLoop, Frame
      <4>2. Top.loop + 1 \in Loops
        BY <4>1 DEF Loops, Booted
      <4>3. Size(Top.loop + 1, callbacks) \in 0..(Providers + MaxCallbacks)
        BY <4>2, SizeType DEF IInv, TypeOK
      <4> QED  BY <3>1, <4>2, <4>3, ApplicationAssumption
    <3>3. PICK f : f = FrameAt(Top, Top.loop + 1, size)
      OBVIOUS
    <3>4. f.loop = Top.loop + 1
      BY <1>1, <3>2, <3>3, NextLoopFrame
    <3>5. \A l \in Loops, i \in Positions : ToCall(f, l, i) => ToCall(Top, l, i)
      <4>1. Top.loop \in Int
        BY <1>1 DEF Frame, Loops
      <4> QED  BY <3>4, <4>1 DEF ToCall, Loops
    <3>6. SetTop(f)
      BY <2>2, <3>1, <3>3 DEF NextLoop, SetTop, FrameAt
    <3> QED  BY <3>5, <3>6
  <2> QED  BY <2>1, <2>2
<1>3. /\ Len(stack') = m
      /\ \A n \in 1..m : stack'[n] = IF n = m THEN f ELSE stack[n]
  BY <1>1, <1>2 DEF SetTop
<1>4. \A n \in 1..Len(stack'), l \in Loops, i \in Positions :
         ToCall(stack'[n], l, i) => ToCall(stack[n], l, i)
  BY <1>1, <1>2, <1>3
<1> QED
  BY <1>1, <1>3, <1>4, CountKept

\* Where it ends, it has nothing more to do.
LEMMA EndCounts ==
    ASSUME IInv, IInv', CallsCounted, CallThrows \/ Finish
    PROVE  CallsCounted'
<1>1. /\ stack # << >>
      /\ stack' = Below
      /\ UNCHANGED <<attempts, called>>
  BY DEF CallThrows, Finish, InCallback, InLoop, history
<1>2. stack \in Seq(Frame) /\ Len(stack) \in Nat \ {0}
  BY <1>1, TopFacts
<1>3. /\ Len(stack') <= Len(stack)
      /\ \A n \in 1..Len(stack') : stack'[n] = stack[n]
  BY <1>1, <1>2 DEF Below
<1> QED
  BY <1>1, <1>3, CountKept

LEMMA NextCounts ==
    ASSUME IInv, IInv', CallsCounted, [Next]_vars
    PROVE  CallsCounted'
<1>1. CASE \E function \in {"bootstrap", "run"} : Begin(function)
  BY <1>1, BeginCounts
<1>2. CASE CallNext
  BY <1>2, CallCounts
<1>3. CASE CallReturns \/ NextLoop
  BY <1>3, GoOnCounts
<1>4. CASE CallThrows \/ Finish
  BY <1>4, EndCounts
<1>5. CASE UNCHANGED <<stack, attempts, called>>
  BY <1>5 DEF CallsCounted, Waiting, ToCall
<1>6. CASE \E k \in Kinds : AddCallback(k)
  BY <1>5, <1>6 DEF AddCallback
<1>7. CASE BootstrapAtOnce \/ RunBooted \/ Terminate \/ UNCHANGED vars
  BY <1>5, <1>7 DEF BootstrapAtOnce, RunBooted, Terminate, vars, history
<1> QED
  BY <1>1, <1>2, <1>3, <1>4, <1>6, <1>7 DEF Next

\* One bootstrap calls nothing twice, whatever its callbacks call and throw.
THEOREM CalledOnce == Spec => []OncePerBootstrap
<1>1. Init => CallsCounted
  <2> SUFFICES ASSUME Init, NEW l \in Loops, NEW i \in Positions
               PROVE  called[l][i] + Cardinality(Waiting(l, i)) <= attempts
    BY DEF CallsCounted
  <2>1. Waiting(l, i) = {}
    BY DEF Init, Waiting
  <2>2. Cardinality(Waiting(l, i)) = 0
    BY <2>1, FS_EmptySet
  <2> QED  BY <2>2 DEF Init
<1>2. IInv /\ IInv' /\ CallsCounted /\ [Next]_vars => CallsCounted'
  BY NextCounts
<1>3. IInv /\ CallsCounted => OncePerBootstrap
  <2> SUFFICES ASSUME IInv, CallsCounted, NEW l \in Loops, NEW i \in Positions
               PROVE  called[l][i] <= attempts
    BY DEF OncePerBootstrap
  <2>1. called[l][i] + Cardinality(Waiting(l, i)) <= attempts
    BY DEF CallsCounted
  <2>2. called[l][i] \in Nat /\ attempts \in Nat
    BY ApplicationAssumption DEF IInv, TypeOK
  <2> QED  BY <2>1, <2>2, WaitingFinite
<1> QED
  BY <1>1, <1>2, <1>3, Invariant, PTL DEF Spec

================================================================================
