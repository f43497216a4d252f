-------------------------- MODULE CommonLogProofs ---------------------------
(***************************************************************************)
(* Proofs about the logger, for any capacity, any number of messages and   *)
(* any settings: its ring buffer loses and reorders nothing, a pause that  *)
(* returns has flushed it, and every message goes where it was meant to.   *)
(***************************************************************************)
EXTENDS CommonLog, TLAPS

USE LogAssumption

\* Messages in the buffer, counted from what was accepted and what was printed
\* instead of from head and tail.
Pend == Len(accepted) - Len(printed) - InHand

\* Who runs when.
Coupling ==
    /\ running => ctl = "idle" /\ worker \in Alive
    /\ ctl = "join" => ~running /\ worker \in Alive \cup {"exited"}
    /\ ~running /\ ctl # "join" => worker = "none" /\ Len(accepted) = Len(printed)
    /\ worker = "exited" => ctl = "join" /\ Len(accepted) = Len(printed)

\* The index k entries after the head.
SlotAt(h, s, k) == IF h + k < s THEN h + k ELSE h + k - s
Slot(k) == SlotAt(head, size, k)

\* The buffer holds Pend messages from head on, then perhaps the sentinel; it may be
\* full only because of the sentinel.
Ring ==
    /\ Pend \in Nat
    /\ Pend + Ending <= size
    /\ Ending = 0 => Pend < size
    /\ tail = Slot(Pend + Ending)
    /\ \A k \in 1..Pend : Carries(entries[Slot(k - 1)], Len(printed) + InHand + k)
    /\ Ending = 1 => entries[Slot(Pend)].is_end

Output ==
    /\ \A i \in 1..Len(printed) :
         printed[i].msg = accepted[i].msg /\ printed[i].style = accepted[i].style
    /\ worker = "print" => Carries(cur, Len(printed) + 1)

\* No message still to be printed was accepted for another sink.
SinkKept ==
    /\ \A i \in 1..Len(printed) : printed[i].sink = accepted[i].sink
    /\ \A i \in (Len(printed) + 1)..Len(accepted) : accepted[i].sink = sink

IInv == TypeOK /\ Coupling /\ Ring /\ Output /\ SinkKept

-----------------------------------------------------------------------------
\* Indices below twice the size wrap at most once.
LEMMA ModIs ==
    ASSUME NEW n \in Nat \ {0}, NEW a \in Nat, a < 2 * n
    PROVE  a % n = (IF a < n THEN a ELSE a - n)
  <1>1. CASE a < n  BY <1>1, SMT
  <1>2. CASE a >= n BY <1>2, SMT
  <1>3. QED BY <1>1, <1>2

LEMMA ModSize ==
    ASSUME TypeOK
    PROVE  \A a \in Nat : a < 2 * size => a % size = (IF a < size THEN a ELSE a - size)
  <1>1. \A n \in Nat \ {0}, a \in Nat : a < 2 * n => a % n = (IF a < n THEN a ELSE a - n)
    BY ModIs
  <1>2. size \in Nat \ {0} BY DEF TypeOK
  <1>3. QED BY <1>1, <1>2

LEMMA AdvanceIs ==
    ASSUME TypeOK, NEW i \in 0..(size - 1)
    PROVE  /\ Advance(i) = IF i + 1 = size THEN 0 ELSE i + 1
           /\ Advance(i) \in 0..(size - 1)
  <1>1. size \in Nat \ {0} /\ i \in Nat /\ i < size BY DEF TypeOK
  <1> DEFINE j == i + 1
  <1>2. j \in Nat /\ j < 2 * size /\ j <= size BY <1>1
  <1>3. Advance(i) = j % size BY DEF Advance
  <1> HIDE DEF j
  <1>4. j % size = (IF j < size THEN j ELSE j - size)
    BY <1>2, ModSize
  <1>5. QED BY <1>1, <1>2, <1>3, <1>4 DEF j

\* The code's index arithmetic agrees with Slot.
LEMMA SlotIs ==
    ASSUME TypeOK, NEW k \in 0..(size - 1)
    PROVE  (head + k) % size = Slot(k) /\ Slot(k) \in 0..(size - 1)
  <1>1. size \in Nat \ {0} /\ head \in Nat /\ head < size /\ k \in Nat /\ k < size
    BY DEF TypeOK
  <1> DEFINE j == head + k
  <1>2. j \in Nat /\ j < 2 * size BY <1>1
  <1>3. (head + k) % size = j % size OBVIOUS
  <1>4. Slot(k) = IF j < size THEN j ELSE j - size BY <1>1 DEF Slot, SlotAt
  <1> HIDE DEF j
  <1>5. j % size = (IF j < size THEN j ELSE j - size)
    BY <1>2, ModSize
  <1>6. QED BY <1>1, <1>2, <1>3, <1>4, <1>5

-----------------------------------------------------------------------------
LEMMA InitTypeOK == Init => TypeOK
  <1> SUFFICES ASSUME Init PROVE TypeOK OBVIOUS
  <1>1. Blank \in Entry BY DEF Blank, Entry
  <1>2. [op |-> "pause"] \in Todo BY DEF Todo
  <1>3. accepted = <<>> /\ printed = <<>> BY DEF Init
  <1>4. QED BY <1>1, <1>2, <1>3 DEF Init, TypeOK, Alive

LEMMA InitIInv == Init => IInv
  <1> SUFFICES ASSUME Init PROVE IInv OBVIOUS
  <1>1. TypeOK BY InitTypeOK
  <1>2. Len(accepted) = 0 /\ Len(printed) = 0 /\ InHand = 0 /\ Ending = 0
    BY DEF Init, InHand, Ending
  <1>3. Ring BY <1>1, <1>2 DEF Init, Ring, Pend, Slot, SlotAt, TypeOK
  <1>4. QED BY <1>1, <1>2, <1>3 DEF Init, IInv, Coupling, Output, SinkKept, Alive

-----------------------------------------------------------------------------
\* Types of what add appends and the worker copies.
LEMMA TypeStep == TypeOK /\ Ring /\ [Next]_vars => TypeOK'
  <1> SUFFICES ASSUME TypeOK, Ring, [Next]_vars PROVE TypeOK' OBVIOUS
  <1>1. CASE Add
    <2> DEFINE m == Len(accepted) + 1
               e == [msg |-> m, style |-> style, is_end |-> FALSE]
               ring1 == [entries EXCEPT ![tail] = e]
    <2>1. m \in 1..MaxAdds /\ e = Fresh(Len(accepted) + 1)
      BY <1>1 DEF Add, TypeOK, Fresh
    <2>2. e \in Entry BY <2>1 DEF Entry, TypeOK
    <2>3. ring1 \in [0..(size - 1) -> Entry] BY <2>2 DEF TypeOK
    <2>4. Blank \in Entry BY DEF Blank, Entry
    <2>5. accepted' \in Seq([msg : 1..MaxAdds, style : SUBSET Flags, sink : Sinks])
      BY <1>1, <2>1 DEF Add, TypeOK
    <2>6. worker' \in Alive \cup {"none", "exited"}
      BY <1>1 DEF Add, TypeOK, Notified, Alive
    <2>7. /\ size' \in Nat \ {0} /\ head' \in 0..(size' - 1) /\ tail' \in 0..(size' - 1)
          /\ entries' \in [0..(size' - 1) -> Entry]
      <3>1. CASE Advance(tail) = head
        <4>1. Expand(ring1) BY <1>1, <2>1, <3>1 DEF Add
        <4>2. \A i \in 0..(size - 1) : (head + i) % size \in 0..(size - 1)
          BY SlotIs
        <4> DEFINE f(i) == IF i < size THEN ring1[(head + i) % size] ELSE Blank
        <4>3. \A i \in 0..(2 * size - 1) : f(i) \in Entry
          <5> HIDE DEF ring1
          <5>1. QED BY <2>3, <2>4, <4>2 DEF TypeOK
        <4>4. /\ entries' = [i \in 0..(2 * size - 1) |-> f(i)]
              /\ size' = 2 * size /\ head' = 0 /\ tail' = size
          BY <4>1 DEF Expand
        <4> HIDE DEF ring1, f
        <4>5. QED BY <4>3, <4>4 DEF TypeOK
      <3>2. CASE Advance(tail) # head
        <4>1. entries' = ring1 /\ tail' = Advance(tail) /\ size' = size /\ head' = head
          BY <1>1, <2>1, <3>2 DEF Add
        <4>2. Advance(tail) \in 0..(size - 1) BY AdvanceIs DEF TypeOK
        <4> HIDE DEF ring1
        <4>3. QED BY <2>3, <4>1, <4>2 DEF TypeOK
      <3>3. QED BY <3>1, <3>2
    <2>8. QED BY <1>1, <2>5, <2>6, <2>7 DEF Add, TypeOK
  <1>2. CASE Discard BY <1>2 DEF Discard, vars, ring, TypeOK
  <1>3. CASE SetStyle BY <1>3 DEF SetStyle, ring, TypeOK
  <1>4. CASE Sleep BY <1>4 DEF Sleep, ring, TypeOK, Alive
  <1>5. CASE Take
    <2>1. Advance(head) \in 0..(size - 1) BY AdvanceIs DEF TypeOK
    <2>2. entries[head] \in Entry BY DEF TypeOK
    <2>3. QED BY <1>5, <2>1, <2>2 DEF Take, TypeOK, Alive
  <1>6. CASE PrintCur
    <2>1. printed' \in Seq([msg : 0..MaxAdds, style : SUBSET Flags, sink : Sinks])
      BY <1>6 DEF PrintCur, TypeOK, Entry
    <2>2. QED BY <1>6, <2>1 DEF PrintCur, ring, TypeOK, Alive
  <1>7. CASE Resume BY <1>7 DEF Resume, ring, TypeOK, Alive
  <1>8. ASSUME NEW t \in Todo, Pause(t) PROVE TypeOK'
    <2>1. Advance(tail) \in 0..(size - 1) BY AdvanceIs DEF TypeOK
    <2>2. entries[tail] \in Entry BY DEF TypeOK
    <2>3. [entries[tail] EXCEPT !.is_end = TRUE] \in Entry BY <2>2 DEF Entry
    <2>4. entries' = [entries EXCEPT ![tail] = [entries[tail] EXCEPT !.is_end = TRUE]]
      BY <1>8 DEF Pause
    <2>5. entries' \in [0..(size - 1) -> Entry] BY <2>3, <2>4 DEF TypeOK
    <2>6. QED BY <1>8, <2>1, <2>5 DEF Pause, TypeOK, Notified, Alive
  <1>9. ASSUME NEW t \in Todo, WhilePaused(t) PROVE TypeOK'
    <2>1. t.op = "change" => t.to \in Sinks BY DEF Todo
    <2>2. QED BY <1>9, <2>1 DEF WhilePaused, Rest, ring, TypeOK, Alive
  <1>10. CASE Join
    <2>1. todo.op = "change" => todo.to \in Sinks BY DEF TypeOK, Todo
    <2>2. QED BY <1>10, <2>1 DEF Join, Rest, ring, TypeOK, Alive
  <1>11. CASE UNCHANGED vars BY <1>11 DEF vars, ring, TypeOK
  <1>12. QED
    BY <1>1, <1>2, <1>3, <1>4, <1>5, <1>6, <1>7, <1>8, <1>9, <1>10, <1>11
    DEF Next, Worker

-----------------------------------------------------------------------------
LEMMA CouplingStep == IInv /\ [Next]_vars => Coupling'
  <1> SUFFICES ASSUME IInv, [Next]_vars PROVE Coupling' OBVIOUS
  <1> USE DEF IInv, Alive
  <1>a. Len(accepted) \in Nat /\ Len(printed) \in Nat BY DEF TypeOK
  <1>1. CASE Add BY <1>1, <1>a DEF Add, Coupling, Notified
  <1>2. CASE Discard BY <1>2 DEF Discard, vars, ring, Coupling
  <1>3. CASE SetStyle BY <1>3 DEF SetStyle, Coupling
  <1>4. CASE Sleep BY <1>4 DEF Sleep, Coupling
  <1>5. CASE Take
    <2>1. CASE entries[head].is_end
      <3>1. Pend = 0
        <4>1. Pend \in Nat /\ InHand = 0 BY <1>5 DEF Take, Ring, InHand
        <4>2. Pend >= 1 => Carries(entries[Slot(0)], Len(printed) + InHand + 1)
          BY <4>1 DEF Ring
        <4>3. Slot(0) = head BY DEF Slot, SlotAt, TypeOK
        <4>4. QED BY <2>1, <4>1, <4>2, <4>3 DEF Carries
      <3>2. Len(accepted) = Len(printed) BY <1>5, <1>a, <3>1 DEF Take, Pend, InHand
      <3>3. Ending = 1
        <4>1. Ending \in {0, 1} BY DEF Ending
        <4>2. Ending = 0 => tail = Slot(0) BY <3>1 DEF Ring
        <4>3. Slot(0) = head BY DEF Slot, SlotAt, TypeOK
        <4>4. QED BY <1>5, <4>1, <4>2, <4>3 DEF Take
      <3>4. ctl = "join" BY <3>3 DEF Ending
      <3>5. QED BY <1>5, <2>1, <3>2, <3>4 DEF Take, Coupling
    <2>2. CASE ~entries[head].is_end BY <1>5, <2>2 DEF Take, Coupling
    <2>3. QED BY <2>1, <2>2
  <1>6. CASE PrintCur BY <1>6, <1>a DEF PrintCur, Coupling
  <1>7. CASE Resume BY <1>7 DEF Resume, Coupling, TypeOK
  <1>8. ASSUME NEW t \in Todo, Pause(t) PROVE Coupling'
    BY <1>8 DEF Pause, Coupling, Notified
  <1>9. ASSUME NEW t \in Todo, WhilePaused(t) PROVE Coupling'
    BY <1>9 DEF WhilePaused, Rest, Coupling
  <1>10. CASE Join BY <1>10 DEF Join, Rest, Coupling
  <1>11. CASE UNCHANGED vars BY <1>11 DEF vars, ring, Coupling
  <1>12. QED
    BY <1>1, <1>2, <1>3, <1>4, <1>5, <1>6, <1>7, <1>8, <1>9, <1>10, <1>11
    DEF Next, Worker

\* What Ring says depends on the worker and the controller only through these.
LEMMA RingSame ==
    ASSUME IInv, UNCHANGED <<entries, size, head, tail, accepted, printed>>,
           InHand' = InHand, Ending' = Ending
    PROVE  Ring'
  BY DEF IInv, Ring, Pend, Slot, Carries

LEMMA RingAdd == ASSUME IInv, TypeOK', Add PROVE Ring'
  <1> USE DEF IInv
  <1> DEFINE A == Len(accepted)  L == Len(printed)
             e == Fresh(A + 1)
             ring1 == [entries EXCEPT ![tail] = e]
  <1>1. /\ A \in Nat /\ L \in Nat /\ Pend \in Nat /\ size \in Nat \ {0}
        /\ head \in Nat /\ head < size /\ tail \in 0..(size - 1)
    BY DEF TypeOK, Ring
  <1>2. Ending = 0 /\ Ending' = 0 /\ InHand' = InHand /\ InHand \in {0, 1}
    BY DEF Add, Coupling, Ending, InHand, Notified, Alive
  <1>3. /\ Len(accepted') = A + 1 /\ printed' = printed
        /\ \A i \in 1..A : accepted'[i] = accepted[i]
        /\ accepted'[A + 1].msg = A + 1 /\ accepted'[A + 1].style = style
    BY DEF Add, TypeOK
  <1>4. Pend' = Pend + 1 /\ A = L + InHand + Pend
    BY <1>1, <1>2, <1>3 DEF Pend
  <1>5. Pend < size /\ tail = Slot(Pend) BY <1>1, <1>2 DEF Ring
  <1>6. \A k \in 1..(Pend + 1) : Slot(k - 1) \in 0..(size - 1) BY <1>1, <1>5 DEF Slot, SlotAt
  <1>7. \A k \in 1..Pend : Slot(k - 1) # tail BY <1>1, <1>5 DEF Slot, SlotAt
  <1>8. ring1[tail] = e /\ \A k \in 1..Pend : ring1[Slot(k - 1)] = entries[Slot(k - 1)]
    BY <1>1, <1>6, <1>7 DEF TypeOK
  <1>9. ASSUME NEW k \in 1..(Pend + 1)
        PROVE  /\ ~ring1[Slot(k - 1)].is_end
               /\ ring1[Slot(k - 1)].msg = accepted'[L + InHand + k].msg
               /\ ring1[Slot(k - 1)].style = accepted'[L + InHand + k].style
    <2>1. CASE k = Pend + 1
      <3>1. ring1[Slot(k - 1)] = e BY <1>1, <1>5, <1>8, <2>1
      <3>2. L + InHand + k = A + 1 BY <1>1, <1>2, <1>4, <2>1
      <3>3. QED BY <1>3, <3>1, <3>2 DEF Fresh
    <2>2. CASE k \in 1..Pend
      <3>1. Carries(entries[Slot(k - 1)], L + InHand + k) BY <2>2 DEF Ring
      <3>2. L + InHand + k \in 1..A BY <1>1, <1>2, <1>4, <2>2
      <3> HIDE DEF ring1
      <3>3. QED BY <1>3, <1>8, <2>2, <3>1, <3>2 DEF Carries
    <2>3. QED BY <1>1, <2>1, <2>2
  <1>10. Len(printed)' + InHand' = L + InHand BY <1>2, <1>3
  <1>11. CASE Advance(tail) = head
    <2>0. head = IF tail + 1 = size THEN 0 ELSE tail + 1 BY <1>1, <1>11, AdvanceIs
    <2>1. Pend + 1 = size BY <1>1, <1>5, <2>0 DEF Slot, SlotAt
    <2>2. Expand(ring1) BY <1>11 DEF Add
    <2> DEFINE f(i) == IF i < size THEN ring1[(head + i) % size] ELSE Blank
    <2>3. /\ entries' = [i \in 0..(2 * size - 1) |-> f(i)]
          /\ size' = 2 * size /\ head' = 0 /\ tail' = size
      BY <2>2 DEF Expand
    <2>4. \A i \in 0..(size - 1) : f(i) = ring1[Slot(i)]
      <3> SUFFICES ASSUME NEW i \in 0..(size - 1) PROVE f(i) = ring1[Slot(i)]
        OBVIOUS
      <3>1. (head + i) % size = Slot(i) BY SlotIs
      <3>2. i < size BY <1>1
      <3> HIDE DEF ring1
      <3>3. QED BY ONLY <3>1, <3>2
    <2> HIDE DEF ring1, f
    <2>5. \A i \in 0..(size - 1) : entries'[i] = ring1[Slot(i)]
      BY <1>1, <2>3, <2>4
    <2>6. \A k \in 1..(Pend + 1) : SlotAt(head', size', k - 1) = k - 1
      BY <1>1, <2>1, <2>3 DEF SlotAt
    <2>7. SlotAt(head', size', Pend + 1) = size BY <1>1, <2>1, <2>3 DEF SlotAt
    <2>8. \A k \in 1..(Pend + 1) : entries'[SlotAt(head', size', k - 1)] = ring1[Slot(k - 1)]
      BY <1>1, <2>1, <2>5, <2>6
    <2>10. \A k \in 1..Pend' : Carries(entries[Slot(k - 1)], Len(printed) + InHand + k)'
      BY <1>4, <1>9, <1>10, <2>8 DEF Carries, Slot
    <2>11. tail' = SlotAt(head', size', Pend' + Ending')
      BY <1>1, <1>2, <1>4, <2>3, <2>7
    <2>12. Pend' \in Nat /\ Pend' + Ending' <= size' /\ Pend' < size' /\ Ending' # 1
      BY <1>1, <1>2, <1>4, <2>1, <2>3
    <2> HIDE DEF IInv
    <2>13. QED BY <2>10, <2>11, <2>12 DEF Ring, Slot
  <1>12. CASE Advance(tail) # head
    <2>1. entries' = ring1 /\ tail' = Advance(tail) /\ size' = size /\ head' = head
      BY <1>12 DEF Add
    <2>a. Advance(tail) = IF tail + 1 = size THEN 0 ELSE tail + 1 BY <1>1, AdvanceIs
    <2>2. Pend + 1 < size /\ Advance(tail) = Slot(Pend + 1)
      BY <1>1, <1>5, <1>12, <2>a DEF Slot, SlotAt
    <2> HIDE DEF ring1
    <2>4. \A k \in 1..(Pend + 1) : entries'[SlotAt(head', size', k - 1)] = ring1[Slot(k - 1)]
      BY <2>1 DEF Slot, SlotAt
    <2>5. tail' = SlotAt(head', size', Pend + 1) BY <2>1, <2>2 DEF Slot, SlotAt
    <2>6. QED
      BY <1>1, <1>2, <1>3, <1>4, <1>9, <1>10, <2>1, <2>2, <2>4, <2>5 DEF Ring, Slot, Carries
  <1>13. QED BY <1>11, <1>12

LEMMA RingTake == ASSUME IInv, Take PROVE Ring'
  <1>a. TypeOK /\ Coupling /\ Ring BY DEF IInv
  <1>1. /\ Len(accepted) \in Nat /\ Len(printed) \in Nat /\ Pend \in Nat
        /\ size \in Nat \ {0} /\ head \in Nat /\ head < size
    BY <1>a DEF TypeOK, Ring
  <1>2. /\ InHand = 0 /\ Ending \in {0, 1} /\ Pend + Ending <= size
        /\ tail = Slot(Pend + Ending) /\ Slot(0) = head
    BY <1>1, <1>a DEF Take, InHand, Ending, Ring, Slot, SlotAt
  <1>3. Pend + Ending >= 1
    BY <1>1, <1>2 DEF Take
  <1>4. head' = IF head + 1 = size THEN 0 ELSE head + 1
    BY <1>1, <1>a, AdvanceIs DEF Take
  <1>5. UNCHANGED <<entries, size, tail, accepted, printed, ctl>> BY DEF Take
  <1>6. \A k \in 0..(size - 1) : SlotAt(head', size', k) = Slot(k + 1)
    BY <1>1, <1>4, <1>5 DEF Slot, SlotAt
  <1>7. CASE entries[head].is_end
    <2>1. Pend = 0
      <3>1. Pend >= 1 => Carries(entries[Slot(0)], Len(printed) + InHand + 1)
        BY <1>1, <1>a DEF Ring
      <3>2. QED BY <1>1, <1>2, <1>7, <3>1 DEF Carries
    <2>2. Ending = 1 /\ Ending' = 0 /\ InHand' = 0
      BY <1>1, <1>2, <1>3, <1>7, <2>1 DEF Take, Ending, InHand
    <2>3. Pend' = 0 BY <1>1, <1>2, <1>5, <2>1, <2>2 DEF Pend
    <2>4. tail' = SlotAt(head', size', 0) BY <1>1, <1>2, <1>5, <1>6, <2>1, <2>2
    <2>5. QED BY <1>1, <1>5, <2>2, <2>3, <2>4 DEF Ring, Slot
  <1>8. CASE ~entries[head].is_end
    <2>1. Pend >= 1 BY <1>1, <1>2, <1>3, <1>8, <1>a DEF Ring
    <2>2. InHand' = 1 /\ Ending' = Ending
      BY <1>5, <1>8 DEF Take, InHand, Ending
    <2>3. Pend' = Pend - 1 BY <1>1, <1>2, <1>5, <2>2 DEF Pend
    <2>4. tail' = SlotAt(head', size', Pend' + Ending')
      BY <1>1, <1>2, <1>5, <1>6, <2>1, <2>2, <2>3
    <2>5. ASSUME NEW k \in 1..Pend'
          PROVE  Carries(entries[Slot(k - 1)], Len(printed) + InHand + k)'
      <3>a. k + 1 \in 1..Pend BY <1>1, <2>3, <2>5
      <3>b. Carries(entries[Slot((k + 1) - 1)], Len(printed) + InHand + (k + 1))
        BY <1>a, <3>a DEF Ring
      <3>c. (k + 1) - 1 = k /\ Len(printed) + InHand + (k + 1) = Len(printed) + k + 1
        BY <1>1, <1>2, <2>3, <2>5
      <3>1. Carries(entries[Slot(k)], Len(printed) + k + 1)
        BY <3>b, <3>c
      <3>2. SlotAt(head', size', k - 1) = Slot(k) BY <1>1, <1>2, <1>6, <2>1, <2>3, <2>5
      <3>3. Len(printed)' + InHand' + k = Len(printed) + k + 1 BY <1>1, <1>5, <2>2, <2>3
      <3>4. QED BY <1>5, <3>1, <3>2, <3>3 DEF Carries, Slot
    <2>6. Ending' = 1 => entries'[SlotAt(head', size', Pend')].is_end
      BY <1>1, <1>2, <1>5, <1>6, <1>a, <2>1, <2>2, <2>3 DEF Ring
    <2>7. Pend' \in Nat /\ Pend' + Ending' <= size' /\ (Ending' = 0 => Pend' < size')
      BY <1>1, <1>2, <1>5, <2>1, <2>2, <2>3
    <2>8. QED BY <2>4, <2>5, <2>6, <2>7 DEF Ring, Slot
  <1>9. QED BY <1>7, <1>8

LEMMA RingPrint == ASSUME IInv, PrintCur PROVE Ring'
  <1>a. TypeOK /\ Ring BY DEF IInv
  <1>1. Len(accepted) \in Nat /\ Len(printed) \in Nat BY <1>a DEF TypeOK
  <1>2. UNCHANGED <<entries, size, head, tail, accepted, ctl>> BY DEF PrintCur, ring
  <1>3. Len(printed') = Len(printed) + 1 BY <1>a DEF PrintCur, TypeOK
  <1>4. InHand = 1 /\ InHand' = 0 /\ Ending' = Ending
    BY <1>2 DEF PrintCur, InHand, Ending
  <1>5. Pend' = Pend /\ Len(printed)' + InHand' = Len(printed) + InHand
    BY <1>1, <1>2, <1>3, <1>4 DEF Pend
  <1>6. QED BY <1>2, <1>4, <1>5, <1>a DEF Ring, Slot, Carries

LEMMA RingPause == ASSUME IInv, NEW t, Pause(t) PROVE Ring'
  <1>a. TypeOK /\ Coupling /\ Ring BY DEF IInv
  <1>1. /\ Pend \in Nat /\ size \in Nat \ {0} /\ head \in Nat /\ head < size
        /\ tail \in 0..(size - 1)
    BY <1>a DEF TypeOK, Ring
  <1>2. Ending = 0 /\ Ending' = 1 /\ InHand' = InHand
    BY <1>a DEF Pause, Coupling, Ending, InHand, Notified, Alive
  <1>3. UNCHANGED <<size, head, accepted, printed>> BY DEF Pause
  <1>4. Pend' = Pend BY <1>2, <1>3 DEF Pend
  <1>5. Pend < size /\ tail = Slot(Pend) BY <1>1, <1>2, <1>a DEF Ring
  <1>6. Advance(tail) = IF tail + 1 = size THEN 0 ELSE tail + 1 BY <1>1, <1>a, AdvanceIs
  <1>7. tail' = Slot(Pend + 1) BY <1>1, <1>5, <1>6 DEF Pause, Slot, SlotAt
  <1>8. \A k \in 1..Pend : Slot(k - 1) # tail /\ Slot(k - 1) \in 0..(size - 1)
    BY <1>1, <1>5 DEF Slot, SlotAt
  <1>9. /\ \A k \in 1..Pend : entries'[Slot(k - 1)] = entries[Slot(k - 1)]
        /\ entries'[tail].is_end
    BY <1>1, <1>8, <1>a DEF Pause, TypeOK, Entry
  <1>10. ASSUME NEW k \in 1..Pend'
         PROVE  Carries(entries[Slot(k - 1)], Len(printed) + InHand + k)'
    <2>1. Carries(entries[Slot(k - 1)], Len(printed) + InHand + k)
      BY <1>4, <1>10, <1>a DEF Ring
    <2>2. QED BY <1>2, <1>3, <1>4, <1>9, <1>10, <2>1 DEF Carries, Slot
  <1>11. Pend' \in Nat /\ Pend' + Ending' <= size'
    BY <1>1, <1>2, <1>3, <1>4, <1>5
  <1>12. QED BY <1>2, <1>3, <1>4, <1>5, <1>7, <1>9, <1>10, <1>11 DEF Ring, Slot

LEMMA RingStep == IInv /\ TypeOK' /\ Coupling' /\ [Next]_vars => Ring'
  <1> SUFFICES ASSUME IInv, TypeOK', Coupling', [Next]_vars PROVE Ring' OBVIOUS
  <1>a. TypeOK /\ Coupling BY DEF IInv
  <1>1. CASE Add BY <1>1, RingAdd
  <1>2. CASE Discard BY <1>2, RingSame DEF Discard, vars, ring, InHand, Ending
  <1>3. CASE SetStyle BY <1>3, RingSame DEF SetStyle, ring, InHand, Ending
  <1>4. CASE Sleep
    BY <1>4, <1>a, RingSame DEF Sleep, ring, InHand, Ending
  <1>5. CASE Take BY <1>5, RingTake
  <1>6. CASE PrintCur BY <1>6, RingPrint
  <1>7. CASE Resume
    BY <1>7, <1>a, RingSame DEF Resume, ring, InHand, Ending, Coupling
  <1>8. ASSUME NEW t \in Todo, Pause(t) PROVE Ring' BY <1>8, RingPause
  <1>9. ASSUME NEW t \in Todo, WhilePaused(t) PROVE Ring'
    BY <1>9, <1>a, RingSame DEF WhilePaused, Rest, ring, InHand, Ending, Coupling
  <1>10. CASE Join
    BY <1>10, <1>a, RingSame DEF Join, Rest, ring, InHand, Ending, Coupling
  <1>11. CASE UNCHANGED vars BY <1>11, RingSame DEF vars, ring, InHand, Ending
  <1>12. QED
    BY <1>1, <1>2, <1>3, <1>4, <1>5, <1>6, <1>7, <1>8, <1>9, <1>10, <1>11
    DEF Next, Worker

LEMMA OutputStep == IInv /\ [Next]_vars => Output' /\ SinkKept'
  <1> SUFFICES ASSUME IInv, [Next]_vars PROVE Output' /\ SinkKept' OBVIOUS
  <1>a. TypeOK /\ Coupling /\ Ring /\ Output /\ SinkKept BY DEF IInv
  <1>b. Len(accepted) \in Nat /\ Len(printed) \in Nat BY <1>a DEF TypeOK
  <1>c. Len(printed) + InHand <= Len(accepted) /\ InHand \in {0, 1}
    BY <1>a, <1>b DEF Ring, Pend, InHand
  <1>1. CASE Add
    <2>1. /\ Len(accepted') = Len(accepted) + 1 /\ printed' = printed
          /\ \A i \in 1..Len(accepted) : accepted'[i] = accepted[i]
          /\ accepted'[Len(accepted) + 1].sink = sink
          /\ sink' = sink /\ cur' = cur /\ (worker' = "print" <=> worker = "print")
      BY <1>1, <1>a DEF Add, TypeOK, Notified
    <2>2. worker = "print" => Len(printed) + 1 \in 1..Len(accepted)
      BY <1>b, <1>c DEF InHand
    <2>3. QED BY <1>a, <1>b, <1>c, <2>1, <2>2 DEF Output, SinkKept, Carries
  <1>2. CASE Discard BY <1>2, <1>a DEF Discard, vars, ring, Output, SinkKept, Carries
  <1>3. CASE SetStyle BY <1>3, <1>a DEF SetStyle, ring, Output, SinkKept, Carries
  <1>4. CASE Sleep BY <1>4, <1>a DEF Sleep, ring, Output, SinkKept, Carries
  <1>5. CASE Take
    <2>1. UNCHANGED <<accepted, printed, sink>> BY <1>5 DEF Take
    <2>2. worker' = "print" => Carries(entries[head], Len(printed) + 1)
      <3>1. CASE entries[head].is_end BY <1>5, <3>1 DEF Take
      <3>2. CASE ~entries[head].is_end
        <4>1. InHand = 0 /\ Ending \in {0, 1} BY <1>5 DEF Take, InHand, Ending
        <4>2. Slot(0) = head BY <1>a DEF Slot, SlotAt, TypeOK
        <4>3. Pend >= 1 BY <1>5, <1>a, <3>2, <4>1, <4>2 DEF Take, Ring
        <4>4. 1 \in 1..Pend BY <1>a, <4>3 DEF Ring
        <4>5. Carries(entries[Slot(1 - 1)], Len(printed) + InHand + 1)
          BY <1>a, <4>4 DEF Ring
        <4>6. 1 - 1 = 0 /\ Len(printed) + InHand + 1 = Len(printed) + 1 BY <1>b, <4>1
        <4>7. QED BY <4>2, <4>5, <4>6
      <3>3. QED BY <3>1, <3>2
    <2>3. cur' = entries[head] BY <1>5 DEF Take
    <2>4. QED BY <1>a, <2>1, <2>2, <2>3 DEF Output, SinkKept, Carries
  <1>6. CASE PrintCur
    <2>1. /\ Len(printed') = Len(printed) + 1 /\ accepted' = accepted /\ sink' = sink
          /\ \A i \in 1..Len(printed) : printed'[i] = printed[i]
          /\ printed'[Len(printed) + 1] =
               [msg |-> cur.msg, style |-> cur.style, sink |-> sink]
      BY <1>6, <1>a DEF PrintCur, TypeOK
    <2>2. worker' # "print" BY <1>6 DEF PrintCur
    <2>3. /\ cur.msg = accepted[Len(printed) + 1].msg
          /\ cur.style = accepted[Len(printed) + 1].style
          /\ accepted[Len(printed) + 1].sink = sink
      <3>1. Len(printed) + 1 \in (Len(printed) + 1)..Len(accepted)
        BY <1>6, <1>b, <1>c DEF PrintCur, InHand
      <3>2. QED BY <1>6, <1>a, <3>1 DEF PrintCur, Output, SinkKept, Carries
    <2>4. QED BY <1>a, <1>b, <2>1, <2>2, <2>3 DEF Output, SinkKept
  <1>7. CASE Resume BY <1>7, <1>a DEF Resume, ring, Output, SinkKept, Carries
  <1>8. ASSUME NEW t \in Todo, Pause(t) PROVE Output' /\ SinkKept'
    BY <1>8, <1>a DEF Pause, Notified, Output, SinkKept, Carries
  <1>9. ASSUME NEW t \in Todo, WhilePaused(t) PROVE Output' /\ SinkKept'
    <2>1. /\ UNCHANGED <<accepted, printed, cur>> /\ worker' # "print"
          /\ Len(accepted) = Len(printed)
      BY <1>9, <1>a DEF WhilePaused, Rest, Coupling
    <2>2. QED BY <1>a, <1>b, <2>1 DEF Output, SinkKept
  <1>10. CASE Join
    <2>1. /\ UNCHANGED <<accepted, printed, cur>> /\ worker' # "print"
          /\ Len(accepted) = Len(printed)
      BY <1>10, <1>a DEF Join, Rest, Coupling
    <2>2. QED BY <1>a, <1>b, <2>1 DEF Output, SinkKept
  <1>11. CASE UNCHANGED vars BY <1>11, <1>a DEF vars, ring, Output, SinkKept, Carries
  <1>12. QED
    BY <1>1, <1>2, <1>3, <1>4, <1>5, <1>6, <1>7, <1>8, <1>9, <1>10, <1>11
    DEF Next, Worker

LEMMA IInvStep == IInv /\ [Next]_vars => IInv'
  <1> SUFFICES ASSUME IInv, [Next]_vars PROVE IInv' OBVIOUS
  <1>1. TypeOK' BY TypeStep DEF IInv
  <1>2. Coupling' BY CouplingStep
  <1>3. Ring' BY <1>1, <1>2, RingStep
  <1>4. Output' /\ SinkKept' BY OutputStep
  <1>5. QED BY <1>1, <1>2, <1>3, <1>4 DEF IInv

\* The inductive invariant: types, who runs when, the layout of the buffer, what was
\* printed, and the sink of what is still to be printed.
THEOREM Invariance == Spec => []IInv
  BY InitIInv, IInvStep, PTL DEF Spec

-----------------------------------------------------------------------------
\* head and tail tell how many messages wait, unless pause() found the buffer full.
LEMMA WaitingIs == ASSUME IInv, ~Overrun PROVE Waiting = Pend
  <1>a. TypeOK /\ Coupling /\ Ring BY DEF IInv
  <1>1. /\ Pend \in Nat /\ size \in Nat \ {0} /\ head \in Nat /\ head < size
        /\ tail \in Nat /\ tail < size /\ Ending \in {0, 1}
        /\ Pend + Ending <= size /\ (Ending = 0 => Pend < size)
        /\ tail = Slot(Pend + Ending)
    BY <1>a DEF TypeOK, Ring, Ending
  <1>2. Pend + Ending # size
    <2>1. Ending = 1 => ctl = "join" /\ worker # "exited" BY DEF Ending
    <2>2. Ending = 1 => head # tail BY <2>1 DEF Overrun
    <2>3. Pend + Ending = size => tail = head BY <1>1 DEF Slot, SlotAt
    <2>4. QED BY <1>1, <2>2, <2>3
  <1> DEFINE j == tail + size - head
  <1>3. j \in Nat /\ j < 2 * size /\ (IF j < size THEN j ELSE j - size) = Pend + Ending
    BY <1>1, <1>2 DEF Slot, SlotAt
  <1>4. Waiting = (j % size) - Ending BY DEF Waiting
  <1> HIDE DEF j
  <1>5. j % size = (IF j < size THEN j ELSE j - size) BY <1>3, <1>a, ModSize
  <1>6. QED BY <1>1, <1>3, <1>4, <1>5

\* The types of the logger's state, for every capacity.
THEOREM TypeCorrect == Spec => []TypeOK
  BY Invariance, PTL DEF IInv

\* For every capacity and every interleaving of adds, worker and controller, messages
\* are printed in order and once, and none is lost unless pause() overran the buffer.
THEOREM LogKeepsMessages == Spec => []NothingLost
  <1>1. IInv => NothingLost
    <2> SUFFICES ASSUME IInv PROVE NothingLost OBVIOUS
    <2>a. TypeOK /\ Ring /\ Output BY DEF IInv
    <2>1. Len(accepted) \in Nat /\ Len(printed) \in Nat /\ InHand \in {0, 1} /\ Pend \in Nat
      BY <2>a DEF TypeOK, InHand, Ring
    <2>2. Len(printed) + InHand + Pend = Len(accepted) BY <2>1 DEF Pend
    <2>3. ASSUME ~Overrun, NEW k \in 1..Waiting
          PROVE  Carries(entries[(head + k - 1) % size], Len(printed) + InHand + k)
      <3>1. k \in 1..Pend BY <2>3, WaitingIs
      <3>2. k - 1 \in 0..(size - 1) BY <2>a, <3>1 DEF Ring, TypeOK, Ending
      <3> DEFINE i == k - 1
      <3>3. (head + i) % size = Slot(i) BY <2>a, <3>2, SlotIs
      <3>4. head + k - 1 = head + i BY <2>a, <3>1 DEF TypeOK
      <3>5. Carries(entries[Slot(i)], Len(printed) + InHand + k) BY <2>a, <3>1 DEF Ring
      <3> HIDE DEF i
      <3>6. QED BY <3>3, <3>4, <3>5
    <2>4. QED BY <2>1, <2>2, <2>3, <2>a, WaitingIs DEF NothingLost, Output
  <1>2. QED BY <1>1, Invariance, PTL

\* A pause that has returned has flushed the buffer and left no worker running.
THEOREM PauseHasFlushed == Spec => []PauseFlushes
  <1>1. IInv => PauseFlushes BY DEF IInv, Coupling, PauseFlushes, Alive
  <1>2. QED BY <1>1, Invariance, PTL

\* No change of file or colours overtakes a message.
THEOREM SinkIsRespected == Spec => []IntoItsSink
  <1>1. IInv => IntoItsSink BY DEF IInv, SinkKept, IntoItsSink
  <1>2. QED BY <1>1, Invariance, PTL

-----------------------------------------------------------------------------
(* Wakeups, and the pause that hangs.                                      *)

\* The worker sleeps in cv.wait only if head and tail told it to.
SleepsOnEmpty == worker = "asleep" => head = tail

\* A sleeping worker has printed everything and no pause() waits for it, or the pause
\* overran the buffer.
SleepsWhenDone ==
    worker = "asleep" => Overrun \/ (ctl # "join" /\ Len(printed) = Len(accepted))

\* The condition variable of common_log loses no wakeup: add and pause notify under the mutex
\* under which the worker tests head and tail, so it sleeps only when nothing is left to do.
THEOREM WorkerSleepsWhenDone == Spec => []SleepsWhenDone
  <1>1. Init => SleepsOnEmpty BY DEF Init, SleepsOnEmpty
  <1>2. SleepsOnEmpty /\ [Next]_vars => SleepsOnEmpty'
    <2> SUFFICES ASSUME SleepsOnEmpty, [Next]_vars, worker' = "asleep" PROVE head' = tail'
      BY DEF SleepsOnEmpty
    <2>1. CASE Add BY <2>1 DEF Add, Notified
    <2>2. CASE Discard \/ SetStyle
      BY <2>2 DEF Discard, SetStyle, SleepsOnEmpty, vars, ring
    <2>3. CASE Worker BY <2>3 DEF Worker, Sleep, Take, PrintCur, ring
    <2>4. CASE Resume BY <2>4 DEF Resume
    <2>5. ASSUME NEW t \in Todo, Pause(t) PROVE FALSE BY <2>5 DEF Pause, Notified
    <2>6. ASSUME NEW t \in Todo, WhilePaused(t) PROVE FALSE BY <2>6 DEF WhilePaused, Rest
    <2>7. CASE Join BY <2>7 DEF Join, Rest
    <2>8. CASE UNCHANGED vars BY <2>8 DEF SleepsOnEmpty, vars, ring
    <2>9. QED BY <2>1, <2>2, <2>3, <2>4, <2>5, <2>6, <2>7, <2>8 DEF Next
  <1>3. IInv /\ SleepsOnEmpty => SleepsWhenDone
    <2> SUFFICES ASSUME IInv, SleepsOnEmpty, worker = "asleep", ~Overrun
                 PROVE  ctl # "join" /\ Len(printed) = Len(accepted)
      BY DEF SleepsWhenDone
    <2>1. TypeOK /\ Ring /\ head = tail BY DEF IInv, SleepsOnEmpty
    <2>2. ctl # "join" BY <2>1 DEF Overrun
    <2>3. InHand = 0 /\ Ending = 0 BY <2>2 DEF InHand, Ending
    <2>4. /\ Pend \in Nat /\ Pend < size /\ tail = Slot(Pend)
          /\ size \in Nat /\ head \in Nat /\ head < size
      BY <2>1, <2>3 DEF Ring, TypeOK
    <2>5. Pend = 0 BY <2>1, <2>4 DEF Slot, SlotAt
    <2>6. Len(printed) \in Nat /\ Len(accepted) \in Nat BY <2>1 DEF TypeOK
    <2>7. QED BY <2>2, <2>3, <2>5, <2>6 DEF Pend
  <1>4. QED BY <1>1, <1>2, <1>3, Invariance, PTL DEF Spec

\* Only a pause() that finds all entries but one in use overruns the buffer: size - 1 messages
\* then stay unprinted.
OverrunIsFull == Overrun => Len(accepted) - Len(printed) - InHand = size - 1

\* pause() gets the worker to stop at every capacity and fill but one.
THEOREM OnlyFullOverruns == Spec => []OverrunIsFull
  <1>1. IInv => OverrunIsFull
    <2> SUFFICES ASSUME IInv, Overrun PROVE Pend = size - 1
      BY DEF OverrunIsFull, Pend
    <2>1. TypeOK /\ Ring BY DEF IInv
    <2>2. Ending = 1 /\ head = tail BY DEF Overrun, Ending
    <2>3. /\ Pend \in Nat /\ Pend + 1 <= size /\ tail = Slot(Pend + 1)
          /\ size \in Nat /\ head \in Nat /\ head < size
      BY <2>1, <2>2 DEF Ring, TypeOK
    <2>4. QED BY <2>2, <2>3 DEF Slot, SlotAt
  <1>2. QED BY <1>1, Invariance, PTL

\* A pause() that has overrun the buffer never returns: no step of any thread, not even another
\* add, gets the worker to see its messages again.
THEOREM OverrunIsForGood == Spec => [][Overrun => Overrun']_vars
  <1>1. ASSUME IInv, [Next]_vars PROVE [Overrun => Overrun']_vars
    <2> SUFFICES ASSUME Overrun PROVE Overrun' OBVIOUS
    <2>1. ctl = "join" /\ head = tail /\ worker # "exited" /\ ~running
      BY <1>1 DEF Overrun, IInv, Coupling
    <2>2. CASE Discard \/ SetStyle \/ UNCHANGED vars
      BY <2>1, <2>2 DEF Discard, SetStyle, Overrun, vars, ring
    <2>3. CASE Worker BY <2>1, <2>3 DEF Worker, Sleep, Take, PrintCur, Overrun, ring
    <2>4. CASE Add \/ Resume \/ Join BY <2>1, <2>4 DEF Add, Resume, Join
    <2>5. ASSUME NEW t \in Todo, Pause(t) \/ WhilePaused(t) PROVE FALSE
      BY <2>1, <2>5 DEF Pause, WhilePaused
    <2>6. QED BY <1>1, <2>2, <2>3, <2>4, <2>5 DEF Next
  <1>2. QED BY <1>1, Invariance, PTL DEF Spec
=============================================================================
