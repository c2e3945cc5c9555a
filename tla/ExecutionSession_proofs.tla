----------------------- MODULE ExecutionSession_proofs -----------------------
(***************************************************************************)
(* Proofs about ExecutionSession and its EventLog: the history of events    *)
(* keeps its shape, the explicit call stack stays one the guest could have  *)
(* built, and every end is explained, for every guest and all budgets.      *)
(***************************************************************************)
EXTENDS ExecutionSession, SequenceTheorems, TLAPS

-----------------------------------------------------------------------------
(* The log. *)

\* The prefix is shorter than the history.
LEMMA PrefixShort ==
  ASSUME NEW capacity \in Nat \ {0}
  PROVE  Prefix(capacity) \in Nat /\ Prefix(capacity) < capacity
  BY DEF Prefix

\* What is retained of a log, position by position.
LEMMA RetainedIs ==
  ASSUME NEW l \in Logs, NEW capacity \in Nat \ {0}, Shaped(l, capacity)
  PROVE  LET new == Retained(l, capacity)
             size == Len(l.kept)
             prefix == Prefix(capacity) IN
         /\ new \in Seq(Nat)
         /\ size < capacity =>
              /\ Len(new) = size + 1
              /\ new[size + 1] = l.total
              /\ \A i \in 1 .. size : new[i] = l.kept[i]
         /\ size >= capacity /\ ~ l.truncated =>
              /\ Len(new) = prefix + 1
              /\ new[prefix + 1] = l.total
              /\ \A i \in 1 .. prefix : new[i] = l.kept[i]
         /\ size >= capacity /\ l.truncated =>
              /\ Len(new) = size
              /\ new[size] = l.total
              /\ \A i \in 1 .. prefix : new[i] = l.kept[i]
              /\ \A i \in prefix + 1 .. size - 1 : new[i] = l.kept[i + 1]
<1> DEFINE size == Len(l.kept)
           prefix == Prefix(capacity)
           head == SubSeq(l.kept, 1, prefix)
           window == SubSeq(l.kept, prefix + 2, size)
<1>1. /\ size \in Nat /\ size <= capacity /\ l.kept \in Seq(Nat) /\ l.total \in Nat
      /\ l.truncated \in BOOLEAN
      /\ l.truncated => prefix < size
  BY DEF Logs, Shaped
<1>2. prefix \in Nat /\ prefix < capacity
  BY PrefixShort
<1>3. CASE size < capacity
  <2>1. Retained(l, capacity) = Append(l.kept, l.total)
    BY <1>3 DEF Retained
  <2> QED BY <1>1, <1>3, <2>1
<1>4. CASE size >= capacity /\ ~ l.truncated
  <2>a. ~ (size < capacity)
    BY <1>1, <1>4
  <2>1. Retained(l, capacity) = Append(head, l.total)
    BY Zenon, <1>4, <2>a DEF Retained
  <2>2. \A i \in 1 .. prefix : l.kept[i] \in Nat
    BY <1>1, <1>2, <1>4
  <2>3. /\ head \in Seq(Nat)
        /\ Len(head) = IF 1 <= prefix THEN prefix - 1 + 1 ELSE 0
        /\ \A i \in 1 .. prefix - 1 + 1 : head[i] = l.kept[1 + i - 1]
    BY <1>2, <2>2, SubSeqProperties
  <2>4. Len(head) = prefix /\ \A i \in 1 .. prefix : head[i] = l.kept[i]
    BY <1>2, <2>3
  <2> HIDE DEF head
  <2> QED BY <1>1, <1>2, <1>4, <2>1, <2>3, <2>4
<1>5. CASE size >= capacity /\ l.truncated
  <2>a. ~ (size < capacity)
    BY <1>1, <1>5
  <2>1. Retained(l, capacity) = Append(head \o window, l.total)
    BY Zenon, <1>5, <2>a DEF Retained
  <2>2. prefix < size
    BY <1>1, <1>2, <1>5
  <2>3. \A i \in 1 .. size : l.kept[i] \in Nat
    BY <1>1
  <2>4. /\ head \in Seq(Nat)
        /\ Len(head) = IF 1 <= prefix THEN prefix - 1 + 1 ELSE 0
        /\ \A i \in 1 .. prefix - 1 + 1 : head[i] = l.kept[1 + i - 1]
    <3>1. \A i \in 1 .. prefix : l.kept[i] \in Nat
      BY <1>1, <1>2, <2>2, <2>3
    <3> QED BY <1>2, <3>1, SubSeqProperties
  <2>5. Len(head) = prefix /\ \A i \in 1 .. prefix : head[i] = l.kept[i]
    BY <1>2, <2>4
  <2>6. /\ window \in Seq(Nat)
        /\ Len(window) = IF prefix + 2 <= size THEN size - (prefix + 2) + 1 ELSE 0
        /\ \A i \in 1 .. size - (prefix + 2) + 1 : window[i] = l.kept[(prefix + 2) + i - 1]
    <3>1. \A i \in prefix + 2 .. size : l.kept[i] \in Nat
      BY <1>1, <1>2, <2>3
    <3>2. prefix + 2 \in Int /\ size \in Int
      BY <1>1, <1>2
    <3> QED BY <3>1, <3>2, SubSeqProperties
  <2> HIDE DEF head, window, prefix, size
  <2>7. /\ Len(window) = size - prefix - 1
        /\ \A i \in 1 .. size - prefix - 1 : window[i] = l.kept[prefix + 1 + i]
    <3>1. Len(window) = size - prefix - 1
      BY <1>1, <1>2, <2>2, <2>6
    <3>2. ASSUME NEW i \in 1 .. size - prefix - 1 PROVE window[i] = l.kept[prefix + 1 + i]
      <4>1. i \in 1 .. size - (prefix + 2) + 1 /\ (prefix + 2) + i - 1 = prefix + 1 + i
        BY <1>1, <1>2, <2>2
      <4> QED BY <2>6, <4>1
    <3> QED BY <3>1, <3>2
  <2>8. /\ head \o window \in Seq(Nat)
        /\ Len(head \o window) = Len(head) + Len(window)
        /\ \A i \in 1 .. Len(head) + Len(window) :
              (head \o window)[i] = IF i <= Len(head) THEN head[i] ELSE window[i - Len(head)]
    BY <2>4, <2>6, ConcatProperties
  <2>9. /\ Len(head \o window) = size - 1
        /\ \A i \in 1 .. prefix : (head \o window)[i] = l.kept[i]
    BY <1>1, <1>2, <2>2, <2>5, <2>7, <2>8
  <2>10. ASSUME NEW i \in prefix + 1 .. size - 1
         PROVE  (head \o window)[i] = l.kept[i + 1]
    <3>1. i \in 1 .. Len(head) + Len(window) /\ ~ (i <= Len(head)) /\ i \in Int
      BY <1>1, <1>2, <2>2, <2>5, <2>7
    <3>2. (head \o window)[i] = window[i - prefix]
      BY <2>5, <2>8, <3>1
    <3>3. i - prefix \in 1 .. size - prefix - 1 /\ prefix + 1 + (i - prefix) = i + 1
      BY <1>1, <1>2, <2>2
    <3> QED BY <2>7, <3>2, <3>3
  <2> DEFINE both == head \o window
  <2>11. /\ both \in Seq(Nat)
         /\ Len(both) = size - 1
         /\ \A i \in 1 .. prefix : both[i] = l.kept[i]
         /\ \A i \in prefix + 1 .. size - 1 : both[i] = l.kept[i + 1]
    BY <2>8, <2>9, <2>10
  <2> HIDE DEF both
  <2>12. /\ Append(both, l.total) \in Seq(Nat)
         /\ Len(Append(both, l.total)) = size
         /\ Append(both, l.total)[size] = l.total
         /\ \A i \in 1 .. size - 1 : Append(both, l.total)[i] = both[i]
    BY <1>1, <2>2, <2>11
  <2>13. Retained(l, capacity) = Append(both, l.total)
    BY <2>1 DEF both
  <2> QED BY <1>1, <1>2, <1>5, <2>2, <2>11, <2>12, <2>13 DEF prefix, size
<1> QED BY <1>1, <1>3, <1>4, <1>5

\* Recording keeps the type and the shape of a log.
LEMMA RecordShaped ==
  ASSUME NEW l \in Logs, NEW kind \in Kinds, NEW capacity \in Nat \ {0}, NEW limit \in Nat,
         Shaped(l, capacity)
  PROVE  /\ Record(l, kind, capacity, limit) \in Logs
         /\ Shaped(Record(l, kind, capacity, limit), capacity)
<1> DEFINE new == Retained(l, capacity)
           size == Len(l.kept)
           prefix == Prefix(capacity)
           r == [l EXCEPT !.total = @ + 1, !.kept = new,
                          !.truncated = @ \/ size >= capacity, !.last = kind]
<1>1. /\ new \in Seq(Nat)
      /\ size < capacity =>
           /\ Len(new) = size + 1
           /\ new[size + 1] = l.total
           /\ \A i \in 1 .. size : new[i] = l.kept[i]
      /\ size >= capacity /\ ~ l.truncated =>
           /\ Len(new) = prefix + 1
           /\ new[prefix + 1] = l.total
           /\ \A i \in 1 .. prefix : new[i] = l.kept[i]
      /\ size >= capacity /\ l.truncated =>
           /\ Len(new) = size
           /\ new[size] = l.total
           /\ \A i \in 1 .. prefix : new[i] = l.kept[i]
           /\ \A i \in prefix + 1 .. size - 1 : new[i] = l.kept[i + 1]
  BY RetainedIs
<1>2. prefix \in Nat /\ prefix < capacity
  BY PrefixShort
<1>3. /\ size \in Nat /\ size <= capacity /\ l.total \in Nat /\ l.truncated \in BOOLEAN
      /\ l.last \in Kinds \cup {None} /\ l.attempt \in Kinds \cup {None} /\ l.kept \in Seq(Nat)
  BY DEF Logs, Shaped
<1>4. /\ l.truncated =>
           /\ prefix < size
           /\ size < l.total
           /\ \A i \in 1 .. prefix : l.kept[i] = i - 1
           /\ \A i \in prefix + 1 .. size : l.kept[i] = l.total - 1 - (size - i)
      /\ ~ l.truncated =>
           /\ size = l.total
           /\ \A i \in 1 .. size : l.kept[i] = i - 1
  BY DEF Shaped
<1> HIDE DEF new, prefix, size
<1>5. r \in Logs /\ r.kept = new /\ r.total = l.total + 1
      /\ r.truncated = (l.truncated \/ size >= capacity)
  <2> DEFINE t == l.truncated \/ size >= capacity
  <2>1. t \in BOOLEAN /\ l.total + 1 \in Nat
    BY <1>3
  <2> HIDE DEF t
  <2> DEFINE n == l.total + 1
             q == [l EXCEPT !.total = n, !.kept = new, !.truncated = t, !.last = kind]
  <2>2. r = q
    BY DEF t
  <2> HIDE DEF r, n
  <2>3. n \in Nat
    BY <2>1 DEF n
  <2>4. /\ q \in Logs
        /\ q.total = n /\ q.kept = new /\ q.truncated = t
    <3>1. new \in Seq(Nat)
      BY <1>1
    <3> QED BY <2>1, <2>3, <3>1 DEF Logs
  <2> HIDE DEF q
  <2> QED BY Zenon, <2>2, <2>4 DEF t, n
<1> HIDE DEF r
<1>6. ASSUME size < capacity, ~ l.truncated PROVE Shaped(r, capacity)
  <2>a. ~ (size >= capacity)
    BY <1>3, <1>6
  <2>0. ~ r.truncated
    BY Zenon, <1>5, <1>6, <2>a
  <2>1. Len(r.kept) = r.total /\ Len(r.kept) <= capacity
    BY <1>1, <1>3, <1>4, <1>5, <1>6
  <2>2. ASSUME NEW i \in 1 .. Len(r.kept) PROVE r.kept[i] = i - 1
    <3>1. Len(new) = size + 1 /\ size = l.total /\ r.kept = new
      BY <1>1, <1>4, <1>5, <1>6
    <3>2. CASE i = size + 1
      BY <1>1, <1>3, <1>6, <3>1, <3>2
    <3>3. CASE i \in 1 .. size
      BY <1>1, <1>4, <1>6, <3>1, <3>3
    <3> QED BY <1>3, <3>1, <3>2, <3>3
  <2> QED BY <2>0, <2>1, <2>2 DEF Shaped
<1>7. ASSUME size < capacity, l.truncated PROVE Shaped(r, capacity)
  <2>0. r.truncated
    BY Zenon, <1>3, <1>5, <1>7
  <2>1. Len(r.kept) = size + 1 /\ Len(r.kept) <= capacity
        /\ prefix < Len(r.kept) /\ Len(r.kept) < r.total
    BY <1>1, <1>2, <1>3, <1>4, <1>5, <1>7
  <2>2. \A i \in 1 .. prefix : r.kept[i] = i - 1
    BY <1>1, <1>2, <1>3, <1>4, <1>5, <1>7
  <2>3. ASSUME NEW i \in prefix + 1 .. Len(r.kept)
        PROVE  r.kept[i] = r.total - 1 - (Len(r.kept) - i)
    <3>1. i \in Int /\ r.kept = new /\ r.total = l.total + 1 /\ Len(r.kept) = size + 1
      BY <1>2, <1>3, <1>5, <2>1
    <3>2. CASE i = size + 1
      BY <1>1, <1>3, <1>7, <3>1, <3>2
    <3>3. CASE i \in prefix + 1 .. size
      <4>1. i \in 1 .. size
        BY <1>2, <1>3, <3>3
      <4>2. new[i] = l.kept[i] /\ l.kept[i] = l.total - 1 - (size - i)
        BY <1>1, <1>4, <1>7, <3>3, <4>1
      <4>3. r.total - 1 - (Len(r.kept) - i) = l.total - 1 - (size - i)
        BY <1>3, <3>1
      <4> QED BY <3>1, <4>2, <4>3
    <3>4. i = size + 1 \/ i \in prefix + 1 .. size
      BY <1>2, <1>3, <2>1
    <3> QED BY <3>2, <3>3, <3>4
  <2> QED BY <2>0, <2>1, <2>2, <2>3 DEF Shaped, prefix, size
<1>8. ASSUME size >= capacity, ~ l.truncated PROVE Shaped(r, capacity)
  <2>0. r.truncated
    BY Zenon, <1>3, <1>5, <1>8
  <2>1. Len(r.kept) = prefix + 1 /\ Len(r.kept) <= capacity
        /\ prefix < Len(r.kept) /\ Len(r.kept) < r.total
    BY <1>1, <1>2, <1>3, <1>4, <1>5, <1>8
  <2>2. \A i \in 1 .. prefix : r.kept[i] = i - 1
    BY <1>1, <1>2, <1>3, <1>4, <1>5, <1>8
  <2>3. \A i \in prefix + 1 .. Len(r.kept) : r.kept[i] = r.total - 1 - (Len(r.kept) - i)
    BY <1>1, <1>2, <1>3, <1>4, <1>5, <1>8, <2>1
  <2> QED BY <2>0, <2>1, <2>2, <2>3 DEF Shaped, prefix, size
<1>9. ASSUME size >= capacity, l.truncated PROVE Shaped(r, capacity)
  <2>0. r.truncated
    BY Zenon, <1>3, <1>5, <1>9
  <2>1. Len(r.kept) = size /\ Len(r.kept) <= capacity
        /\ prefix < Len(r.kept) /\ Len(r.kept) < r.total
    BY <1>1, <1>2, <1>3, <1>4, <1>5, <1>9
  <2>2. \A i \in 1 .. prefix : r.kept[i] = i - 1
    BY <1>1, <1>2, <1>3, <1>4, <1>5, <1>9
  <2>3. ASSUME NEW i \in prefix + 1 .. Len(r.kept)
        PROVE  r.kept[i] = r.total - 1 - (Len(r.kept) - i)
    <3>1. i \in Int /\ r.kept = new /\ r.total = l.total + 1 /\ Len(r.kept) = size
      BY <1>2, <1>3, <1>5, <2>1
    <3>2. CASE i = size
      BY <1>1, <1>3, <1>9, <3>1, <3>2
    <3>3. CASE i \in prefix + 1 .. size - 1
      <4>1. i + 1 \in prefix + 1 .. size
        BY <1>2, <1>3, <3>3
      <4>2. new[i] = l.kept[i + 1] /\ l.kept[i + 1] = l.total - 1 - (size - (i + 1))
        BY <1>1, <1>4, <1>9, <3>3, <4>1
      <4>3. r.total - 1 - (Len(r.kept) - i) = l.total - 1 - (size - (i + 1))
        BY <1>3, <3>1
      <4> QED BY <3>1, <4>2, <4>3
    <3>4. i = size \/ i \in prefix + 1 .. size - 1
      BY <1>2, <1>3, <2>1
    <3> QED BY <3>2, <3>3, <3>4
  <2> QED BY <2>0, <2>1, <2>2, <2>3 DEF Shaped, prefix, size
<1>10. Shaped(r, capacity)
  BY <1>3, <1>6, <1>7, <1>8, <1>9
<1>11. CASE Open(l) /\ ~ Refuses(l, limit)
  <2>1. Record(l, kind, capacity, limit) = r
    BY <1>11 DEF Record, r, new, size
  <2> QED BY <1>5, <1>10, <2>1
<1>12. CASE ~ Open(l)
  BY <1>12 DEF Record
<1>13. CASE Open(l) /\ Refuses(l, limit)
  <2> DEFINE q == [l EXCEPT !.attempt = kind]
  <2>1. Record(l, kind, capacity, limit) = q
    BY <1>13 DEF Record
  <2>2. q \in Logs /\ q.kept = l.kept /\ q.total = l.total /\ q.truncated = l.truncated
    BY DEF Logs
  <2>3. Shaped(q, capacity)
    BY <2>2 DEF Shaped
  <2> QED BY <2>1, <2>2, <2>3
<1> QED BY <1>11, <1>12, <1>13

-----------------------------------------------------------------------------
(* The inductive invariant. *)

\* The guest blocks charged so far, but for the one being executed.
Credit == used.blocks + slice.blocks - (IF current.counted THEN 1 ELSE 0)

\* A log the session may hold.
LogOK(l) ==
  /\ l \in Logs
  /\ Shaped(l, budget.history)
  /\ budget.events # 0 => l.total <= budget.events
  /\ ~ Open(l) => budget.events # 0 /\ l.total = budget.events

\* A run that goes on: its slice is not full, each of the slice's blocks was
\* paid for with an operation, and each event with a block.
Working ==
  running =>
    /\ slice.ops < budget.slice
    /\ slice.blocks <= slice.ops
    /\ current.idx > 0 => current.counted
    /\ used.blocks <= budget.blocks
    /\ log.total <= 4 + 5 * used.blocks
    /\ log.total <= 4 + 5 * Credit
    /\ used.entries <= 1 + Credit

IInv ==
  /\ TypeOK
  /\ FramesAgree
  /\ LogOK(log)
  /\ EndIsExplained
  /\ NoStackLeak
  /\ BudgetsHold
  /\ BlocksPayForEverything
  /\ Working

\* The budgets are naturals, and none that may not be absent is zero.
LEMMA BudgetIs ==
  ASSUME budget \in Budgets
  PROVE  /\ budget.ops \in Nat /\ budget.events \in Nat
         /\ budget.slice \in Nat \ {0} /\ budget.transfers \in Nat \ {0}
         /\ budget.depth \in Nat \ {0} /\ budget.history \in Nat \ {0}
         /\ budget.blocks \in Nat \ {0}
<1>1. budget \in BudgetType
  BY SessionAssumption
<1> QED BY <1>1 DEF BudgetType

\* A kind of event is not the absence of one.
LEMMA KindsApart == None \notin Kinds
  BY DEF None, Kinds

\* What one more event does to a log.
LEMMA EventOK ==
  ASSUME budget \in Budgets, NEW l, LogOK(l), NEW kind \in Kinds
  PROVE  /\ LogOK(Event(l, kind))
         /\ Event(l, kind).total <= l.total + 1
         /\ Open(Event(l, kind)) => Open(l) /\ Event(l, kind).last = kind
<1>1. /\ budget.history \in Nat \ {0} /\ budget.events \in Nat
  BY BudgetIs
<1>2. l \in Logs /\ Shaped(l, budget.history)
  BY DEF LogOK
<1>3. l.total \in Nat
  BY <1>2 DEF Logs
<1> DEFINE e == Event(l, kind)
<1>4. e \in Logs /\ Shaped(e, budget.history)
  BY <1>1, <1>2, RecordShaped DEF Event
<1>5. CASE ~ Open(l)
  <2>1. e = l
    BY <1>5 DEF Event, Record
  <2> QED BY <1>3, <1>5, <2>1
<1>6. CASE Open(l) /\ Refuses(l, budget.events)
  <2>1. e = [l EXCEPT !.attempt = kind]
    BY <1>6 DEF Event, Record
  <2>2. e.attempt = kind /\ e.total = l.total
    BY <1>2, <2>1 DEF Logs
  <2>3. ~ Open(e)
    BY <2>2, KindsApart DEF Open
  <2>4. budget.events # 0 /\ l.total = budget.events
    BY <1>1, <1>3, <1>6 DEF Refuses, LogOK
  <2> QED BY <1>3, <1>4, <2>2, <2>3, <2>4 DEF LogOK
<1>7. CASE Open(l) /\ ~ Refuses(l, budget.events)
  <2>1. e.attempt = l.attempt /\ e.total = l.total + 1 /\ e.last = kind
    <3>1. e = [l EXCEPT !.total = @ + 1,
                        !.kept = Retained(l, budget.history),
                        !.truncated = @ \/ Len(l.kept) >= budget.history,
                        !.last = kind]
      BY <1>7 DEF Event, Record
    <3> QED BY <1>2, <3>1 DEF Logs
  <2>2. Open(e)
    BY <1>7, <2>1 DEF Open
  <2>3. budget.events # 0 => l.total + 1 <= budget.events
    BY <1>1, <1>3, <1>7 DEF Refuses
  <2> QED BY <1>3, <1>4, <1>7, <2>1, <2>2, <2>3 DEF LogOK
<1> QED BY <1>5, <1>6, <1>7

\* A stop is not the absence of one, nor the refusal of its event.
LEMMA ReasonsApart == {None, "EventLimitExceeded"} \cap StopReasons = {}
  BY DEF None, StopReasons, SetupReasons, EntryReasons, FaultReasons, TrapReasons,
         TargetReasons, ImportReasons

\* A log stays as good while the budget does.
LEMMA LogKept ==
  ASSUME NEW l, LogOK(l), budget' = budget, log' = l
  PROVE  LogOK(log)'
  BY DEF LogOK

\* stop explains the end of a run.
LEMMA StopsWell ==
  ASSUME budget \in Budgets, budget' = budget, NEW l, LogOK(l), NEW reason,
         Open(l) => reason \in StopReasons,
         Stop(l, reason)
  PROVE  /\ LogOK(log)'
         /\ EndIsExplained'
         /\ running' = FALSE
         /\ outcome' \in StopReasons \cup {"EventLimitExceeded"}
         /\ outcome' \in {reason, "EventLimitExceeded"}
         /\ log'.total <= l.total + 2
<1> DEFINE boundary == Event(l, "Boundary")
           ending == Event(boundary, "SessionStop")
<1>1. /\ LogOK(boundary)
      /\ boundary.total <= l.total + 1
      /\ Open(boundary) => Open(l)
  <2>1. "Boundary" \in Kinds
    BY DEF Kinds
  <2> QED BY Zenon, <2>1, EventOK
<1>2. /\ LogOK(ending)
      /\ ending.total <= boundary.total + 1
      /\ Open(ending) => Open(boundary) /\ ending.last = "SessionStop"
  <2> HIDE DEF boundary
  <2>1. "SessionStop" \in Kinds
    BY DEF Kinds
  <2> QED BY Zenon, <1>1, <2>1, EventOK
<1>3. /\ log' = ending
      /\ running' = FALSE
      /\ outcome' = IF Open(ending) THEN reason ELSE "EventLimitExceeded"
  BY DEF Stop, Ending, Reason
<1> HIDE DEF ending, boundary
<1>4. LogOK(log)'
  BY <1>2, <1>3, LogKept
<1>5. log'.total <= l.total + 2
  <2>1. l.total \in Nat /\ boundary.total \in Nat /\ ending.total \in Nat
    BY <1>1, <1>2 DEF LogOK, Logs
  <2> QED BY <1>1, <1>2, <1>3, <2>1
<1>6. CASE Open(ending)
  <2>1. /\ log'.last = "SessionStop" /\ Open(log)' /\ outcome' = reason
        /\ reason \in StopReasons
    BY <1>1, <1>2, <1>3, <1>6 DEF Open
  <2> QED BY <1>3, <1>4, <1>5, <2>1, ReasonsApart DEF EndIsExplained
<1>7. CASE ~ Open(ending)
  <2>1. /\ ~ Open(log)' /\ outcome' = "EventLimitExceeded"
        /\ log'.total = budget'.events
    BY <1>2, <1>3, <1>7 DEF Open, LogOK
  <2> QED BY <1>3, <1>4, <1>5, <2>1, ReasonsApart DEF EndIsExplained
<1> QED BY <1>6, <1>7

\* An event the limit refuses ends the run, explained; another does not.
LEMMA LoggedWell ==
  ASSUME budget \in Budgets, budget' = budget, NEW l, LogOK(l),
         Open(l) => l.last # "SessionStop",
         Logged(l)
  PROVE  /\ LogOK(log)'
         /\ EndIsExplained'
         /\ log' = l
         /\ running' = Open(l)
         /\ outcome' \in {None, "EventLimitExceeded"}
<1>1. /\ log' = l
      /\ running' = Open(l)
      /\ outcome' = IF Open(l) THEN None ELSE "EventLimitExceeded"
  BY DEF Logged, Reason
<1>2. LogOK(log)'
  BY <1>1, LogKept
<1>3. EndIsExplained'
  <2>1. Open(log)' = Open(l)
    BY <1>1 DEF Open
  <2>2. ~ Open(l) => log'.total = budget'.events
    BY <1>1 DEF LogOK
  <2> QED BY <1>1, <2>1, <2>2 DEF EndIsExplained
<1> QED BY <1>1, <1>2, <1>3 DEF None

-----------------------------------------------------------------------------
(* The counters. *)

UseType == [ops : Nat, blocks : Nat, entries : Nat, charged : Nat, cut : BOOLEAN]

\* Counters within their budgets, but for the last slice's guest blocks.
UseOK(u) ==
  /\ u \in UseType
  /\ budget.ops # 0 => u.ops <= budget.ops
  /\ u.charged <= budget.transfers
  /\ u.blocks <= budget.blocks + budget.slice
  /\ ~ u.cut

\* What the loop of run starts an iteration with, in numbers.
LEMMA InLoop ==
  ASSUME IInv, running
  PROVE  /\ used \in UseType /\ UseOK(used)
         /\ slice \in [ops : Nat, blocks : Nat]
         /\ current \in Frames
         /\ budget.ops # 0 => used.ops + slice.ops <= budget.ops
         /\ Credit \in Int
         /\ log.total \in Nat
         /\ used.blocks <= Credit + 1
         /\ used.entries <= 1 + Credit
         /\ log.total <= 4 + 5 * Credit
         /\ log.total <= 4 + 5 * used.blocks
<1>1. /\ used \in UseType /\ slice \in [ops : Nat, blocks : Nat]
      /\ current \in Frames /\ log \in Logs /\ budget \in Budgets
  BY DEF IInv, TypeOK, UseType
<1>2. used.blocks \in Nat /\ slice.blocks \in Nat /\ slice.ops \in Nat /\ used.ops \in Nat
  BY <1>1 DEF UseType
<1>3. Credit \in Int /\ used.blocks <= Credit + 1
  BY <1>2 DEF Credit
<1>4. UseOK(used)
  <2>1. ~ used.cut
    BY DEF IInv, BlocksPayForEverything
  <2>2. used.charged <= budget.transfers /\ used.blocks <= budget.blocks + budget.slice
    BY DEF IInv, BudgetsHold
  <2>3. budget.ops # 0 => used.ops + slice.ops <= budget.ops
    BY DEF IInv, BudgetsHold
  <2>4. budget.ops # 0 => used.ops <= budget.ops
    BY <1>1, <1>2, <2>3, BudgetIs
  <2> QED BY <1>1, <2>1, <2>2, <2>4 DEF UseOK
<1> QED BY <1>1, <1>3, <1>4 DEF IInv, Working, BudgetsHold, Logs

\* A slice that has entered the block pays for what it brings.
LEMMA EnteredIs ==
  ASSUME IInv, running
  PROVE  /\ Entered(slice) \in [ops : Nat, blocks : Nat]
         /\ Entered(slice).ops = slice.ops
         /\ Entered(slice).blocks <= slice.blocks + 1
         /\ slice.blocks <= Entered(slice).blocks
         /\ current.counted => Entered(slice) = slice
         /\ used.blocks + Entered(slice).blocks = Credit + 1
<1>1. /\ used \in UseType /\ slice \in [ops : Nat, blocks : Nat]
  BY InLoop
<1>2. used.blocks \in Nat /\ slice.blocks \in Nat /\ slice.ops \in Nat
  BY <1>1 DEF UseType
<1>3. CASE current.counted
  <2>1. Entered(slice) = slice
    BY <1>1, <1>3 DEF Entered
  <2> QED BY <1>1, <1>2, <1>3, <2>1 DEF Credit
<1>4. CASE ~ current.counted
  <2>1. Entered(slice) = [slice EXCEPT !.blocks = @ + 1]
    BY <1>4 DEF Entered
  <2>2. /\ Entered(slice).blocks = slice.blocks + 1 /\ Entered(slice).ops = slice.ops
        /\ Entered(slice) \in [ops : Nat, blocks : Nat]
    BY <1>1, <1>2, <2>1
  <2> QED BY <1>2, <1>4, <2>2 DEF Credit
<1> QED BY <1>3, <1>4

\* The counters once a slice is added to them.
LEMMA FoldedIs ==
  ASSUME used \in UseType, NEW s \in [ops : Nat, blocks : Nat]
  PROVE  /\ Folded(s) \in UseType
         /\ Folded(s).ops = used.ops + s.ops
         /\ Folded(s).blocks = used.blocks + s.blocks
         /\ Folded(s).entries = used.entries
         /\ Folded(s).charged = used.charged
         /\ Folded(s).cut = used.cut
<1>1. used.ops \in Nat /\ used.blocks \in Nat /\ s.ops \in Nat /\ s.blocks \in Nat
  BY DEF UseType
<1> DEFINE n == used.ops + s.ops
           m == used.blocks + s.blocks
<1>2. n \in Nat /\ m \in Nat
  BY <1>1
<1>3. Folded(s) = [used EXCEPT !.ops = n, !.blocks = m]
  BY DEF Folded
<1> HIDE DEF n, m
<1>4. /\ Folded(s) \in UseType
      /\ Folded(s).ops = n
      /\ Folded(s).blocks = m
      /\ Folded(s).entries = used.entries
      /\ Folded(s).charged = used.charged
      /\ Folded(s).cut = used.cut
  BY <1>2, <1>3, Zenon DEF UseType
<1> QED BY <1>4 DEF n, m

\* The counters at a boundary: one block more is paid for, which buys the
\* boundary's events.
LEMMA SpentIs ==
  ASSUME IInv, running
  PROVE  /\ UseOK(Spent)
         /\ Spent.blocks = Credit + 1
         /\ Spent.entries <= Spent.blocks
         /\ log.total + 5 <= 4 + 5 * Spent.blocks
         /\ Spent.ops = used.ops + slice.ops
<1>1. budget \in Budgets
  BY DEF IInv, TypeOK
<1>2. /\ budget.slice \in Nat /\ budget.blocks \in Nat /\ budget.ops \in Nat
      /\ budget.transfers \in Nat
  BY <1>1, BudgetIs
<1>3. /\ Entered(slice) \in [ops : Nat, blocks : Nat]
      /\ Entered(slice).ops = slice.ops
      /\ Entered(slice).blocks <= slice.blocks + 1
      /\ used.blocks + Entered(slice).blocks = Credit + 1
  BY EnteredIs
<1>4. /\ used \in UseType /\ UseOK(used) /\ slice \in [ops : Nat, blocks : Nat]
      /\ budget.ops # 0 => used.ops + slice.ops <= budget.ops
      /\ Credit \in Int /\ log.total \in Nat
      /\ used.entries <= 1 + Credit /\ log.total <= 4 + 5 * Credit
  BY InLoop
<1>5. /\ Spent \in UseType
      /\ Spent.ops = used.ops + slice.ops
      /\ Spent.blocks = Credit + 1
      /\ Spent.entries = used.entries
      /\ Spent.charged = used.charged
      /\ Spent.cut = used.cut
  BY <1>3, <1>4, FoldedIs DEF Spent
<1>6. used.blocks <= budget.blocks /\ slice.blocks <= slice.ops /\ slice.ops < budget.slice
  BY DEF IInv, Working
<1>7. Spent.blocks <= budget.blocks + budget.slice
  <2>1. /\ used.blocks \in Nat /\ slice.blocks \in Nat /\ slice.ops \in Nat
        /\ Entered(slice).blocks \in Nat
    BY <1>3, <1>4 DEF UseType
  <2> QED BY <1>2, <1>3, <1>5, <1>6, <2>1
<1>8. UseOK(Spent)
  <2>1. ~ used.cut /\ used.charged <= budget.transfers
    BY <1>4 DEF UseOK
  <2> QED BY Zenon, <1>4, <1>5, <1>7, <2>1 DEF UseOK
<1>9. log.total + 5 <= 4 + 5 * (Credit + 1)
  BY <1>4
<1> QED BY <1>4, <1>5, <1>8, <1>9

\* A function entry at a boundary that is within the budget of guest blocks
\* finds room in the history of transitions.
LEMMA EntryIs ==
  ASSUME IInv, running, Spent.blocks <= budget.blocks, NEW charge \in {0, 1},
         charge = 1 => Spent.charged < budget.transfers
  PROVE  /\ UseOK(WithEntry(Spent, charge))
         /\ WithEntry(Spent, charge).blocks = Spent.blocks
         /\ WithEntry(Spent, charge).entries <= Spent.blocks + 1
<1>1. budget \in Budgets
  BY DEF IInv, TypeOK
<1>2. /\ budget.blocks \in Nat /\ budget.transfers \in Nat
  BY <1>1, BudgetIs
<1>3. /\ Spent \in UseType /\ UseOK(Spent) /\ Spent.entries <= Spent.blocks
      /\ Spent.charged <= budget.transfers /\ ~ Spent.cut
  BY SpentIs DEF UseOK
<1>4. Spent.entries \in Nat /\ Spent.charged \in Nat /\ Spent.blocks \in Nat
  BY <1>3 DEF UseType
<1> DEFINE n == Spent.entries + 1
           m == Spent.charged + charge
           c == Spent.cut \/ Spent.entries >= budget.blocks + 1
           u == WithEntry(Spent, charge)
<1>5. n \in Nat /\ m \in Nat /\ n <= Spent.blocks + 1 /\ m <= budget.transfers
  BY <1>2, <1>3, <1>4
<1>6. ~ (Spent.entries >= budget.blocks + 1)
  BY <1>2, <1>3, <1>4
<1>7. c = FALSE
  BY Zenon, <1>3, <1>6
<1>8. u = [Spent EXCEPT !.entries = n, !.charged = m, !.cut = c]
  BY DEF WithEntry
<1>9. u = [Spent EXCEPT !.entries = n, !.charged = m, !.cut = FALSE]
  BY <1>7, <1>8
<1> HIDE DEF n, m, c, u
<1>10. /\ u \in UseType /\ u.ops = Spent.ops /\ u.blocks = Spent.blocks
       /\ u.entries = n /\ u.charged = m /\ u.cut = FALSE
  BY <1>3, <1>5, <1>9, Zenon DEF UseType
<1>11. UseOK(u)
  BY Zenon, <1>3, <1>5, <1>10 DEF UseOK
<1> QED BY <1>5, <1>10, <1>11 DEF u

-----------------------------------------------------------------------------
(* The call stack. *)

\* Nothing but where the current frame stands within its function.
LEMMA FramesStay ==
  ASSUME FramesAgree, running, budget' = budget, suspended' = suspended,
         current'.depth = current.depth, current'.expected = current.expected
  PROVE  FramesAgree'
  BY DEF FramesAgree, Above

\* The start of a block is a position in it.
LEMMA ZeroIsIdx == 0 \in 0 .. BlockOps
  BY SessionAssumption

\* A frame moved to another place of its function.
LEMMA MovedIs ==
  ASSUME NEW frame \in Frames, NEW block \in Blocks
  PROVE  /\ ResumeAt(frame, block) \in Frames
         /\ ResumeAt(frame, block).block = block
         /\ ResumeAt(frame, block).idx = 0
         /\ ~ ResumeAt(frame, block).counted
         /\ ResumeAt(frame, block).expected = frame.expected
         /\ ResumeAt(frame, block).depth = frame.depth
  BY Zenon, SessionAssumption, ZeroIsIdx DEF ResumeAt, Frames, Addresses

-----------------------------------------------------------------------------
(* The ways an iteration of run's loop may end. *)

\* Neither the mapping of the stack nor the choice of the budgets.
LEMMA FrozenKeeps ==
  ASSUME IInv, Frozen
  PROVE  /\ budget' = budget /\ budget' \in Budgets /\ budget \in Budgets
         /\ runs' \in 0 .. MaxRuns
         /\ stack' \in BOOLEAN /\ owned' \in Nat
         /\ NoStackLeak'
  BY DEF IInv, TypeOK, Frozen, NoStackLeak

\* The step ends the run.
LEMMA StepEnds ==
  ASSUME IInv, running, Frozen, slice' = Fresh,
         current' \in Frames, current'.depth = current.depth,
         current'.expected = current.expected, suspended' = suspended, pc' \in Addresses,
         UseOK(used'),
         NEW l, LogOK(l), l.total <= 4 + 5 * used'.blocks,
         NEW reason, Open(l) => reason \in StopReasons,
         used'.blocks > budget.blocks => reason = "GuestBlockLimitExceeded",
         Stop(l, reason)
  PROVE  IInv'
<1>1. /\ budget' = budget /\ budget' \in Budgets /\ budget \in Budgets
      /\ runs' \in 0 .. MaxRuns /\ stack' \in BOOLEAN /\ owned' \in Nat /\ NoStackLeak'
  BY FrozenKeeps
<1>2. /\ LogOK(log)' /\ EndIsExplained' /\ running' = FALSE
      /\ outcome' \in StopReasons \cup {"EventLimitExceeded"}
      /\ outcome' \in {reason, "EventLimitExceeded"}
      /\ log'.total <= l.total + 2
  BY <1>1, StopsWell
<1>3. FramesAgree'
  <2>1. FramesAgree
    BY DEF IInv
  <2> QED BY <1>1, <2>1, FramesStay
<1>4. /\ used' \in UseType /\ (budget.ops # 0 => used'.ops <= budget.ops)
      /\ used'.charged <= budget.transfers /\ used'.blocks <= budget.blocks + budget.slice
      /\ ~ used'.cut
  BY DEF UseOK
<1>5. used'.ops \in Nat /\ used'.blocks \in Nat /\ log' \in Logs /\ log'.total \in Nat
      /\ l.total \in Nat
  BY <1>2, <1>4 DEF UseType, LogOK, Logs
<1>6. slice' \in [ops : Nat, blocks : Nat] /\ slice'.ops = 0
  BY DEF Fresh
<1>7. TypeOK'
  <2>1. suspended' \in Seq(Frames)
    BY DEF IInv, TypeOK
  <2>2. outcome' \in StopReasons \cup {None, "EventLimitExceeded"} /\ running' \in BOOLEAN
    BY <1>2
  <2> QED BY Zenon, <1>1, <1>4, <1>5, <1>6, <2>1, <2>2 DEF TypeOK, UseType
<1>8. BudgetsHold'
  <2>1. budget'.events # 0 => log'.total <= budget'.events
    BY <1>2 DEF LogOK
  <2>2. budget'.ops # 0 => used'.ops + slice'.ops <= budget'.ops
    BY <1>1, <1>4, <1>5, <1>6
  <2> QED BY <1>1, <1>2, <1>4, <2>1, <2>2 DEF BudgetsHold
<1>9. BlocksPayForEverything'
  <2>1. log'.total <= 6 + 5 * used'.blocks
    BY <1>2, <1>5
  <2> QED BY <1>4, <2>1 DEF BlocksPayForEverything
<1>10. Working'
  BY <1>2 DEF Working
<1> QED BY <1>1, <1>2, <1>3, <1>7, <1>8, <1>9, <1>10 DEF IInv

\* The boundary has been dispatched: a frame goes on at the start of a block,
\* unless an event was refused.
LEMMA BoundaryPassed ==
  ASSUME IInv, running, Frozen, slice' = Fresh, Spent.blocks <= budget.blocks,
         current' \in Frames, current'.idx = 0, ~ current'.counted,
         suspended' \in Seq(Frames), FramesAgree', pc' \in Addresses,
         UseOK(used'), used'.blocks = Spent.blocks, used'.entries <= Spent.blocks + 1,
         NEW l, LogOK(l), l.total <= log.total + 5, Open(l) => l.last # "SessionStop",
         Logged(l)
  PROVE  IInv'
<1>1. /\ budget' = budget /\ budget' \in Budgets /\ budget \in Budgets
      /\ runs' \in 0 .. MaxRuns /\ stack' \in BOOLEAN /\ owned' \in Nat /\ NoStackLeak'
  BY FrozenKeeps
<1>2. /\ LogOK(log)' /\ EndIsExplained' /\ log' = l
      /\ running' = Open(l) /\ outcome' \in {None, "EventLimitExceeded"}
  BY <1>1, LoggedWell
<1>3. /\ used' \in UseType /\ (budget.ops # 0 => used'.ops <= budget.ops)
      /\ used'.charged <= budget.transfers /\ used'.blocks <= budget.blocks + budget.slice
      /\ ~ used'.cut
  BY DEF UseOK
<1>4. /\ used'.ops \in Nat /\ used'.blocks \in Nat /\ used'.entries \in Nat
      /\ log' \in Logs /\ log'.total \in Nat
  BY <1>2, <1>3 DEF UseType, LogOK, Logs
<1>5. slice' \in [ops : Nat, blocks : Nat] /\ slice'.ops = 0 /\ slice'.blocks = 0
  BY DEF Fresh
<1>6. TypeOK'
  <2>1. outcome' \in StopReasons \cup {None, "EventLimitExceeded"} /\ running' \in BOOLEAN
    BY <1>2 DEF Open
  <2> QED BY Zenon, <1>1, <1>3, <1>4, <1>5, <2>1 DEF TypeOK, UseType
<1>7. log'.total <= 4 + 5 * used'.blocks
  <2>1. log.total + 5 <= 4 + 5 * Spent.blocks
    BY SpentIs
  <2>2. log.total \in Nat
    BY InLoop
  <2> QED BY <1>2, <1>4, <2>1, <2>2
<1>8. BudgetsHold'
  <2>1. budget'.events # 0 => log'.total <= budget'.events
    BY <1>2 DEF LogOK
  <2>2. budget'.ops # 0 => used'.ops + slice'.ops <= budget'.ops
    BY <1>1, <1>3, <1>4, <1>5
  <2>3. budget.blocks \in Nat
    BY <1>1, BudgetIs
  <2> QED BY <1>1, <1>3, <1>4, <2>1, <2>2, <2>3 DEF BudgetsHold
<1>9. BlocksPayForEverything'
  BY <1>3, <1>4, <1>7 DEF BlocksPayForEverything
<1>10. Working'
  <2>1. Credit' = used'.blocks
    BY <1>4, <1>5 DEF Credit
  <2>2. slice'.ops < budget'.slice /\ slice'.blocks <= slice'.ops
    BY <1>1, <1>5, BudgetIs
  <2> QED BY <1>1, <1>4, <1>7, <2>1, <2>2 DEF Working
<1> QED BY <1>1, <1>2, <1>6, <1>8, <1>9, <1>10 DEF IInv

\* The slice may go on to hold s: it has room, s is within the hard limit, and
\* what it adds to the blocks is not already spent.
SliceMay(s) ==
  /\ s \in [ops : Nat, blocks : Nat]
  /\ budget.ops # 0 => used.ops + s.ops <= budget.ops
  /\ Credit <= used.blocks + s.blocks - (IF current'.counted THEN 1 ELSE 0)

\* The current frame is somewhere else in its function.
Moves ==
  /\ current' \in Frames
  /\ current'.depth = current.depth
  /\ current'.expected = current.expected
  /\ current'.idx > 0 => current'.counted
  /\ suspended' = suspended
  /\ pc' \in Addresses

\* The run and its report are left alone.
LEMMA QuietKeeps ==
  ASSUME IInv, running, Frozen, Moves, UNCHANGED <<running, log, outcome>>,
         UseOK(used'), used'.entries = used.entries, used'.blocks >= used.blocks,
         used'.blocks <= budget.blocks,
         slice' \in [ops : Nat, blocks : Nat], slice'.ops < budget.slice,
         slice'.blocks <= slice'.ops,
         budget.ops # 0 => used'.ops + slice'.ops <= budget.ops,
         Credit <= Credit'
  PROVE  IInv'
<1>1. /\ budget' = budget /\ budget' \in Budgets /\ budget \in Budgets
      /\ runs' \in 0 .. MaxRuns /\ stack' \in BOOLEAN /\ owned' \in Nat /\ NoStackLeak'
  BY FrozenKeeps
<1>2. LogOK(log)' /\ EndIsExplained'
  <2>1. LogOK(log) /\ EndIsExplained
    BY DEF IInv
  <2> QED BY <1>1, <2>1 DEF LogOK, EndIsExplained, Open
<1>3. FramesAgree'
  <2>1. FramesAgree
    BY DEF IInv
  <2> QED BY <1>1, <2>1, FramesStay DEF Moves
<1>4. /\ used' \in UseType /\ used'.charged <= budget.transfers /\ ~ used'.cut
      /\ used'.blocks <= budget.blocks + budget.slice
  BY DEF UseOK
<1>5. TypeOK'
  <2>1. suspended' \in Seq(Frames) /\ current' \in Frames /\ pc' \in Addresses
    BY DEF IInv, TypeOK, Moves
  <2>2. /\ running' \in BOOLEAN /\ log' \in Logs
        /\ outcome' \in StopReasons \cup {None, "EventLimitExceeded"}
    BY DEF IInv, TypeOK
  <2> QED BY Zenon, <1>1, <1>4, <2>1, <2>2 DEF TypeOK, UseType
<1>6. /\ log.total \in Nat /\ Credit \in Int /\ used \in UseType
      /\ log.total <= 4 + 5 * used.blocks
      /\ log.total <= 4 + 5 * Credit /\ used.entries <= 1 + Credit
  BY InLoop
<1>7. used.blocks \in Nat /\ used'.blocks \in Nat /\ used.entries \in Nat /\ slice'.blocks \in Nat
  BY <1>4, <1>6 DEF UseType
<1>8. budget.blocks \in Nat /\ budget'.blocks = budget.blocks
  BY <1>1, BudgetIs
<1>9. BudgetsHold'
  <2>1. budget'.events # 0 => log'.total <= budget'.events
    BY <1>2 DEF LogOK
  <2> QED BY <1>1, <1>4, <1>7, <1>8, <2>1 DEF BudgetsHold
<1>10. BlocksPayForEverything'
  <2>1. log'.total <= 6 + 5 * used'.blocks
    BY <1>6, <1>7
  <2> QED BY <1>4, <2>1 DEF BlocksPayForEverything
<1>11. Working'
  <2>1. Credit' \in Int
    BY <1>7 DEF Credit
  <2>2. log'.total <= 4 + 5 * used'.blocks
    BY <1>6, <1>7
  <2>3. log'.total <= 4 + 5 * Credit' /\ used'.entries <= 1 + Credit'
    BY <1>6, <1>7, <2>1
  <2> QED BY <1>1, <2>2, <2>3 DEF Working, Moves
<1> QED BY <1>1, <1>2, <1>3, <1>5, <1>9, <1>10, <1>11 DEF IInv

\* The slice is not over.
LEMMA SliceGoesOnWell ==
  ASSUME IInv, running, Frozen, Moves, NEW s, SliceMay(s),
         s.ops < budget.slice, s.blocks <= s.ops,
         SliceGoesOn(s)
  PROVE  IInv'
<1>1. slice' = s /\ used' = used /\ UNCHANGED <<running, log, outcome>>
  BY DEF SliceGoesOn
<1>2. UseOK(used) /\ used \in UseType
  BY InLoop
<1>3. used.blocks \in Nat
  BY <1>2 DEF UseType
<1>4. Credit <= Credit'
  BY <1>1 DEF Credit, SliceMay
<1>5. used.blocks <= budget.blocks
  BY DEF IInv, Working
<1> QED BY <1>1, <1>2, <1>3, <1>4, <1>5, QuietKeeps DEF SliceMay

\* The slice is over, and the run with it if the guest blocks or the operations
\* are used up.
LEMMA SliceEndsWell ==
  ASSUME IInv, running, Frozen, Moves, NEW s, SliceMay(s),
         s.blocks <= budget.slice,
         NEW reason \in StopReasons \cup {None},
         SliceEnds(s, reason)
  PROVE  IInv'
<1>1. budget \in Budgets
  BY DEF IInv, TypeOK
<1>2. /\ budget.slice \in Nat \ {0} /\ budget.blocks \in Nat /\ budget.ops \in Nat
  BY <1>1, BudgetIs
<1>3. /\ used \in UseType /\ UseOK(used) /\ log.total \in Nat
      /\ log.total <= 4 + 5 * used.blocks
  BY InLoop
<1>4. /\ s \in [ops : Nat, blocks : Nat]
      /\ budget.ops # 0 => used.ops + s.ops <= budget.ops
      /\ Credit <= used.blocks + s.blocks - (IF current'.counted THEN 1 ELSE 0)
  BY DEF SliceMay
<1>5. slice' = Fresh /\ used' = Folded(s)
  BY DEF SliceEnds
<1>6. /\ used' \in UseType
      /\ used'.ops = used.ops + s.ops
      /\ used'.blocks = used.blocks + s.blocks
      /\ used'.entries = used.entries
      /\ used'.charged = used.charged
      /\ used'.cut = used.cut
  BY <1>3, <1>4, <1>5, FoldedIs
<1>7. used.blocks \in Nat /\ s.blocks \in Nat /\ used'.blocks \in Nat /\ used.blocks <= budget.blocks
      /\ used'.ops \in Nat
  BY <1>3, <1>4, <1>6 DEF UseType, IInv, Working
<1>8. UseOK(used')
  <2>1. used'.blocks <= budget.blocks + budget.slice
    BY <1>2, <1>6, <1>7
  <2> QED BY Zenon, <1>3, <1>4, <1>6, <2>1 DEF UseOK
<1>9. log.total <= 4 + 5 * used'.blocks
  BY <1>3, <1>6, <1>7
<1>10. LogOK(log)
  BY DEF IInv
<1>11. CASE used'.blocks > budget.blocks /\ Stop(log, "GuestBlockLimitExceeded")
  <2>1. "GuestBlockLimitExceeded" \in StopReasons
    BY DEF StopReasons
  <2> QED BY <1>5, <1>8, <1>9, <1>10, <1>11, <2>1, StepEnds DEF Moves
<1>12. CASE used'.blocks <= budget.blocks /\ reason # None /\ Stop(log, reason)
  <2>1. ~ (used'.blocks > budget.blocks)
    BY <1>2, <1>7, <1>12
  <2> QED BY <1>5, <1>8, <1>9, <1>10, <1>12, <2>1, StepEnds DEF Moves
<1>13. CASE used'.blocks <= budget.blocks /\ UNCHANGED <<running, log, outcome>>
  <2>1. /\ slice' \in [ops : Nat, blocks : Nat] /\ slice'.ops = 0 /\ slice'.blocks = 0
    BY <1>5 DEF Fresh
  <2>2. Credit <= Credit'
    BY <1>4, <1>6, <1>7, <2>1 DEF Credit
  <2>3. used'.blocks >= used.blocks /\ slice'.ops < budget.slice /\ slice'.blocks <= slice'.ops
    BY <1>2, <1>6, <1>7, <2>1
  <2>4. budget.ops # 0 => used'.ops + slice'.ops <= budget.ops
    BY <1>4, <1>6, <1>7, <2>1
  <2> QED BY <1>6, <1>8, <1>13, <2>1, <2>2, <2>3, <2>4, QuietKeeps
<1>14. \/ used'.blocks > budget.blocks /\ Stop(log, "GuestBlockLimitExceeded")
       \/ used'.blocks <= budget.blocks /\ reason # None /\ Stop(log, reason)
       \/ used'.blocks <= budget.blocks /\ UNCHANGED <<running, log, outcome>>
  BY DEF SliceEnds
<1> QED BY <1>11, <1>12, <1>13, <1>14

-----------------------------------------------------------------------------
(* The steps within a function. *)

\* Where the current frame is, and its place once an operation has run.
LEMMA CurrentIs ==
  ASSUME IInv
  PROVE  /\ current \in Frames
         /\ current.block \in Addresses
         /\ current.idx \in 0 .. BlockOps
         /\ current.counted \in BOOLEAN
         /\ current.expected \in Addresses
         /\ current.depth \in Nat
         /\ suspended \in Seq(Frames)
         /\ pc \in Addresses
  BY DEF IInv, TypeOK, Frames

\* An operation, which may be the last its slice can have.
LEMMA OpKeeps ==
  ASSUME IInv, running, Frozen, Op
  PROVE  IInv'
<1>1. /\ current \in Frames /\ current.block \in Addresses /\ current.idx \in 0 .. BlockOps
  BY CurrentIs
<1>2. /\ current.idx < BlockOps /\ OpAllowed
      /\ current' = [current EXCEPT !.idx = @ + 1, !.counted = TRUE]
      /\ pc' = current.block /\ suspended' = suspended
  BY DEF Op
<1> DEFINE n == current.idx + 1
           e == Entered(slice)
           m == e.ops + 1
           s == Stepped(slice)
<1>3. n \in 0 .. BlockOps /\ n > 0
  BY <1>1, <1>2, SessionAssumption
<1>4. current' = [current EXCEPT !.idx = n, !.counted = TRUE]
  BY <1>2
<1>5. /\ e \in [ops : Nat, blocks : Nat] /\ e.ops = slice.ops /\ e.blocks <= slice.blocks + 1
      /\ used.blocks + e.blocks = Credit + 1
  BY EnteredIs
<1>6. /\ used \in UseType /\ slice \in [ops : Nat, blocks : Nat] /\ Credit \in Int
      /\ slice.blocks <= slice.ops /\ slice.ops < budget.slice
  BY InLoop DEF IInv, Working
<1>7. budget.slice \in Nat /\ budget.ops \in Nat
  <2>1. budget \in Budgets
    BY DEF IInv, TypeOK
  <2> QED BY <2>1, BudgetIs
<1>8. s = [e EXCEPT !.ops = m]
  BY DEF Stepped
<1> HIDE DEF n, e, s
<1>9. Moves /\ current'.counted
  <2>1. /\ current' \in Frames /\ current'.depth = current.depth
        /\ current'.expected = current.expected /\ current'.counted = TRUE
    BY Zenon, <1>1, <1>3, <1>4 DEF Frames
  <2> QED BY <1>1, <1>2, <2>1 DEF Moves
<1>10. s \in [ops : Nat, blocks : Nat] /\ s.ops = slice.ops + 1 /\ s.blocks = e.blocks
  BY <1>5, <1>6, <1>8
<1>11. SliceMay(s)
  <2>1. used.ops \in Nat /\ slice.ops \in Nat /\ used.blocks \in Nat
    BY <1>6 DEF UseType
  <2>2. budget.ops # 0 => used.ops + s.ops <= budget.ops
    BY <1>2, <1>7, <1>10, <2>1 DEF OpAllowed
  <2>3. Credit <= used.blocks + s.blocks - 1
    BY <1>5, <1>6, <1>10, <2>1
  <2> QED BY <1>9, <1>10, <2>2, <2>3 DEF SliceMay
<1>12. s.blocks <= s.ops /\ s.blocks <= budget.slice
  BY <1>5, <1>6, <1>7, <1>10
<1>13. CASE s.ops < budget.slice /\ SliceGoesOn(s)
  BY <1>9, <1>11, <1>12, <1>13, SliceGoesOnWell
<1>14. CASE SliceEnds(s, None)
  BY <1>9, <1>11, <1>12, <1>14, SliceEndsWell
<1> QED BY <1>13, <1>14 DEF Op, s

\* An operation the hard limit refuses.
LEMMA LimitHitKeeps ==
  ASSUME IInv, running, Frozen, LimitHit
  PROVE  IInv'
<1>1. current \in Frames /\ pc \in Addresses
  BY CurrentIs
<1>2. /\ current' = [current EXCEPT !.counted = TRUE]
      /\ pc' = pc /\ suspended' = suspended
      /\ SliceEnds(Entered(slice), "IrOperationLimitExceeded")
  BY DEF LimitHit
<1> DEFINE s == Entered(slice)
<1>3. /\ s \in [ops : Nat, blocks : Nat] /\ s.ops = slice.ops /\ s.blocks <= slice.blocks + 1
      /\ used.blocks + s.blocks = Credit + 1
  BY EnteredIs
<1>4. /\ used \in UseType /\ slice \in [ops : Nat, blocks : Nat] /\ Credit \in Int
      /\ slice.blocks <= slice.ops /\ slice.ops < budget.slice
      /\ budget.ops # 0 => used.ops + slice.ops <= budget.ops
  BY InLoop DEF IInv, Working
<1>5. budget.slice \in Nat
  <2>1. budget \in Budgets
    BY DEF IInv, TypeOK
  <2> QED BY <2>1, BudgetIs
<1> HIDE DEF s
<1>6. Moves /\ current'.counted
  <2>1. /\ current' \in Frames /\ current'.depth = current.depth
        /\ current'.expected = current.expected /\ current'.counted = TRUE
    BY Zenon, <1>1, <1>2 DEF Frames
  <2> QED BY <1>1, <1>2, <2>1 DEF Moves
<1>7. SliceMay(s)
  <2>1. used.blocks \in Nat
    BY <1>4 DEF UseType
  <2>2. Credit <= used.blocks + s.blocks - 1
    BY <1>3, <1>4, <2>1
  <2> QED BY <1>3, <1>4, <1>6, <2>2 DEF SliceMay
<1>8. s.blocks <= budget.slice
  BY <1>3, <1>4, <1>5
<1>9. "IrOperationLimitExceeded" \in StopReasons
  BY DEF StopReasons
<1> QED BY <1>2, <1>6, <1>7, <1>8, <1>9, SliceEndsWell DEF s

\* A branch pays for the block it leaves.
LEMMA BranchKeeps ==
  ASSUME IInv, running, Frozen, NEW block \in Blocks, Branch(block)
  PROVE  IInv'
<1>1. current \in Frames /\ pc \in Addresses /\ current.idx \in 0 .. BlockOps
  BY CurrentIs
<1>2. current' = ResumeAt(current, block) /\ pc' = pc /\ suspended' = suspended
  BY DEF Branch
<1> DEFINE s == Entered(slice)
<1>3. /\ s \in [ops : Nat, blocks : Nat] /\ s.ops = slice.ops /\ s.blocks <= slice.blocks + 1
      /\ current.counted => s = slice
      /\ used.blocks + s.blocks = Credit + 1
  BY EnteredIs
<1>4. /\ used \in UseType /\ slice \in [ops : Nat, blocks : Nat] /\ Credit \in Int
      /\ slice.blocks <= slice.ops /\ slice.ops < budget.slice
      /\ budget.ops # 0 => used.ops + slice.ops <= budget.ops
      /\ current.idx > 0 => current.counted
  BY InLoop DEF IInv, Working
<1>5. budget.slice \in Nat
  <2>1. budget \in Budgets
    BY DEF IInv, TypeOK
  <2> QED BY <2>1, BudgetIs
<1> HIDE DEF s
<1>6. Moves /\ ~ current'.counted
  BY <1>1, <1>2, MovedIs DEF Moves
<1>7. SliceMay(s)
  <2>1. used.blocks \in Nat
    BY <1>4 DEF UseType
  <2>2. Credit <= used.blocks + s.blocks
    BY <1>3, <1>4, <2>1
  <2> QED BY <1>3, <1>4, <1>6, <2>2 DEF SliceMay
<1>8. s.blocks <= budget.slice
  BY <1>3, <1>4, <1>5
<1>9. CASE current.idx > 0 /\ SliceGoesOn(s)
  <2>1. s = slice
    BY <1>3, <1>4, <1>9
  <2> QED BY <1>4, <1>6, <1>7, <1>9, <2>1, SliceGoesOnWell
<1>10. CASE SliceEnds(s, None)
  BY <1>6, <1>7, <1>8, <1>10, SliceEndsWell
<1> QED BY <1>9, <1>10 DEF Branch, s

\* A failing operation loses the counts of its slice, but not what they paid for.
LEMMA FaultKeeps ==
  ASSUME IInv, running, Frozen, NEW reason \in FaultReasons, Fault(reason)
  PROVE  IInv'
<1>1. current \in Frames /\ current.block \in Addresses
  BY CurrentIs
<1>2. /\ current' = [current EXCEPT !.counted = TRUE]
      /\ pc' = current.block /\ suspended' = suspended /\ used' = used
      /\ slice' = Fresh /\ Stop(log, reason)
  BY DEF Fault
<1>3. /\ current' \in Frames /\ current'.depth = current.depth
      /\ current'.expected = current.expected
  BY Zenon, <1>1, <1>2 DEF Frames
<1>4. UseOK(used') /\ log.total <= 4 + 5 * used'.blocks
  BY <1>2, InLoop
<1>5. ~ (used'.blocks > budget.blocks)
  <2>1. budget \in Budgets /\ used \in UseType
    BY InLoop DEF IInv, TypeOK
  <2> QED BY <1>2, <2>1, BudgetIs DEF IInv, Working, UseType
<1>6. LogOK(log) /\ reason \in StopReasons
  BY DEF IInv, StopReasons
<1> QED BY <1>1, <1>2, <1>3, <1>4, <1>5, <1>6, StepEnds

-----------------------------------------------------------------------------
(* The boundaries. *)

\* A run may end at a boundary after the few events the boundary has recorded.
LEMMA EndsAtWell ==
  ASSUME IInv, running, Frozen, slice' = Fresh,
         NEW l, LogOK(l), l.total <= log.total + 5,
         NEW target \in Addresses,
         NEW reason, Open(l) => reason \in StopReasons,
         Spent.blocks > budget.blocks => reason = "GuestBlockLimitExceeded",
         EndsAt(l, target, reason)
  PROVE  IInv'
<1>1. /\ used' = Spent /\ pc' = target /\ current' = current /\ suspended' = suspended
      /\ Stop(l, reason)
  BY DEF EndsAt
<1>2. UseOK(used') /\ log.total + 5 <= 4 + 5 * used'.blocks
  BY <1>1, SpentIs
<1>3. l.total <= 4 + 5 * used'.blocks
  <2>1. log.total \in Nat /\ l.total \in Nat /\ used'.blocks \in Nat
    BY <1>2, InLoop DEF LogOK, Logs, UseOK, UseType
  <2> QED BY <1>2, <2>1
<1>4. current' \in Frames
  BY <1>1, CurrentIs
<1> QED BY <1>1, <1>2, <1>3, <1>4, StepEnds

\* The session's log, as every boundary finds it.
LEMMA LogNow ==
  ASSUME IInv, running
  PROVE  /\ budget \in Budgets /\ LogOK(log) /\ log.total \in Nat
         /\ Open(log) /\ log.last # "SessionStop"
  BY InLoop DEF IInv, TypeOK, EndIsExplained

\* One event at a boundary.
LEMMA OneEvent ==
  ASSUME IInv, running, NEW kind \in Kinds
  PROVE  /\ LogOK(Event(log, kind))
         /\ Event(log, kind).total \in Nat
         /\ Event(log, kind).total <= log.total + 1
         /\ Open(Event(log, kind)) => Event(log, kind).last = kind
<1>1. LogOK(Event(log, kind))
  BY LogNow, EventOK
<1> QED BY <1>1, LogNow, EventOK DEF LogOK, Logs

\* Two of them.
LEMMA TwoEvents ==
  ASSUME IInv, running, NEW first \in Kinds, NEW second \in Kinds
  PROVE  LET l == Event(Event(log, first), second) IN
         /\ LogOK(l)
         /\ l.total <= log.total + 5
         /\ Open(l) => l.last = second
<1> DEFINE one == Event(log, first)
           two == Event(one, second)
<1>1. LogOK(one) /\ one.total \in Nat /\ one.total <= log.total + 1
  BY OneEvent
<1>2. budget \in Budgets /\ log.total \in Nat
  BY LogNow
<1> HIDE DEF one
<1>3. LogOK(two) /\ two.total <= one.total + 1 /\ (Open(two) => two.last = second)
  BY <1>1, <1>2, EventOK
<1>4. two.total \in Nat
  BY <1>3 DEF LogOK, Logs
<1>5. two.total <= log.total + 5
  BY <1>1, <1>2, <1>3, <1>4
<1> QED BY <1>3, <1>5 DEF one

\* The boundary of an import records up to four events, and one more when it
\* goes on in the frame below.
LEMMA ImportEvents ==
  ASSUME IInv, running
  PROVE  /\ LogOK(Asked) /\ Asked.total <= log.total + 5
         /\ LogOK(Handled) /\ Handled.total <= log.total + 5
         /\ Open(Handled) => Handled.last = "ImportReturn"
         /\ LogOK(Event(Handled, "FunctionResume"))
         /\ Event(Handled, "FunctionResume").total <= log.total + 5
         /\ Open(Event(Handled, "FunctionResume")) =>
              Event(Handled, "FunctionResume").last = "FunctionResume"
<1> DEFINE one == Event(log, "ImportResolved")
           two == Event(one, "ImportEnter")
           resumed == Event(Handled, "FunctionResume")
<1>1. budget \in Budgets /\ LogOK(log) /\ log.total \in Nat
  BY LogNow
<1>2. LogOK(one) /\ one.total <= log.total + 1 /\ one.total \in Nat
  <2>1. "ImportResolved" \in Kinds
    BY DEF Kinds
  <2> QED BY <2>1, OneEvent
<1> HIDE DEF one
<1>3. LogOK(two) /\ two.total <= one.total + 1 /\ two.total \in Nat
  <2>1. "ImportEnter" \in Kinds
    BY DEF Kinds
  <2>2. LogOK(two) /\ two.total <= one.total + 1
    BY <1>1, <1>2, <2>1, EventOK
  <2> QED BY <2>2 DEF LogOK, Logs
<1>4. Asked = Event(two, "ImportArguments")
  BY DEF Asked, one
<1> HIDE DEF two
<1>5. LogOK(Asked) /\ Asked.total <= two.total + 1 /\ Asked.total \in Nat
  <2>1. "ImportArguments" \in Kinds
    BY DEF Kinds
  <2>2. LogOK(Asked) /\ Asked.total <= two.total + 1
    BY <1>1, <1>3, <1>4, <2>1, EventOK
  <2> QED BY <2>2 DEF LogOK, Logs
<1>6. /\ LogOK(Handled) /\ Handled.total <= Asked.total + 1 /\ Handled.total \in Nat
      /\ Open(Handled) => Handled.last = "ImportReturn"
  <2>1. "ImportReturn" \in Kinds
    BY DEF Kinds
  <2>2. /\ LogOK(Handled) /\ Handled.total <= Asked.total + 1
        /\ Open(Handled) => Handled.last = "ImportReturn"
    BY <1>1, <1>5, <2>1, EventOK DEF Handled
  <2> QED BY <2>2 DEF LogOK, Logs
<1>7. /\ LogOK(resumed) /\ resumed.total <= Handled.total + 1 /\ resumed.total \in Nat
      /\ Open(resumed) => resumed.last = "FunctionResume"
  <2>1. "FunctionResume" \in Kinds
    BY DEF Kinds
  <2>2. /\ LogOK(resumed) /\ resumed.total <= Handled.total + 1
        /\ Open(resumed) => resumed.last = "FunctionResume"
    BY <1>1, <1>6, <2>1, EventOK
  <2> QED BY <2>2 DEF LogOK, Logs
<1> HIDE DEF resumed
<1>8. /\ Asked.total <= log.total + 5 /\ Handled.total <= log.total + 5
      /\ resumed.total <= log.total + 5
  BY <1>1, <1>2, <1>3, <1>5, <1>6, <1>7
<1> QED BY <1>5, <1>6, <1>7, <1>8 DEF resumed

\* The call stack while a run goes on.
LEMMA StackIs ==
  ASSUME IInv, running
  PROVE  /\ current.depth = Len(suspended)
         /\ Len(suspended) \in Nat
         /\ Len(suspended) <= budget.depth
         /\ \A i \in 1 .. Len(suspended) :
              /\ suspended[i] \in Frames
              /\ suspended[i].depth = i - 1
              /\ suspended[i].idx = 0
              /\ ~ suspended[i].counted
              /\ Above(i).expected = suspended[i].block
         /\ (IF suspended = <<>> THEN current ELSE suspended[1]).expected = Sentinel
<1>1. suspended \in Seq(Frames)
  BY CurrentIs
<1>2. FramesAgree
  BY DEF IInv
<1> QED BY <1>1, <1>2 DEF FramesAgree

\* The frame below takes over.
LEMMA PopWell ==
  ASSUME IInv, running, budget' = budget, suspended # <<>>, Pop
  PROVE  /\ current' \in Frames
         /\ current'.idx = 0
         /\ ~ current'.counted
         /\ suspended' \in Seq(Frames)
         /\ FramesAgree'
<1> DEFINE n == Len(suspended)
<1>1. suspended \in Seq(Frames) /\ budget \in Budgets
  BY CurrentIs, LogNow
<1>2. n \in Nat /\ n > 0 /\ n <= budget.depth /\ budget.depth \in Nat
  BY <1>1, BudgetIs, StackIs
<1>3. \A i \in 1 .. n :
        /\ suspended[i] \in Frames
        /\ suspended[i].depth = i - 1
        /\ suspended[i].idx = 0
        /\ ~ suspended[i].counted
        /\ Above(i).expected = suspended[i].block
  BY StackIs
<1>4. suspended[1].expected = Sentinel
  BY StackIs
<1>5. current' = suspended[n] /\ suspended' = SubSeq(suspended, 1, n - 1)
  BY DEF Pop
<1> HIDE DEF n
<1>6. /\ suspended' \in Seq(Frames)
      /\ Len(suspended') = n - 1
      /\ \A i \in 1 .. n - 1 : suspended'[i] = suspended[i]
  <2>1. \A i \in 1 .. n - 1 : suspended[i] \in Frames
    BY <1>2, <1>3
  <2>2. /\ SubSeq(suspended, 1, n - 1) \in Seq(Frames)
        /\ Len(SubSeq(suspended, 1, n - 1)) = IF 1 <= n - 1 THEN n - 1 - 1 + 1 ELSE 0
        /\ \A i \in 1 .. n - 1 - 1 + 1 : SubSeq(suspended, 1, n - 1)[i] = suspended[1 + i - 1]
    <3>1. 1 \in Int /\ n - 1 \in Int
      BY <1>2
    <3> QED BY <2>1, <3>1, SubSeqProperties
  <2>3. ASSUME NEW i \in 1 .. n - 1 PROVE suspended'[i] = suspended[i]
    <3>1. i \in 1 .. n - 1 - 1 + 1 /\ 1 + i - 1 = i
      BY <1>2
    <3> QED BY <1>5, <2>2, <3>1
  <2>4. Len(suspended') = n - 1
    BY <1>2, <1>5, <2>2
  <2> QED BY <1>5, <2>2, <2>3, <2>4
<1>7. /\ current' \in Frames /\ current'.depth = n - 1
      /\ current'.idx = 0 /\ ~ current'.counted
  <2>1. n \in 1 .. n
    BY <1>2
  <2> QED BY <1>3, <1>5, <2>1
<1>8. ASSUME NEW i \in 1 .. n - 1
      PROVE  /\ suspended'[i].depth = i - 1
             /\ suspended'[i].idx = 0
             /\ ~ suspended'[i].counted
             /\ Above(i)'.expected = suspended'[i].block
  <2>1. i \in 1 .. n /\ i # n /\ i \in Nat /\ i + 1 \in 1 .. n
    BY <1>2
  <2>2. Above(i) = suspended[i + 1]
    BY <2>1 DEF Above, n
  <2>3. Above(i)' = suspended[i + 1]
    <3>1. CASE i = n - 1
      BY <1>2, <1>5, <1>6, <3>1 DEF Above
    <3>2. CASE i # n - 1
      <4>1. i + 1 \in 1 .. n - 1
        BY <1>2, <3>2
      <4> QED BY <1>6, <3>2, <4>1 DEF Above
    <3> QED BY <3>1, <3>2
  <2> QED BY <1>3, <1>6, <2>1, <2>2, <2>3
<1>9. (IF suspended' = <<>> THEN current' ELSE suspended'[1]).expected = Sentinel
  <2>1. CASE n = 1
    BY <1>4, <1>5, <1>6, <2>1
  <2>2. CASE n # 1
    <3>1. 1 \in 1 .. n - 1 /\ suspended' # <<>>
      BY <1>2, <1>6, <2>2
    <3> QED BY <1>4, <1>6, <3>1
  <2> QED BY <2>1, <2>2
<1>10. FramesAgree'
  <2>1. n - 1 <= budget'.depth /\ current'.depth = Len(suspended')
    BY <1>2, <1>6, <1>7
  <2> QED BY <1>6, <1>8, <1>9, <2>1 DEF FramesAgree
<1> QED BY <1>6, <1>7, <1>10

\* A call leaves its caller at the continuation.
LEMMA PushWell ==
  ASSUME IInv, running, budget' = budget, NEW function \in Functions,
         NEW continuation \in Labels, Len(suspended) + 1 <= budget.depth,
         suspended' = Append(suspended, ResumeAt(current, continuation)),
         current' = Frame(function, continuation, Len(suspended'))
  PROVE  /\ current' \in Frames
         /\ current'.idx = 0
         /\ ~ current'.counted
         /\ suspended' \in Seq(Frames)
         /\ FramesAgree'
<1> DEFINE n == Len(suspended)
           caller == ResumeAt(current, continuation)
<1>1. suspended \in Seq(Frames) /\ current \in Frames /\ n \in Nat
  BY CurrentIs
<1>2. /\ continuation \in Blocks /\ function \in Addresses /\ continuation \in Addresses
  BY DEF Blocks, Addresses
<1>3. /\ caller \in Frames /\ caller.block = continuation /\ caller.idx = 0
      /\ ~ caller.counted /\ caller.expected = current.expected /\ caller.depth = current.depth
  BY <1>1, <1>2, MovedIs
<1> HIDE DEF caller
<1>4. /\ suspended' \in Seq(Frames) /\ Len(suspended') = n + 1 /\ suspended'[n + 1] = caller
      /\ \A i \in 1 .. n : suspended'[i] = suspended[i]
  BY <1>1, <1>3 DEF caller
<1> HIDE DEF n
<1>5. /\ current' \in Frames /\ current'.idx = 0 /\ ~ current'.counted
      /\ current'.expected = continuation /\ current'.depth = n + 1
  <2>1. n + 1 \in Nat
    BY <1>1
  <2> QED BY <1>2, <1>4, <2>1, ZeroIsIdx DEF Frame, Frames
<1>6. /\ current.depth = n
      /\ \A i \in 1 .. n :
           /\ suspended[i].depth = i - 1
           /\ suspended[i].idx = 0
           /\ ~ suspended[i].counted
           /\ Above(i).expected = suspended[i].block
      /\ (IF suspended = <<>> THEN current ELSE suspended[1]).expected = Sentinel
  BY StackIs DEF n
<1>7. ASSUME NEW i \in 1 .. n + 1
      PROVE  /\ suspended'[i].depth = i - 1
             /\ suspended'[i].idx = 0
             /\ ~ suspended'[i].counted
             /\ Above(i)'.expected = suspended'[i].block
  <2>1. CASE i = n + 1
    <3>1. Above(i)' = current'
      BY <1>4, <2>1 DEF Above
    <3> QED BY <1>1, <1>3, <1>4, <1>5, <1>6, <2>1, <3>1
  <2>2. CASE i = n
    <3>1. Above(i)' = caller /\ i \in 1 .. n
      BY <1>1, <1>4, <2>2 DEF Above
    <3>2. Above(i) = current
      BY <2>2 DEF Above, n
    <3> QED BY <1>3, <1>4, <1>6, <3>1, <3>2
  <2>3. CASE i \in 1 .. n - 1
    <3>1. i \in 1 .. n /\ i + 1 \in 1 .. n /\ i # n /\ i # n + 1
      BY <1>1, <2>3
    <3>2. Above(i)' = suspended[i + 1]
      BY <1>4, <3>1 DEF Above
    <3>3. Above(i) = suspended[i + 1]
      BY <3>1 DEF Above, n
    <3> QED BY <1>4, <1>6, <3>1, <3>2, <3>3
  <2>4. i = n + 1 \/ i = n \/ i \in 1 .. n - 1
    BY <1>1
  <2> QED BY <2>1, <2>2, <2>3, <2>4
<1>8. (IF suspended' = <<>> THEN current' ELSE suspended'[1]).expected = Sentinel
  <2>0. suspended' # <<>>
    BY <1>1, <1>4
  <2>1. CASE n = 0
    <3>1. suspended = <<>>
      BY <1>1, <2>1 DEF n
    <3> QED BY <1>3, <1>4, <1>6, <2>0, <2>1, <3>1
  <2>2. CASE n # 0
    <3>1. 1 \in 1 .. n /\ suspended # <<>>
      BY <1>1, <2>2 DEF n
    <3> QED BY <1>4, <1>6, <2>0, <3>1
  <2> QED BY <2>1, <2>2
<1>9. FramesAgree'
  <2>1. n + 1 <= budget'.depth
    BY DEF n
  <2> QED BY <1>4, <1>5, <1>7, <1>8, <2>1 DEF FramesAgree
<1> QED BY <1>4, <1>5, <1>9

\* A transfer keeps the return contract of its frame.
LEMMA ReplaceWell ==
  ASSUME IInv, running, budget' = budget, suspended' = suspended,
         NEW function \in Functions,
         current' = Frame(function, current.expected, current.depth)
  PROVE  /\ current' \in Frames
         /\ current'.idx = 0
         /\ ~ current'.counted
         /\ suspended' \in Seq(Frames)
         /\ FramesAgree'
<1>1. /\ current.expected \in Addresses /\ current.depth \in Nat /\ suspended \in Seq(Frames)
      /\ function \in Addresses
  BY CurrentIs DEF Addresses, Blocks
<1>2. /\ current' \in Frames /\ current'.idx = 0 /\ ~ current'.counted
      /\ current'.expected = current.expected /\ current'.depth = current.depth
  BY <1>1, ZeroIsIdx DEF Frame, Frames
<1>3. FramesAgree'
  BY <1>2, FramesStay DEF IInv
<1> QED BY <1>1, <1>2, <1>3

\* The guest blocks are used up.
LEMMA BlockLimitHitKeeps ==
  ASSUME IInv, running, Frozen, slice' = Fresh, NEW target \in Addresses, BlockLimitHit(target)
  PROVE  IInv'
<1>1. LogOK(log) /\ log.total <= log.total + 5 /\ "GuestBlockLimitExceeded" \in StopReasons
  BY LogNow DEF StopReasons
<1> QED BY <1>1, EndsAtWell DEF BlockLimitHit

\* The ways to end a run that record nothing before the stop.
LEMMA EndsAtOnce ==
  ASSUME IInv, running, Frozen, slice' = Fresh, Spent.blocks <= budget.blocks,
         NEW target \in Addresses, NEW reason \in StopReasons, EndsAt(log, target, reason)
  PROVE  IInv'
<1>1. ~ (Spent.blocks > budget.blocks)
  <2>1. Spent.blocks \in Nat /\ budget.blocks \in Nat
    BY SpentIs, LogNow, BudgetIs DEF UseOK, UseType
  <2> QED BY <2>1
<1>2. LogOK(log) /\ log.total <= log.total + 5
  BY LogNow
<1> QED BY <1>1, <1>2, EndsAtWell

\* The ways to end a run after the events of a boundary.
LEMMA EndsAfter ==
  ASSUME IInv, running, Frozen, slice' = Fresh, Spent.blocks <= budget.blocks,
         NEW l, LogOK(l), l.total <= log.total + 5,
         NEW target \in Addresses, NEW reason, Open(l) => reason \in StopReasons,
         EndsAt(l, target, reason)
  PROVE  IInv'
<1>1. ~ (Spent.blocks > budget.blocks)
  <2>1. Spent.blocks \in Nat /\ budget.blocks \in Nat
    BY SpentIs, LogNow, BudgetIs DEF UseOK, UseType
  <2> QED BY <2>1
<1> QED BY <1>1, EndsAtWell

\* A return ends the run or resumes the frame below.
LEMMA ReturnKeeps ==
  ASSUME IInv, running, Frozen, slice' = Fresh, Spent.blocks <= budget.blocks,
         NEW target \in Addresses, Return(target)
  PROVE  IInv'
<1> DEFINE returned == Event(log, "Return")
           l == Event(returned, "FunctionResume")
<1>1. "Return" \in Kinds /\ "FunctionResume" \in Kinds /\ "FunctionResume" # "SessionStop"
  BY DEF Kinds
<1>2. LogOK(returned) /\ returned.total <= log.total + 5
  BY <1>1, OneEvent, LogNow
<1>3. LogOK(l) /\ l.total <= log.total + 5 /\ (Open(l) => l.last = "FunctionResume")
  BY <1>1, TwoEvents
<1>4. "EntryReturned" \in StopReasons /\ "ReturnTargetMismatch" \in StopReasons
  BY DEF StopReasons
<1> HIDE DEF l, returned
<1>5. CASE EndsAt(returned, target, "EntryReturned")
  BY <1>2, <1>4, <1>5, EndsAfter
<1>6. CASE EndsAt(returned, target, "ReturnTargetMismatch")
  BY <1>2, <1>4, <1>6, EndsAfter
<1>7. CASE /\ suspended # <<>> /\ Pop /\ pc' = current'.expected /\ used' = Spent /\ Logged(l)
  <2>1. /\ current' \in Frames /\ current'.idx = 0 /\ ~ current'.counted
        /\ suspended' \in Seq(Frames) /\ FramesAgree'
    BY <1>7, FrozenKeeps, PopWell
  <2>2. pc' \in Addresses
    BY <1>7, <2>1 DEF Frames
  <2>3. UseOK(used') /\ used'.blocks = Spent.blocks /\ used'.entries <= Spent.blocks + 1
    BY <1>7, SpentIs DEF UseOK, UseType
  <2> QED BY <1>1, <1>3, <1>7, <2>1, <2>2, <2>3, BoundaryPassed
<1> QED BY <1>5, <1>6, <1>7 DEF Return, l, returned

\* A call ends the run or enters the callee.
LEMMA CallKeeps ==
  ASSUME IInv, running, Frozen, slice' = Fresh, Spent.blocks <= budget.blocks,
         NEW function \in Functions, NEW continuation \in Labels, Call(function, continuation)
  PROVE  IInv'
<1> DEFINE called == Event(log, "Call")
           l == Event(called, "FunctionEnter")
<1>1. "Call" \in Kinds /\ "FunctionEnter" \in Kinds /\ "FunctionEnter" # "SessionStop"
  BY DEF Kinds
<1>2. LogOK(called) /\ called.total <= log.total + 5
  BY <1>1, OneEvent, LogNow
<1>3. LogOK(l) /\ l.total <= log.total + 5 /\ (Open(l) => l.last = "FunctionEnter")
  BY <1>1, TwoEvents
<1>4. "CallDepthExceeded" \in StopReasons /\ function \in Addresses
  BY DEF StopReasons, Addresses, Blocks
<1> HIDE DEF l, called
<1>5. CASE EndsAt(log, function, "CallDepthExceeded")
  BY <1>4, <1>5, EndsAtOnce
<1>6. CASE ~ Open(called) /\ EndsAt(called, function, None)
  BY <1>2, <1>4, <1>6, EndsAfter
<1>7. CASE /\ Len(suspended) + 1 <= budget.depth
           /\ suspended' = Append(suspended, ResumeAt(current, continuation))
           /\ current' = Frame(function, continuation, Len(suspended'))
           /\ pc' = function
           /\ used' = WithEntry(Spent, 0)
           /\ Logged(l)
  <2>1. /\ current' \in Frames /\ current'.idx = 0 /\ ~ current'.counted
        /\ suspended' \in Seq(Frames) /\ FramesAgree'
    BY <1>7, FrozenKeeps, PushWell
  <2>2. UseOK(used') /\ used'.blocks = Spent.blocks /\ used'.entries <= Spent.blocks + 1
    BY <1>7, EntryIs
  <2> QED BY <1>1, <1>3, <1>4, <1>7, <2>1, <2>2, BoundaryPassed
<1> QED BY <1>5, <1>6, <1>7 DEF Call, l, called

\* A transfer ends the run or enters the function in place of its frame.
LEMMA TransferKeeps ==
  ASSUME IInv, running, Frozen, slice' = Fresh, Spent.blocks <= budget.blocks,
         NEW function \in Functions, Transfer(function)
  PROVE  IInv'
<1> DEFINE moved == Event(log, "FunctionTransfer")
           l == Event(moved, "FunctionEnter")
<1>1. "FunctionTransfer" \in Kinds /\ "FunctionEnter" \in Kinds /\ "FunctionEnter" # "SessionStop"
  BY DEF Kinds
<1>2. LogOK(moved) /\ moved.total <= log.total + 5
  BY <1>1, OneEvent, LogNow
<1>3. LogOK(l) /\ l.total <= log.total + 5 /\ (Open(l) => l.last = "FunctionEnter")
  BY <1>1, TwoEvents
<1>4. "FunctionTransitionLimitExceeded" \in StopReasons /\ function \in Addresses
  BY DEF StopReasons, Addresses, Blocks
<1> HIDE DEF l, moved
<1>5. CASE EndsAt(moved, function, "FunctionTransitionLimitExceeded")
  BY <1>2, <1>4, <1>5, EndsAfter
<1>6. CASE /\ Spent.charged < budget.transfers
           /\ current' = Frame(function, current.expected, current.depth)
           /\ pc' = function
           /\ used' = WithEntry(Spent, 1)
           /\ Logged(l)
           /\ suspended' = suspended
  <2>1. /\ current' \in Frames /\ current'.idx = 0 /\ ~ current'.counted
        /\ suspended' \in Seq(Frames) /\ FramesAgree'
    BY <1>6, FrozenKeeps, ReplaceWell
  <2>2. UseOK(used') /\ used'.blocks = Spent.blocks /\ used'.entries <= Spent.blocks + 1
    BY <1>6, EntryIs
  <2> QED BY <1>1, <1>3, <1>4, <1>6, <2>1, <2>2, BoundaryPassed
<1> QED BY <1>5, <1>6 DEF Transfer, l, moved

\* An import called by the guest goes on at the continuation.
LEMMA ImportCallKeeps ==
  ASSUME IInv, running, Frozen, slice' = Fresh, Spent.blocks <= budget.blocks,
         NEW continuation \in Labels, ImportCall(continuation)
  PROVE  IInv'
<1>1. /\ LogOK(Handled) /\ Handled.total <= log.total + 5
      /\ Open(Handled) => Handled.last # "SessionStop"
  BY ImportEvents
<1>2. Elsewhere \in Addresses /\ continuation \in Blocks /\ continuation \in Addresses
  BY DEF Addresses, Blocks
<1>3. CASE ~ Open(Handled) /\ EndsAt(Handled, Elsewhere, None)
  BY <1>1, <1>2, <1>3, EndsAfter
<1>4. CASE /\ current' = ResumeAt(current, continuation) /\ pc' = continuation
           /\ used' = Spent /\ Logged(Handled) /\ suspended' = suspended
  <2>1. /\ current' \in Frames /\ current'.idx = 0 /\ ~ current'.counted
        /\ current'.expected = current.expected /\ current'.depth = current.depth
        /\ suspended' \in Seq(Frames)
    BY <1>2, <1>4, CurrentIs, MovedIs
  <2>2. FramesAgree'
    BY <1>4, <2>1, FrozenKeeps, FramesStay DEF IInv
  <2>3. UseOK(used') /\ used'.blocks = Spent.blocks /\ used'.entries <= Spent.blocks + 1
    BY <1>4, SpentIs DEF UseOK, UseType
  <2> QED BY <1>1, <1>2, <1>4, <2>1, <2>2, <2>3, BoundaryPassed
<1> QED BY <1>3, <1>4 DEF ImportCall

\* An import the guest jumped to resumes the frame below.
LEMMA ImportTailKeeps ==
  ASSUME IInv, running, Frozen, slice' = Fresh, Spent.blocks <= budget.blocks, ImportTail
  PROVE  IInv'
<1> DEFINE l == Event(Handled, "FunctionResume")
<1>1. /\ LogOK(Handled) /\ Handled.total <= log.total + 5
      /\ LogOK(l) /\ l.total <= log.total + 5
      /\ Open(l) => l.last # "SessionStop"
  BY ImportEvents
<1>2. Elsewhere \in Addresses /\ "EntryReturned" \in StopReasons /\ current.expected \in Addresses
  BY CurrentIs DEF Addresses, StopReasons
<1> HIDE DEF l
<1>3. CASE EndsAt(Handled, Elsewhere, "EntryReturned")
  BY <1>1, <1>2, <1>3, EndsAfter
<1>4. CASE suspended # <<>> /\ Pop /\ pc' = current.expected /\ used' = Spent /\ Logged(l)
  <2>1. /\ current' \in Frames /\ current'.idx = 0 /\ ~ current'.counted
        /\ suspended' \in Seq(Frames) /\ FramesAgree'
    BY <1>4, FrozenKeeps, PopWell
  <2>2. UseOK(used') /\ used'.blocks = Spent.blocks /\ used'.entries <= Spent.blocks + 1
    BY <1>4, SpentIs DEF UseOK, UseType
  <2> QED BY <1>1, <1>2, <1>4, <2>1, <2>2, BoundaryPassed
<1> QED BY <1>3, <1>4 DEF ImportTail, l

\* Every boundary.
LEMMA BoundaryKeeps ==
  ASSUME IInv, running, Frozen, Boundary
  PROVE  IInv'
<1>1. slice' = Fresh /\ Elsewhere \in Addresses /\ pc \in Addresses
  BY CurrentIs DEF Boundary, Addresses
<1>2. ASSUME NEW target \in Addresses, BlockLimitHit(target) PROVE IInv'
  BY <1>1, <1>2, BlockLimitHitKeeps
<1>3. CASE Spent.blocks <= budget.blocks /\ Dispatch
  <2>1. ASSUME NEW target \in Addresses, Return(target) PROVE IInv'
    BY <1>1, <1>3, <2>1, ReturnKeeps
  <2>2. ASSUME NEW function \in Functions, NEW continuation \in Labels,
               Call(function, continuation)
        PROVE  IInv'
    BY <1>1, <1>3, <2>2, CallKeeps
  <2>3. ASSUME NEW function \in Functions, Transfer(function) PROVE IInv'
    BY <1>1, <1>3, <2>3, TransferKeeps
  <2>4. ASSUME NEW reason \in TargetReasons, Refused(reason) PROVE IInv'
    <3>1. reason \in StopReasons
      BY DEF StopReasons
    <3> QED BY <1>1, <1>3, <2>4, <3>1, EndsAtOnce DEF Refused
  <2>5. ASSUME NEW reason \in TrapReasons, Trap(reason) PROVE IInv'
    <3>1. reason \in StopReasons
      BY DEF StopReasons
    <3> QED BY <1>1, <1>3, <2>5, <3>1, EndsAtOnce DEF Trap
  <2>6. ASSUME NEW reason \in ImportReasons, ImportUnhandled(reason) PROVE IInv'
    <3>1. reason \in StopReasons
      BY DEF StopReasons
    <3>2. LogOK(Asked) /\ Asked.total <= log.total + 5
      BY ImportEvents
    <3> QED BY <1>1, <1>3, <2>6, <3>1, <3>2, EndsAfter DEF ImportUnhandled
  <2>7. ASSUME NEW continuation \in Labels, ImportCall(continuation) PROVE IInv'
    BY <1>1, <1>3, <2>7, ImportCallKeeps
  <2>8. CASE ImportTail
    BY <1>1, <1>3, <2>8, ImportTailKeeps
  <2> QED BY <1>3, <2>1, <2>2, <2>3, <2>4, <2>5, <2>6, <2>7, <2>8 DEF Dispatch
<1> QED BY <1>2, <1>3 DEF Boundary

-----------------------------------------------------------------------------
(* The start of a run, and the end of the session. *)

\* The events before the loop.
LEMMA StartingIs ==
  ASSUME IInv
  PROVE  LET mapped == Event(Starting, "StackMapped")
             entered == Event(mapped, "FunctionEnter") IN
         /\ LogOK(Starting) /\ Starting.total <= 2
         /\ Open(Starting) => Starting.last # "SessionStop"
         /\ LogOK(mapped) /\ mapped.total <= 3
         /\ Open(mapped) => mapped.last # "SessionStop"
         /\ LogOK(entered) /\ entered.total <= 4
         /\ Open(entered) => entered.last # "SessionStop"
<1> DEFINE started == Event(EmptyLog, "SessionStart")
           mapped == Event(Starting, "StackMapped")
           entered == Event(mapped, "FunctionEnter")
<1>1. budget \in Budgets
  BY DEF IInv, TypeOK
<1>2. budget.history \in Nat /\ budget.events \in Nat
  BY <1>1, BudgetIs
<1>3. LogOK(EmptyLog) /\ EmptyLog.total = 0
  <2>1. EmptyLog \in Logs
    <3>1. <<>> \in Seq(Nat)
      OBVIOUS
    <3>2. 0 \in Nat
      OBVIOUS
    <3> QED BY Zenon, <3>1, <3>2 DEF EmptyLog, Logs
  <2>2. /\ EmptyLog.total = 0 /\ EmptyLog.kept = <<>> /\ ~ EmptyLog.truncated
        /\ EmptyLog.attempt = None
    BY DEF EmptyLog
  <2>3. Shaped(EmptyLog, budget.history)
    BY <1>2, <2>2 DEF Shaped
  <2>4. Open(EmptyLog)
    BY <2>2 DEF Open
  <2> QED BY <1>2, <2>1, <2>2, <2>3, <2>4 DEF LogOK
<1>4. LogOK(started) /\ started.total <= 1 /\ started.total \in Nat
  <2>1. "SessionStart" \in Kinds
    BY DEF Kinds
  <2>2. LogOK(started) /\ started.total <= EmptyLog.total + 1
    BY <1>1, <1>3, <2>1, EventOK
  <2> QED BY <1>3, <2>2 DEF LogOK, Logs
<1>5. Starting = Event(started, "EntrySelected")
  BY DEF Starting
<1> HIDE DEF started
<1>6. /\ LogOK(Starting) /\ Starting.total <= 2 /\ Starting.total \in Nat
      /\ Open(Starting) => Starting.last = "EntrySelected"
  <2>1. "EntrySelected" \in Kinds
    BY DEF Kinds
  <2>2. /\ LogOK(Starting) /\ Starting.total <= started.total + 1
        /\ Open(Starting) => Starting.last = "EntrySelected"
    BY <1>1, <1>4, <1>5, <2>1, EventOK
  <2>3. Starting.total \in Nat
    BY <2>2 DEF LogOK, Logs
  <2> QED BY <1>4, <2>2, <2>3
<1>7. /\ LogOK(mapped) /\ mapped.total <= 3 /\ mapped.total \in Nat
      /\ Open(mapped) => mapped.last = "StackMapped"
  <2>1. "StackMapped" \in Kinds
    BY DEF Kinds
  <2>2. /\ LogOK(mapped) /\ mapped.total <= Starting.total + 1
        /\ Open(mapped) => mapped.last = "StackMapped"
    BY <1>1, <1>6, <2>1, EventOK
  <2>3. mapped.total \in Nat
    BY <2>2 DEF LogOK, Logs
  <2> QED BY <1>6, <2>2, <2>3
<1> HIDE DEF mapped
<1>8. /\ LogOK(entered) /\ entered.total <= 4
      /\ Open(entered) => entered.last = "FunctionEnter"
  <2>1. "FunctionEnter" \in Kinds
    BY DEF Kinds
  <2>2. /\ LogOK(entered) /\ entered.total <= mapped.total + 1
        /\ Open(entered) => entered.last = "FunctionEnter"
    BY <1>1, <1>7, <2>1, EventOK
  <2>3. entered.total \in Nat
    BY <2>2 DEF LogOK, Logs
  <2> QED BY <1>7, <2>2, <2>3
<1> QED BY <1>6, <1>7, <1>8 DEF mapped

\* The counters at the start of a run: no function entered, or one.
LEMMA FirstUse ==
  ASSUME IInv
  PROVE  /\ UseOK(NoUse) /\ NoUse.blocks = 0 /\ NoUse.ops = 0 /\ NoUse.entries <= 1
         /\ UseOK(WithEntry(NoUse, 0)) /\ WithEntry(NoUse, 0).blocks = 0
         /\ WithEntry(NoUse, 0).ops = 0 /\ WithEntry(NoUse, 0).entries <= 1
<1>1. /\ budget.ops \in Nat /\ budget.slice \in Nat /\ budget.transfers \in Nat
      /\ budget.blocks \in Nat
  <2>1. budget \in Budgets
    BY DEF IInv, TypeOK
  <2> QED BY <2>1, BudgetIs
<1>2. UseOK(NoUse) /\ NoUse.blocks = 0 /\ NoUse.ops = 0 /\ NoUse.entries <= 1
  <2>1. /\ NoUse.ops = 0 /\ NoUse.blocks = 0 /\ NoUse.entries = 0 /\ NoUse.charged = 0
        /\ ~ NoUse.cut
    BY DEF NoUse
  <2>2. NoUse \in UseType
    <3>1. 0 \in Nat
      OBVIOUS
    <3> QED BY Zenon, <3>1 DEF NoUse, UseType
  <2> QED BY <1>1, <2>1, <2>2 DEF UseOK
<1> DEFINE u == WithEntry(NoUse, 0)
           c == NoUse.cut \/ NoUse.entries >= budget.blocks + 1
<1>3. u = [NoUse EXCEPT !.entries = @ + 1, !.charged = @ + 0, !.cut = c]
  BY DEF WithEntry
<1>4. c = FALSE
  <2>1. ~ (NoUse.entries >= budget.blocks + 1)
    BY <1>1 DEF NoUse
  <2>2. ~ NoUse.cut
    BY DEF NoUse
  <2> QED BY Zenon, <2>1, <2>2
<1> DEFINE n == NoUse.entries + 1
           m == NoUse.charged + 0
<1>5. n = 1 /\ m = 0
  BY DEF NoUse
<1>6. u = [NoUse EXCEPT !.entries = n, !.charged = m, !.cut = FALSE]
  BY <1>3, <1>4
<1> HIDE DEF n, m, c, u
<1>7. u \in UseType /\ u.ops = 0 /\ u.blocks = 0 /\ u.entries = 1 /\ u.charged = 0 /\ ~ u.cut
  <2>1. 0 \in Nat /\ 1 \in Nat
    OBVIOUS
  <2>2. u = [NoUse EXCEPT !.entries = 1, !.charged = 0, !.cut = FALSE]
    BY <1>5, <1>6
  <2>3. NoUse \in UseType /\ NoUse.ops = 0 /\ NoUse.blocks = 0
    BY <1>2 DEF UseOK, NoUse
  <2>4. /\ u.ops = NoUse.ops /\ u.blocks = NoUse.blocks /\ u.entries = 1 /\ u.charged = 0
        /\ u.cut = FALSE /\ u \in UseType
    BY Zenon, <2>1, <2>2, <2>3 DEF UseType
  <2> QED BY <2>3, <2>4
<1>8. UseOK(u)
  BY <1>1, <1>7 DEF UseOK
<1> QED BY <1>2, <1>7, <1>8 DEF u

\* Whatever the earlier run has left, its stack is released.
LEMMA StackReleased ==
  ASSUME IInv
  PROVE  ReleaseStack = 0
  BY DEF IInv, TypeOK, NoStackLeak, ReleaseStack

\* The state a run starts its loop with, or ends with before it.
LEMMA RunWell ==
  ASSUME IInv, Reset, current' \in Frames, FramesAgree', pc' \in Addresses,
         used' \in {NoUse, WithEntry(NoUse, 0)},
         LogOK(log)', EndIsExplained', running' \in BOOLEAN,
         outcome' \in StopReasons \cup {None, "EventLimitExceeded"},
         log'.total <= IF running' THEN 4 ELSE 6,
         current'.idx = 0, ~ current'.counted,
         stack' \in BOOLEAN, owned' \in Nat, NoStackLeak'
  PROVE  IInv'
<1>1. /\ budget' = budget /\ budget \in Budgets /\ runs' \in 0 .. MaxRuns /\ suspended' = <<>>
      /\ slice' = Fresh
  BY SessionAssumption DEF Reset, IInv, TypeOK
<1>2. /\ budget.ops \in Nat /\ budget.slice \in Nat \ {0} /\ budget.blocks \in Nat
      /\ budget.events \in Nat
  BY <1>1, BudgetIs
<1>3. UseOK(used') /\ used'.blocks = 0 /\ used'.ops = 0 /\ used'.entries <= 1
  BY FirstUse
<1>4. slice' \in [ops : Nat, blocks : Nat] /\ slice'.ops = 0 /\ slice'.blocks = 0
  BY <1>1 DEF Fresh
<1>5. used' \in UseType /\ ~ used'.cut /\ used'.charged <= budget.transfers
  BY <1>3 DEF UseOK
<1>6. log' \in Logs /\ log'.total \in Nat
  BY DEF LogOK, Logs
<1>7. TypeOK'
  <2>1. suspended' \in Seq(Frames)
    BY <1>1
  <2> QED BY Zenon, <1>1, <1>4, <1>5, <1>6, <2>1 DEF TypeOK, UseType
<1>8. BudgetsHold'
  <2>1. budget'.events # 0 => log'.total <= budget'.events
    BY DEF LogOK
  <2> QED BY <1>1, <1>2, <1>3, <1>4, <1>5, <2>1 DEF BudgetsHold
<1>9. BlocksPayForEverything'
  <2>1. log'.total <= 6 + 5 * used'.blocks
    BY <1>3, <1>6
  <2> QED BY <1>5, <2>1 DEF BlocksPayForEverything
<1>10. Working'
  <2>0. used'.blocks \in Nat
    BY <1>3
  <2>1. Credit' = used'.blocks
    BY <1>4, <2>0 DEF Credit
  <2> QED BY <1>1, <1>2, <1>3, <1>4, <1>6, <2>1 DEF Working
<1> QED BY <1>7, <1>8, <1>9, <1>10 DEF IInv

\* The frame of a session that has none.
LEMMA NoFrameIs ==
  /\ NoFrame \in Frames /\ NoFrame.idx = 0 /\ ~ NoFrame.counted
  /\ Elsewhere \in Addresses
  BY ZeroIsIdx DEF NoFrame, Frame, Frames, Addresses

\* A run refused its first events.
LEMMA RunUnloggedKeeps ==
  ASSUME IInv, RunUnlogged
  PROVE  IInv'
<1>1. /\ Reset /\ ~ Open(Starting) /\ current' = NoFrame /\ used' = NoUse /\ stack' = FALSE
      /\ owned' = ReleaseStack /\ Logged(Starting) /\ pc' = pc
  BY DEF RunUnlogged
<1>2. budget \in Budgets /\ budget' = budget /\ pc \in Addresses
  BY <1>1, CurrentIs DEF IInv, TypeOK, Reset
<1>3. /\ LogOK(Starting) /\ Starting.total <= 2
      /\ Open(Starting) => Starting.last # "SessionStop"
  BY StartingIs
<1>4. /\ LogOK(log)' /\ EndIsExplained' /\ log' = Starting /\ running' = FALSE
      /\ outcome' \in {None, "EventLimitExceeded"}
  BY <1>1, <1>2, <1>3, LoggedWell
<1>5. FramesAgree'
  BY <1>1, <1>4 DEF FramesAgree
<1>6. NoStackLeak' /\ owned' \in Nat
  BY <1>1, StackReleased DEF NoStackLeak
<1>7. log'.total <= IF running' THEN 4 ELSE 6
  BY <1>3, <1>4 DEF LogOK, Logs
<1> QED BY <1>1, <1>2, <1>4, <1>5, <1>6, <1>7, NoFrameIs, RunWell

\* A run that gets no stack.
LEMMA RunUnmappedKeeps ==
  ASSUME IInv, NEW reason \in SetupReasons, RunUnmapped(reason)
  PROVE  IInv'
<1>1. /\ Reset /\ current' = NoFrame /\ used' = NoUse /\ stack' = FALSE
      /\ owned' = ReleaseStack /\ Stop(Starting, reason) /\ pc' = pc
  BY DEF RunUnmapped
<1>2. budget \in Budgets /\ budget' = budget /\ pc \in Addresses
  BY <1>1, CurrentIs DEF IInv, TypeOK, Reset
<1>3. LogOK(Starting) /\ Starting.total <= 2
  BY StartingIs
<1>4. /\ LogOK(log)' /\ EndIsExplained' /\ running' = FALSE
      /\ outcome' \in StopReasons \cup {"EventLimitExceeded"}
      /\ log'.total <= Starting.total + 2
  <2>1. reason \in StopReasons
    BY DEF StopReasons
  <2> QED BY <1>1, <1>2, <1>3, <2>1, StopsWell
<1>5. FramesAgree'
  BY <1>1, <1>4 DEF FramesAgree
<1>6. NoStackLeak' /\ owned' \in Nat
  BY <1>1, StackReleased DEF NoStackLeak
<1>7. log'.total <= IF running' THEN 4 ELSE 6
  BY <1>3, <1>4 DEF LogOK, Logs
<1> QED BY <1>1, <1>2, <1>4, <1>5, <1>6, <1>7, NoFrameIs, RunWell

\* A run that maps its stack, and may enter its function.
LEMMA RunEntersKeeps ==
  ASSUME IInv, NEW entry \in Addresses, NEW liftable \in BOOLEAN, NEW reason,
         ~ liftable => reason \in StopReasons,
         RunEnters(entry, liftable, reason)
  PROVE  IInv'
<1> DEFINE mapped == Event(Starting, "StackMapped")
           entered == Event(mapped, "FunctionEnter")
<1>1. /\ LogOK(mapped) /\ mapped.total <= 3
      /\ Open(mapped) => mapped.last # "SessionStop"
      /\ LogOK(entered) /\ entered.total <= 4
      /\ Open(entered) => entered.last # "SessionStop"
  BY StartingIs
<1> HIDE DEF entered, mapped
<1>2. Reset /\ stack' = TRUE /\ owned' = ReleaseStack + 1
  BY DEF RunEnters
<1>3. budget \in Budgets /\ budget' = budget /\ suspended' = <<>> /\ pc \in Addresses
  BY <1>2, CurrentIs DEF IInv, TypeOK, Reset
<1>4. budget.depth \in Nat
  BY <1>3, BudgetIs
<1>5. NoStackLeak' /\ owned' \in Nat
  BY <1>2, StackReleased DEF NoStackLeak
<1>6. CASE /\ ~ Open(mapped) /\ current' = NoFrame /\ used' = NoUse /\ Logged(mapped)
           /\ pc' = pc
  <2>1. /\ LogOK(log)' /\ EndIsExplained' /\ log' = mapped /\ running' = FALSE
        /\ outcome' \in {None, "EventLimitExceeded"}
    BY <1>1, <1>3, <1>6, LoggedWell
  <2>2. FramesAgree'
    BY <1>6, <2>1 DEF FramesAgree
  <2>3. log'.total <= IF running' THEN 4 ELSE 6
    BY <1>1, <2>1 DEF LogOK, Logs
  <2> QED BY <1>2, <1>3, <1>5, <1>6, <2>1, <2>2, <2>3, NoFrameIs, RunWell
<1>7. CASE current' = Frame(entry, Sentinel, 0) /\ pc' = entry
  <2>1. /\ current' \in Frames /\ current'.idx = 0 /\ ~ current'.counted
        /\ current'.depth = 0 /\ current'.expected = Sentinel
    BY <1>7, ZeroIsIdx DEF Frame, Frames, Addresses
  <2>2. FramesAgree'
    BY <1>3, <1>4, <2>1 DEF FramesAgree
  <2>3. CASE used' = WithEntry(NoUse, 0) /\ Logged(entered)
    <3>1. /\ LogOK(log)' /\ EndIsExplained' /\ log' = entered /\ running' = Open(entered)
          /\ outcome' \in {None, "EventLimitExceeded"}
      BY <1>1, <1>3, <2>3, LoggedWell
    <3>2. log'.total <= IF running' THEN 4 ELSE 6
      BY <1>1, <3>1 DEF LogOK, Logs
    <3>3. running' \in BOOLEAN
      BY <3>1 DEF Open
    <3> QED BY <1>2, <1>5, <1>7, <2>1, <2>2, <2>3, <3>1, <3>2, <3>3, RunWell
  <2>4. CASE ~ liftable /\ used' = NoUse /\ Stop(mapped, reason)
    <3>1. /\ LogOK(log)' /\ EndIsExplained' /\ running' = FALSE
          /\ outcome' \in StopReasons \cup {"EventLimitExceeded"}
          /\ log'.total <= mapped.total + 2
      BY <1>1, <1>3, <2>4, StopsWell
    <3>2. log'.total <= IF running' THEN 4 ELSE 6
      BY <1>1, <3>1 DEF LogOK, Logs
    <3> QED BY <1>2, <1>5, <1>7, <2>1, <2>2, <2>4, <3>1, <3>2, RunWell
  <2>5. \/ used' = WithEntry(NoUse, 0) /\ Logged(entered)
        \/ ~ liftable /\ used' = NoUse /\ Stop(mapped, reason)
        \/ current' = NoFrame /\ ~ Open(mapped) /\ used' = NoUse /\ Logged(mapped) /\ pc' = pc
    BY DEF RunEnters, mapped, entered
  <2> QED BY <1>6, <2>3, <2>4, <2>5
<1> QED BY <1>6, <1>7 DEF RunEnters, mapped

\* Every start of a run, the first or a later one.
LEMMA RunKeeps ==
  ASSUME IInv, Run
  PROVE  IInv'
<1>1. CASE RunUnlogged
  BY <1>1, RunUnloggedKeeps
<1>2. ASSUME NEW reason \in SetupReasons, RunUnmapped(reason) PROVE IInv'
  BY <1>2, RunUnmappedKeeps
<1>3. ASSUME NEW entry \in Functions, RunEnters(entry, TRUE, None) PROVE IInv'
  BY <1>3, RunEntersKeeps DEF Addresses, Blocks
<1>4. ASSUME NEW reason \in EntryReasons, RunEnters(Elsewhere, FALSE, reason) PROVE IInv'
  <2>1. reason \in StopReasons
    BY DEF StopReasons
  <2> QED BY <1>4, <2>1, NoFrameIs, RunEntersKeeps
<1> QED BY <1>1, <1>2, <1>3, <1>4 DEF Run

\* What has run stays as it was when the session is destroyed.
LEMMA DestroyKeeps ==
  ASSUME IInv, Destroy
  PROVE  IInv'
<1>1. /\ ~ running /\ owned' = ReleaseStack /\ stack' = FALSE /\ runs' = MaxRuns
      /\ budget' = budget /\ running' = running /\ current' = current
      /\ suspended' = suspended /\ pc' = pc /\ slice' = slice /\ used' = used /\ log' = log
      /\ outcome' = outcome
  BY DEF Destroy
<1>2. NoStackLeak' /\ owned' \in Nat
  BY <1>1, StackReleased DEF NoStackLeak
<1>3. TypeOK'
  <2>1. runs' \in 0 .. MaxRuns
    BY <1>1, SessionAssumption
  <2> QED BY <1>1, <1>2, <2>1 DEF IInv, TypeOK
<1>4. FramesAgree'
  BY <1>1 DEF IInv, FramesAgree, Above
<1>5. LogOK(log)' /\ EndIsExplained'
  <2>1. LogOK(log) /\ EndIsExplained
    BY DEF IInv
  <2> QED BY <1>1, <2>1 DEF LogOK, EndIsExplained, Open
<1>6. BudgetsHold' /\ BlocksPayForEverything'
  <2>1. BudgetsHold /\ BlocksPayForEverything
    BY DEF IInv
  <2> QED BY <1>1, <2>1 DEF BudgetsHold, BlocksPayForEverything
<1>7. Working'
  BY <1>1 DEF Working
<1> QED BY <1>2, <1>3, <1>4, <1>5, <1>6, <1>7 DEF IInv

\* Nothing happens.
LEMMA StutterKeeps ==
  ASSUME IInv, UNCHANGED vars
  PROVE  IInv'
<1>1. /\ budget' = budget /\ running' = running /\ runs' = runs /\ current' = current
      /\ suspended' = suspended /\ pc' = pc /\ slice' = slice /\ used' = used /\ log' = log
      /\ outcome' = outcome /\ stack' = stack /\ owned' = owned
  BY DEF vars
<1>2. TypeOK' /\ NoStackLeak'
  BY <1>1 DEF IInv, TypeOK, NoStackLeak
<1>3. FramesAgree'
  BY <1>1 DEF IInv, FramesAgree, Above
<1>4. LogOK(log)' /\ EndIsExplained'
  <2>1. LogOK(log) /\ EndIsExplained
    BY DEF IInv
  <2> QED BY <1>1, <2>1 DEF LogOK, EndIsExplained, Open
<1>5. BudgetsHold' /\ BlocksPayForEverything'
  <2>1. BudgetsHold /\ BlocksPayForEverything
    BY DEF IInv
  <2> QED BY <1>1, <2>1 DEF BudgetsHold, BlocksPayForEverything
<1>6. Working'
  BY <1>1 DEF IInv, Working, Credit
<1> QED BY <1>2, <1>3, <1>4, <1>5, <1>6 DEF IInv

-----------------------------------------------------------------------------
(* The theorems. *)

\* A session that has not run.
LEMMA InitIs == Init => IInv
<1> SUFFICES ASSUME Init PROVE IInv
  OBVIOUS
<1>1. /\ budget \in Budgets /\ running = FALSE /\ runs = 0 /\ current = NoFrame
      /\ suspended = <<>> /\ pc = Elsewhere /\ slice = Fresh /\ used = NoUse /\ log = EmptyLog
      /\ outcome = None /\ stack = FALSE /\ owned = 0
  BY DEF Init
<1>2. /\ budget.ops \in Nat /\ budget.slice \in Nat /\ budget.transfers \in Nat
      /\ budget.blocks \in Nat /\ budget.history \in Nat /\ budget.events \in Nat
  BY <1>1, BudgetIs
<1>3. /\ log.total = 0 /\ log.kept = <<>> /\ ~ log.truncated /\ log.attempt = None
  BY <1>1 DEF EmptyLog
<1>4. log \in Logs
  <2>1. <<>> \in Seq(Nat) /\ 0 \in Nat
    OBVIOUS
  <2> QED BY Zenon, <1>1, <2>1 DEF EmptyLog, Logs
<1>5. LogOK(log)
  <2>1. Shaped(log, budget.history)
    BY <1>2, <1>3 DEF Shaped
  <2>2. Open(log)
    BY <1>3 DEF Open
  <2> QED BY <1>2, <1>3, <1>4, <2>1, <2>2 DEF LogOK
<1>6. used.ops = 0 /\ used.blocks = 0 /\ used.charged = 0 /\ ~ used.cut /\ slice.ops = 0
  BY <1>1 DEF NoUse, Fresh
<1>7. TypeOK
  <2>1. used \in UseType
    <3>1. 0 \in Nat
      OBVIOUS
    <3> QED BY Zenon, <1>1, <3>1 DEF NoUse, UseType
  <2>2. slice \in [ops : Nat, blocks : Nat] /\ runs \in 0 .. MaxRuns /\ owned \in Nat
        /\ suspended \in Seq(Frames)
    BY <1>1, SessionAssumption DEF Fresh
  <2> QED BY Zenon, <1>1, <1>4, <2>1, <2>2, NoFrameIs DEF TypeOK, UseType
<1>8. FramesAgree /\ EndIsExplained /\ NoStackLeak /\ Working
  BY <1>1 DEF FramesAgree, EndIsExplained, NoStackLeak, Working
<1>9. BudgetsHold /\ BlocksPayForEverything
  BY <1>2, <1>3, <1>6 DEF BudgetsHold, BlocksPayForEverything
<1> QED BY <1>5, <1>7, <1>8, <1>9 DEF IInv

\* One iteration of the loop of run.
LEMMA StepKeeps ==
  ASSUME IInv, Step
  PROVE  IInv'
<1>1. running /\ Frozen
  BY DEF Step
<1>2. CASE Op
  BY <1>1, <1>2, OpKeeps
<1>3. CASE LimitHit
  BY <1>1, <1>3, LimitHitKeeps
<1>4. ASSUME NEW block \in Blocks, Branch(block) PROVE IInv'
  BY <1>1, <1>4, BranchKeeps
<1>5. ASSUME NEW reason \in FaultReasons, Fault(reason) PROVE IInv'
  BY <1>1, <1>5, FaultKeeps
<1>6. CASE Boundary
  BY <1>1, <1>6, BoundaryKeeps
<1> QED BY <1>2, <1>3, <1>4, <1>5, <1>6 DEF Step

\* The call stack, the log, the counters and the stack mapping of a session are
\* in order together: none of the properties is inductive without the others.
THEOREM Inductive == Spec => []IInv
<1>1. Init => IInv
  BY InitIs
<1>2. IInv /\ [Next]_vars => IInv'
  BY RunKeeps, StepKeeps, DestroyKeeps, StutterKeeps DEF Next
<1> QED BY <1>1, <1>2, PTL DEF Spec

\* Whatever the guest does, the session keeps its types: every reason to stop is
\* one of the known ones and every frame one of the program.
THEOREM TypeCorrect == Spec => []TypeOK
<1>1. IInv => TypeOK
  BY DEF IInv
<1> QED BY <1>1, Inductive, PTL

\* The explicit call stack is always one the guest could have built: every
\* suspended frame waits at the start of the block the frame above must return to.
THEOREM FramesAlwaysAgree == Spec => []FramesAgree
<1>1. IInv => FramesAgree
  BY DEF IInv
<1> QED BY <1>1, Inductive, PTL

\* However many events a session records, what its report retains is their first
\* and their latest ones, without a gap in either part.
THEOREM HistoryKeepsShape == Spec => []HistoryShape
<1>1. IInv => HistoryShape
  BY DEF HistoryShape, LogOK, IInv
<1> QED BY <1>1, Inductive, PTL

\* Every event and every transition is paid for by a guest block, so that neither
\* outgrows the budget of guest blocks.
THEOREM EventsPaidFor == Spec => []BlocksPayForEverything
<1>1. IInv => BlocksPayForEverything
  BY DEF IInv
<1> QED BY <1>1, Inductive, PTL

\* No budget is ever exceeded, however the run is cut into slices; guest blocks by
\* no more than a slice holds.
THEOREM BudgetsNeverExceeded == Spec => []BudgetsHold
<1>1. IInv => BudgetsHold
  BY DEF IInv
<1> QED BY <1>1, Inductive, PTL

\* A run that has ended has recorded why, or names the event its limit refused.
THEOREM EndsExplained == Spec => []EndIsExplained
<1>1. IInv => EndIsExplained
  BY DEF IInv
<1> QED BY <1>1, Inductive, PTL

\* The session owns the stack mapping it holds the token of, and no other.
THEOREM NoLeak == Spec => []NoStackLeak
<1>1. IInv => NoStackLeak
  BY DEF IInv
<1> QED BY <1>1, Inductive, PTL

-----------------------------------------------------------------------------
(* Why every run ends. *)

\* An iteration of run's loop uses up a block that may be entered, or what is
\* left of the one that has been.
Advances ==
  \/ Unentered' < Unentered
  \/ Unentered' = Unentered /\ Unfinished' < Unfinished

\* Both measures are naturals while a run goes on, and a block that has been
\* entered has its terminator before it.
LEMMA MeasuresAre ==
  ASSUME IInv, running
  PROVE  /\ Unentered \in Nat
         /\ Unfinished \in Nat
         /\ current.counted => Unfinished = 1 + BlockOps - current.idx /\ Unfinished > 0
<1>1. /\ used.blocks \in Nat /\ slice.blocks \in Nat /\ slice.ops \in Nat
      /\ budget.blocks \in Nat /\ budget.slice \in Nat
  BY InLoop, LogNow, BudgetIs DEF UseType
<1>2. used.blocks <= budget.blocks /\ slice.blocks <= slice.ops /\ slice.ops < budget.slice
  BY DEF IInv, Working
<1>3. Unentered \in Nat
  BY <1>1, <1>2 DEF Unentered
<1>4. current.idx \in 0 .. BlockOps /\ BlockOps \in Nat
  BY CurrentIs, SessionAssumption
<1> QED BY <1>3, <1>4 DEF Unfinished

\* The block is charged once; after that only a place further on in it, or the
\* start of a block that is not charged yet, can follow.
LEMMA ChargedOnce ==
  ASSUME IInv, running, budget' = budget,
         used'.blocks \in Nat, slice'.blocks \in Nat,
         used'.blocks + slice'.blocks = used.blocks + Entered(slice).blocks,
         \/ ~ current'.counted
         \/ current'.counted /\ current'.idx = current.idx + 1 /\ current.idx < BlockOps
  PROVE  Advances
<1>1. /\ used.blocks \in Nat /\ slice \in [ops : Nat, blocks : Nat]
      /\ budget.blocks \in Nat /\ budget.slice \in Nat
  BY InLoop, LogNow, BudgetIs DEF UseType
<1>2. slice.blocks \in Nat /\ Entered(slice).blocks \in Nat
  BY <1>1, EnteredIs
<1>3. CASE ~ current.counted
  <2>1. Entered(slice) = [slice EXCEPT !.blocks = @ + 1]
    BY <1>3 DEF Entered
  <2>2. Entered(slice).blocks = slice.blocks + 1
    BY <1>1, <2>1
  <2>3. Unentered' < Unentered
    BY <1>1, <1>2, <2>2 DEF Unentered
  <2> QED BY <2>3 DEF Advances
<1>4. CASE current.counted
  <2>1. Entered(slice) = slice
    BY <1>4, EnteredIs
  <2>2. Unentered' = Unentered
    BY <1>1, <1>2, <2>1 DEF Unentered
  <2>3. Unfinished = 1 + BlockOps - current.idx /\ Unfinished > 0
    BY <1>4, MeasuresAre
  <2>4. current.idx \in Nat /\ BlockOps \in Nat
    BY CurrentIs, SessionAssumption
  <2>5. Unfinished' < Unfinished
    BY <2>3, <2>4 DEF Unfinished
  <2> QED BY <2>2, <2>5 DEF Advances
<1> QED BY <1>3, <1>4

\* A slice that goes on or yields keeps what it has counted.
LEMMA SliceCounted ==
  ASSUME IInv, running, NEW s \in [ops : Nat, blocks : Nat],
         SliceGoesOn(s) \/ SliceEnds(s, None)
  PROVE  /\ used'.blocks \in Nat /\ slice'.blocks \in Nat
         /\ used'.blocks + slice'.blocks = used.blocks + s.blocks
<1>1. used \in UseType /\ used.blocks \in Nat /\ s.blocks \in Nat
  BY InLoop DEF UseType
<1>2. CASE SliceGoesOn(s)
  BY <1>1, <1>2 DEF SliceGoesOn
<1>3. CASE SliceEnds(s, None)
  <2>1. slice' = Fresh /\ used' = Folded(s)
    BY <1>3 DEF SliceEnds
  <2>2. Fresh.blocks = 0 /\ Folded(s).blocks = used.blocks + s.blocks
    BY <1>1, FoldedIs DEF Fresh
  <2> QED BY <1>1, <2>1, <2>2
<1> QED BY <1>2, <1>3

\* A frame that goes on after a boundary does so at the start of a block, with
\* the block it leaves charged.
LEMMA BoundaryAdvances ==
  ASSUME IInv, running, budget' = budget, slice' = Fresh,
         ~ current'.counted, used'.blocks = Spent.blocks
  PROVE  Advances
<1>1. Spent.blocks \in Nat /\ Spent.blocks = Credit + 1
  BY SpentIs DEF UseOK, UseType
<1>2. used.blocks + Entered(slice).blocks = Credit + 1
  BY EnteredIs
<1>3. slice'.blocks = 0
  BY DEF Fresh
<1> QED BY <1>1, <1>2, <1>3, ChargedOnce

\* A run stopped is not running.
LEMMA StopStops ==
  ASSUME NEW l, NEW reason, Stop(l, reason)
  PROVE  ~ running'
  BY DEF Stop

\* What a dispatch that goes on leaves.
LEMMA DispatchAdvances ==
  ASSUME IInv, running, Frozen, running', slice' = Fresh, Spent.blocks <= budget.blocks, Dispatch
  PROVE  Advances
<1>1. budget' = budget
  BY DEF Frozen
<1>2. ASSUME NEW l, NEW target, NEW reason, EndsAt(l, target, reason) PROVE FALSE
  BY <1>2, StopStops DEF EndsAt
<1>3. ASSUME suspended # <<>>, Pop, used' = Spent PROVE Advances
  BY <1>1, <1>3, PopWell, BoundaryAdvances
<1>4. ASSUME NEW target \in Addresses, Return(target) PROVE Advances
  BY <1>2, <1>3, <1>4 DEF Return
<1>5. ASSUME NEW function \in Functions, NEW continuation \in Labels, Call(function, continuation)
      PROVE  Advances
  <2>1. /\ current' = Frame(function, continuation, Len(suspended'))
        /\ used' = WithEntry(Spent, 0)
    BY <1>2, <1>5 DEF Call
  <2>2. ~ current'.counted
    BY <2>1 DEF Frame
  <2>3. used'.blocks = Spent.blocks
    BY <2>1, EntryIs
  <2> QED BY <1>1, <2>2, <2>3, BoundaryAdvances
<1>6. ASSUME NEW function \in Functions, Transfer(function) PROVE Advances
  <2>1. /\ current' = Frame(function, current.expected, current.depth)
        /\ used' = WithEntry(Spent, 1)
        /\ Spent.charged < budget.transfers
    BY <1>2, <1>6 DEF Transfer
  <2>2. ~ current'.counted
    BY <2>1 DEF Frame
  <2>3. used'.blocks = Spent.blocks
    BY <2>1, EntryIs
  <2> QED BY <1>1, <2>2, <2>3, BoundaryAdvances
<1>7. ASSUME NEW reason, Refused(reason) \/ Trap(reason) \/ ImportUnhandled(reason)
      PROVE  Advances
  BY <1>2, <1>7 DEF Refused, Trap, ImportUnhandled
<1>8. ASSUME NEW continuation \in Labels, ImportCall(continuation) PROVE Advances
  <2>1. current' = ResumeAt(current, continuation) /\ used' = Spent
    BY <1>2, <1>8 DEF ImportCall
  <2>2. ~ current'.counted
    BY <2>1, CurrentIs, MovedIs DEF Blocks
  <2> QED BY <1>1, <2>1, <2>2, BoundaryAdvances
<1>9. CASE ImportTail
  BY <1>2, <1>3, <1>9 DEF ImportTail
<1> QED BY <1>4, <1>5, <1>6, <1>7, <1>8, <1>9 DEF Dispatch

\* One iteration that does not stop the run.
LEMMA StepAdvances ==
  ASSUME IInv, Step, running'
  PROVE  Advances
<1>1. running /\ Frozen /\ budget' = budget
  BY DEF Step, Frozen
<1>2. Entered(slice) \in [ops : Nat, blocks : Nat] /\ current \in Frames
      /\ current.idx \in 0 .. BlockOps
  BY <1>1, EnteredIs, CurrentIs
<1>3. CASE Op
  <2> DEFINE e == Entered(slice)
             m == e.ops + 1
             s == Stepped(slice)
  <2>1. /\ current.idx < BlockOps
        /\ current' = [current EXCEPT !.idx = @ + 1, !.counted = TRUE]
        /\ SliceGoesOn(s) \/ SliceEnds(s, None)
    BY <1>3 DEF Op
  <2>2. s = [e EXCEPT !.ops = m]
    BY DEF Stepped
  <2>3. e \in [ops : Nat, blocks : Nat] /\ m \in Nat
    BY <1>2
  <2> HIDE DEF s, e
  <2>4. s \in [ops : Nat, blocks : Nat] /\ s.blocks = e.blocks
    BY <2>2, <2>3
  <2>5. /\ used'.blocks \in Nat /\ slice'.blocks \in Nat
        /\ used'.blocks + slice'.blocks = used.blocks + e.blocks
    BY <1>1, <2>1, <2>4, SliceCounted
  <2>6. current'.counted /\ current'.idx = current.idx + 1
    BY <1>2, <2>1 DEF Frames
  <2> QED BY <1>1, <2>1, <2>5, <2>6, ChargedOnce DEF e
<1>4. CASE LimitHit
  BY <1>4, StopStops DEF LimitHit, SliceEnds, None
<1>5. ASSUME NEW block \in Blocks, Branch(block) PROVE Advances
  <2>1. /\ current' = ResumeAt(current, block)
        /\ SliceGoesOn(Entered(slice)) \/ SliceEnds(Entered(slice), None)
    BY <1>5 DEF Branch
  <2>2. ~ current'.counted
    BY <1>2, <2>1, MovedIs
  <2> QED BY <1>1, <1>2, <2>1, <2>2, SliceCounted, ChargedOnce
<1>6. ASSUME NEW reason \in FaultReasons, Fault(reason) PROVE Advances
  BY <1>6, StopStops DEF Fault
<1>7. CASE Boundary
  <2>1. ASSUME NEW target \in Addresses, BlockLimitHit(target) PROVE FALSE
    BY <2>1, StopStops DEF BlockLimitHit, EndsAt
  <2> QED BY <1>1, <1>7, <2>1, DispatchAdvances DEF Boundary
<1> QED BY <1>3, <1>4, <1>5, <1>6, <1>7 DEF Step

\* Every iteration of a run that goes on uses up one of finitely many blocks, or
\* of the operations of one: whatever the guest, no run loops for ever.
THEOREM RunsAdvance == Spec => RunAdvances
<1>1. ASSUME IInv, Next, running, running'
      PROVE  Unentered \in Nat /\ Unfinished \in Nat /\ Advances
  <2>1. ~ Run
    BY <1>1 DEF Run, RunUnlogged, RunUnmapped, RunEnters, Reset
  <2>2. ~ Destroy
    BY <1>1 DEF Destroy
  <2> QED BY <1>1, <2>1, <2>2, MeasuresAre, StepAdvances DEF Next
<1>2. IInv /\ [Next]_vars =>
        [running /\ running' => /\ Unentered \in Nat /\ Unfinished \in Nat
                                /\ \/ Unentered' < Unentered
                                   \/ Unentered' = Unentered /\ Unfinished' < Unfinished]_vars
  BY <1>1 DEF Advances
<1> QED BY <1>2, Inductive, PTL DEF Spec, RunAdvances

=============================================================================
