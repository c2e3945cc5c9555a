----------------------- MODULE ThreadLifecycle_proofs -----------------------
(***************************************************************************)
(* Proofs about ThreadLifecycle: what a thread's state says of its native    *)
(* thread, however many callers join, join all and destroy at a time, and    *)
(* why their calls end.                                                      *)
(***************************************************************************)
EXTENDS ThreadLifecycle, TLAPS

-----------------------------------------------------------------------------
(* The inductive invariant. *)

\* The state of a guest thread and the place of its native thread.
BodyMatches ==
  \A t \in Ids :
    /\ state[t] = "Created" => body[t] = "none" /\ ~joinable[t]
    /\ state[t] = "Running" => body[t] \in {"entry", "failed", "exiting"}
    /\ state[t] = "Exited" => body[t] \in {"exited", "ended"}
    /\ state[t] = "Joined" => body[t] = "ended"

\* A started thread stops being joinable only when its native thread has ended.
ReapedAfterEnd ==
  \A t \in Ids : ~joinable[t] /\ state[t] # "Created" => body[t] = "ended"

JoinedReaped == \A t \in Ids : state[t] = "Joined" => ~joinable[t]

\* Identifiers not handed out yet are unused, as long as the manager hands out any.
FreshIds ==
  phase \in {"alive", "joining"} =>
    /\ \A t \in Ids : t \notin Members => state[t] = "Created"
    /\ nextId # 0 => \A t \in Members : t < nextId

\* What a caller inside join has found of its target.
Sound(r) ==
  /\ r.pc \in {"check", "wait", "native", "mark", "reap", "free"} => r.target \in Ids
  /\ r.pc \in {"wait", "native"} => state[r.target] # "Created"
  /\ r.pc = "mark" => body[r.target] = "ended" /\ ~joinable[r.target]

\* What a join_all still owes is ahead of it.
Ahead(r, t) ==
  \/ state[t] = "Joined"
  \/ \E i \in 1 .. Len(r.todo) : r.todo[i] = t
  \/ r.pc # "loop" /\ r.target = t

Owes(r) ==
  r.all =>
    /\ r.pc # "idle"
    /\ \A t \in r.owed : state[t] # "Created" /\ Ahead(r, t)

CallsSound == \A c \in Callers : Sound(call[c]) /\ Owes(call[c])

\* Only the destructor is in ~GuestThread, of the first thread that is left.
AtHead ==
  /\ \A t \in Ids : call[t].pc \notin {"reap", "free"}
  /\ call[Host].pc \in {"reap", "free"} =>
       /\ phase \notin {"alive", "joining"}
       /\ threads # <<>>
       /\ call[Host].target = Head(threads)
       /\ ~call[Host].all

IInv ==
  /\ TypeOK
  /\ BodyMatches
  /\ ReapedAfterEnd
  /\ JoinedReaped
  /\ FreshIds
  /\ CallsSound
  /\ AtHead
  /\ IdsDistinct

-----------------------------------------------------------------------------
(* The initial state. *)

\* The counter after nextId: the next identifier, or 0 after the last one.
LEMMA Wraps ==
  ASSUME NEW n \in 0 .. MaxId
  PROVE  (n + 1) % (MaxId + 1) = IF n = MaxId THEN 0 ELSE n + 1
<1>1. MaxId \in Nat
  BY LifecycleAssumption
<1>2. CASE n = MaxId
  BY <1>1, <1>2
<1>3. CASE n # MaxId
  <2>1. n + 1 \in 0 .. MaxId
    BY <1>1, <1>3
  <2> QED
    BY <1>1, <1>3, <2>1
<1> QED
  BY <1>2, <1>3

LEMMA NoCallSound == NoCall \in Calls /\ ~NoCall.all /\ NoCall.pc = "idle"
BY DEF NoCall, Calls

LEMMA InitInv == Init => IInv
<1> SUFFICES ASSUME Init PROVE IInv
  OBVIOUS
<1>1. MaxId \in Nat
  BY LifecycleAssumption
<1>2. nextId \in 0 .. MaxId
  <2>1. 0 \in 0 .. MaxId
    BY <1>1
  <2> QED
    BY <1>1, <2>1, Wraps DEF Init
<1>3. TypeOK
  <2>1. call \in [Callers -> Calls]
    BY NoCallSound DEF Init
  <2>2. disturbed \in BOOLEAN
    BY DEF Init
  <2> QED
    BY <1>2, <2>1, <2>2 DEF Init, TypeOK
<1>4. Members = {}
  BY DEF Init, Members
<1>5. BodyMatches /\ ReapedAfterEnd /\ JoinedReaped /\ FreshIds
  BY <1>4 DEF Init, BodyMatches, ReapedAfterEnd, JoinedReaped, FreshIds
<1>6. CallsSound
  BY NoCallSound DEF Init, CallsSound, Sound, Owes
<1>7. AtHead /\ IdsDistinct
  BY NoCallSound DEF Init, AtHead, IdsDistinct, Callers
<1> QED
  BY <1>3, <1>5, <1>6, <1>7 DEF IInv

-----------------------------------------------------------------------------
(* Steps that only move a caller. *)

Others == <<nextId, threads, state, hasError, faulted, joinable, body>>

LEMMA CallMoves ==
  ASSUME IInv, NEW c \in Callers, NEW r \in Calls, call' = [call EXCEPT ![c] = r],
         UNCHANGED Others, disturbed' \in BOOLEAN,
         phase' \in {phase, "terminated"} \/ (phase = "alive" /\ phase' = "joining"),
         r.pc \in {"reap", "free"} =>
           /\ c = Host /\ phase' \notin {"alive", "joining"}
           /\ threads # <<>> /\ r.target = Head(threads) /\ ~r.all,
         Sound(r), Owes(r)
  PROVE  IInv'
<1> USE DEF Others
<1>1. TypeOK'
  BY DEF IInv, TypeOK
<1>2. BodyMatches' /\ ReapedAfterEnd' /\ JoinedReaped'
  BY DEF IInv, BodyMatches, ReapedAfterEnd, JoinedReaped
<1>3. FreshIds' /\ IdsDistinct'
  BY DEF IInv, FreshIds, Members, IdsDistinct
<1>4. CallsSound'
  <2> SUFFICES ASSUME NEW d \in Callers PROVE (Sound(call[d]) /\ Owes(call[d]))'
    BY DEF CallsSound
  <2>1. call'[d] = IF d = c THEN r ELSE call[d]
    BY DEF IInv, TypeOK
  <2>2. Sound(call[d]) /\ Owes(call[d])
    BY DEF IInv, CallsSound
  <2>3. Sound(call'[d]) /\ Owes(call'[d])
    BY <2>1, <2>2
  <2> QED
    BY <2>3 DEF Sound, Owes, Ahead
<1>5. AtHead'
  <2>1. /\ call'[Host] = IF Host = c THEN r ELSE call[Host]
        /\ \A t \in Ids : call'[t] = IF t = c THEN r ELSE call[t]
    BY DEF IInv, TypeOK, Callers
  <2>2. Host \notin Ids
    BY LifecycleAssumption DEF Host, Ids
  <2> QED
    BY <2>1, <2>2 DEF IInv, AtHead
<1> QED
  BY <1>1, <1>2, <1>3, <1>4, <1>5 DEF IInv

\* Steps after which the manager is asked nothing more.
LEMMA PhaseMoves ==
  ASSUME IInv, UNCHANGED <<Others, call>>, disturbed' \in BOOLEAN,
         phase' \in {"destroying", "gone", "terminated", "undefined"}
  PROVE  IInv'
<1> USE DEF Others
<1>1. TypeOK'
  BY DEF IInv, TypeOK
<1>2. BodyMatches' /\ ReapedAfterEnd' /\ JoinedReaped' /\ FreshIds' /\ IdsDistinct'
  BY DEF IInv, BodyMatches, ReapedAfterEnd, JoinedReaped, FreshIds, IdsDistinct
<1>3. CallsSound' /\ AtHead'
  BY DEF IInv, CallsSound, Sound, Owes, Ahead, AtHead
<1> QED
  BY <1>1, <1>2, <1>3 DEF IInv

LEMMA Idle ==
  ASSUME NEW r, r.pc = "idle", ~r.all
  PROVE  Sound(r) /\ Owes(r)
BY DEF Sound, Owes

LEMMA JoinInv ==
  ASSUME IInv, NEW c \in Callers, NEW t \in Ids, Join(c, t)
  PROVE  IInv'
<1> DEFINE r == [NoCall EXCEPT !.pc = "check", !.target = t]
<1>1. r \in Calls /\ r.pc = "check" /\ r.target \in Ids /\ ~r.all
  BY NoCallSound DEF Calls
<1>2. Sound(r) /\ Owes(r)
  BY <1>1 DEF Sound, Owes
<1> QED
  BY <1>1, <1>2, CallMoves DEF Join, NoteJoin, Others, IInv, TypeOK

LEMMA JoinCheckInv ==
  ASSUME IInv, NEW c \in Callers, JoinCheck(c)
  PROVE  IInv'
<1>1. call[c] \in Calls /\ Sound(call[c]) /\ Owes(call[c])
  BY DEF IInv, TypeOK, CallsSound
<1>2. CASE state[call[c].target] \in {"Created", "Joined"}
  <2> DEFINE r == [NoCall EXCEPT !.result = "refused"]
  <2>1. r \in Calls /\ r.pc = "idle" /\ ~r.all
    BY NoCallSound DEF Calls
  <2>2. call' = [call EXCEPT ![c] = r]
    BY <1>2 DEF JoinCheck, Return
  <2>3. Sound(r) /\ Owes(r)
    BY <2>1, Idle
  <2> HIDE DEF r
  <2> QED
    BY <2>1, <2>2, <2>3, CallMoves DEF JoinCheck, Others, IInv, TypeOK
<1>3. CASE state[call[c].target] \notin {"Created", "Joined"}
  <2> DEFINE r == [call[c] EXCEPT !.pc = "wait"]
  <2>1. call' = [call EXCEPT ![c] = r]
    BY <1>3 DEF JoinCheck
  <2>2. r \in Calls /\ Sound(r) /\ r.pc = "wait"
    BY <1>1, <1>3 DEF Calls, Sound, JoinCheck
  <2>3. Owes(r)
    BY <1>1 DEF Calls, Owes, Ahead, JoinCheck
  <2> HIDE DEF r
  <2> QED
    BY <2>1, <2>2, <2>3, CallMoves DEF JoinCheck, Others, IInv, TypeOK
<1> QED
  BY <1>2, <1>3

LEMMA JoinTestInv ==
  ASSUME IInv, NEW c \in Callers, JoinTest(c)
  PROVE  IInv'
<1> DEFINE r == [call[c] EXCEPT !.pc = IF joinable[call[c].target] THEN "native" ELSE "mark"]
<1>1. call[c] \in Calls /\ Sound(call[c]) /\ Owes(call[c])
  BY DEF IInv, TypeOK, CallsSound
<1>2. call[c].target \in Ids /\ state[call[c].target] # "Created"
  BY <1>1 DEF Sound, JoinTest
<1>3. r \in Calls /\ r.target = call[c].target /\ r.pc \in {"native", "mark"}
  BY <1>1 DEF Calls
<1>4. Sound(r)
  BY <1>1, <1>2 DEF Calls, Sound, IInv, ReapedAfterEnd
<1>5. Owes(r)
  BY <1>1 DEF Calls, Owes, Ahead, JoinTest
<1> HIDE DEF r
<1>6. call' = [call EXCEPT ![c] = r]
  BY DEF JoinTest, r
<1> QED
  BY <1>3, <1>4, <1>5, <1>6, CallMoves DEF JoinTest, Others, IInv, TypeOK

LEMMA JoinThrowsInv ==
  ASSUME IInv, NEW c \in Callers, JoinThrows(c)
  PROVE  IInv'
<1> DEFINE r == [NoCall EXCEPT !.result = "threw"]
<1>1. r \in Calls /\ r.pc = "idle" /\ ~r.all
  BY NoCallSound DEF Calls
<1>2. Sound(r) /\ Owes(r)
  BY <1>1, Idle
<1> QED
  BY <1>1, <1>2, CallMoves DEF JoinThrows, Others, IInv, TypeOK

LEMMA BeginLoopInv ==
  ASSUME IInv, NEW c \in Callers, BeginLoop(c), UNCHANGED Others, disturbed' \in BOOLEAN,
         phase' = phase \/ (phase = "alive" /\ phase' = "joining")
  PROVE  IInv'
<1> DEFINE o == {t \in Members : state[t] \in {"Running", "Exited"}}
           r == [NoCall EXCEPT !.pc = "loop", !.todo = threads, !.all = TRUE, !.owed = o]
<1>1. o \subseteq Ids
  BY DEF IInv, TypeOK, Members
<1>2. r \in Calls
  BY <1>1 DEF NoCall, Calls, IInv, TypeOK
<1>3. Sound(r) /\ r.pc = "loop"
  BY DEF NoCall, Sound
<1>4. Owes(r)
  <2>1. r.pc = "loop" /\ r.owed = o /\ r.todo = threads
    BY DEF NoCall
  <2>2. \A t \in o : state[t] # "Created" /\ \E i \in 1 .. Len(threads) : threads[i] = t
    BY DEF Members
  <2> HIDE DEF r, o
  <2> QED
    BY <2>1, <2>2 DEF Owes, Ahead
<1>5. call' = [call EXCEPT ![c] = r]
  BY DEF BeginLoop
<1> HIDE DEF r
<1> QED
  BY <1>2, <1>3, <1>4, <1>5, CallMoves

LEMMA JoinAllNextInv ==
  ASSUME IInv, NEW c \in Callers, JoinAllNext(c)
  PROVE  IInv'
<1>1. call[c] \in Calls /\ Sound(call[c]) /\ Owes(call[c])
  BY DEF IInv, TypeOK, CallsSound
<1>2. CASE call[c].todo = <<>>
  <2> DEFINE r == [NoCall EXCEPT !.result = "ok"]
  <2>1. r \in Calls /\ r.pc = "idle" /\ ~r.all
    BY NoCallSound DEF Calls
  <2>2. Sound(r) /\ Owes(r)
    BY <2>1, Idle
  <2>3. call' = [call EXCEPT ![c] = r]
    BY <1>2 DEF JoinAllNext
  <2> HIDE DEF r
  <2> QED
    BY <2>1, <2>2, <2>3, CallMoves DEF JoinAllNext, Others, IInv, TypeOK
<1>3. CASE call[c].todo # <<>>
  <2> DEFINE q == call[c].todo
             h == Head(q)
             started == state[h] \in {"Running", "Exited"}
             r == [call[c] EXCEPT !.todo = Tail(q), !.pc = IF started THEN "check" ELSE "loop",
                                  !.target = IF started THEN h ELSE 0]
  <2>1. q \in Seq(Ids) /\ q # <<>> /\ h = q[1] /\ h \in Ids
    BY <1>1, <1>3 DEF Calls
  <2>2. Len(q) \in Nat \ {0} /\ Tail(q) \in Seq(Ids) /\ Len(Tail(q)) = Len(q) - 1
    BY <2>1
  <2>3. \A i \in 1 .. Len(Tail(q)) : Tail(q)[i] = q[i + 1]
    BY <2>1
  <2>4. call' = [call EXCEPT ![c] = r]
    BY <1>3 DEF JoinAllNext
  <2>5. r \in Calls
    BY <1>1, <2>1, <2>2 DEF Calls
  <2>6. /\ r.pc = IF started THEN "check" ELSE "loop"
        /\ r.target = IF started THEN h ELSE 0
        /\ r.todo = Tail(q) /\ r.all = call[c].all /\ r.owed = call[c].owed
    BY <1>1 DEF Calls
  <2> HIDE DEF r
  <2>7. Sound(r)
    BY <2>1, <2>6 DEF Sound
  <2>8. Owes(r)
    <3> SUFFICES ASSUME call[c].all, NEW t \in call[c].owed
                 PROVE  state[t] # "Created" /\ Ahead(r, t)
      BY <2>6 DEF Owes
    <3>1. state[t] # "Created" /\ t \in Ids /\ Ahead(call[c], t) /\ call[c].pc = "loop"
      BY <1>1 DEF Owes, Calls, JoinAllNext
    <3>2. CASE state[t] = "Joined"
      BY <3>1, <3>2 DEF Ahead
    <3>3. CASE state[t] # "Joined"
      <4>1. PICK i \in 1 .. Len(q) : q[i] = t
        BY <3>1, <3>3 DEF Ahead
      <4>2. CASE i = 1
        <5>1. started
          BY <4>1, <4>2, <2>1, <3>1, <3>3 DEF IInv, TypeOK
        <5> QED
          BY <5>1, <4>1, <4>2, <2>1, <2>6, <3>1 DEF Ahead
      <4>3. CASE i # 1
        <5>1. i - 1 \in 1 .. Len(Tail(q))
          BY <4>1, <4>3, <2>2
        <5>2. Tail(q)[i - 1] = t
          BY <5>1, <2>3, <4>1
        <5> QED
          BY <5>1, <5>2, <2>6, <3>1 DEF Ahead
      <4> QED
        BY <4>2, <4>3
    <3> QED
      BY <3>2, <3>3
  <2>9. r.pc \notin {"reap", "free"}
    BY <2>6
  <2> QED
    BY <2>4, <2>5, <2>7, <2>8, <2>9, CallMoves DEF JoinAllNext, Others, IInv, TypeOK
<1> QED
  BY <1>2, <1>3

-----------------------------------------------------------------------------
(* Creation and start. *)

LEMMA CreateInv ==
  ASSUME IInv, NEW c \in Callers, Create(c)
  PROVE  IInv'
<1>1. MaxId \in Nat /\ nextId \in Ids /\ nextId # 0 /\ phase \in {"alive", "joining"}
  BY LifecycleAssumption DEF IInv, TypeOK, Create, Asks, Ids
<1>2. nextId \notin Members
  <2>1. \A t \in Members : t < nextId
    BY <1>1 DEF IInv, FreshIds
  <2> QED
    BY <1>1, <2>1 DEF Ids
<1>3. state' = state
  <2>1. state[nextId] = "Created"
    BY <1>1, <1>2 DEF IInv, FreshIds
  <2> QED
    BY <1>1, <2>1 DEF IInv, TypeOK, Create
<1>4. nextId' = IF nextId = MaxId THEN 0 ELSE nextId + 1
  BY <1>1, Wraps DEF Create, Ids
<1>5. threads \in Seq(Ids) /\ threads' = Append(threads, nextId) /\ threads' \in Seq(Ids)
  BY <1>1 DEF IInv, TypeOK, Create
<1>6. Members' = Members \cup {nextId}
  BY <1>5 DEF Members
<1>7. TypeOK'
  BY <1>1, <1>3, <1>4, <1>5 DEF IInv, TypeOK, Create
<1>8. BodyMatches' /\ ReapedAfterEnd' /\ JoinedReaped'
  BY <1>3 DEF IInv, BodyMatches, ReapedAfterEnd, JoinedReaped, Create
<1>9. FreshIds'
  <2>1. \A t \in Members : t < nextId /\ t \in Int
    BY <1>1 DEF IInv, FreshIds, TypeOK, Members, Ids
  <2>2. nextId' # 0 => \A t \in Members' : t < nextId'
    BY <1>1, <1>4, <1>6, <2>1 DEF Ids
  <2>3. \A t \in Ids : t \notin Members' => state'[t] = "Created"
    BY <1>1, <1>3, <1>6 DEF IInv, FreshIds
  <2> QED
    BY <2>2, <2>3 DEF FreshIds
<1>10. CallsSound'
  BY <1>3 DEF IInv, CallsSound, Sound, Owes, Ahead, Create
<1>11. AtHead'
  BY <1>1 DEF IInv, AtHead, Create
<1>12. IdsDistinct'
  <2>1. \A i \in 1 .. Len(threads) : threads'[i] = threads[i] /\ threads[i] # nextId
    BY <1>1, <1>2, <1>5 DEF Members
  <2>2. Len(threads') = Len(threads) + 1 /\ threads'[Len(threads')] = nextId /\ Len(threads) \in Nat
    BY <1>1, <1>5
  <2> QED
    BY <2>1, <2>2 DEF IInv, IdsDistinct
<1> QED
  BY <1>7, <1>8, <1>9, <1>10, <1>11, <1>12 DEF IInv

LEMMA CreateFailsInv ==
  ASSUME IInv, NEW c \in Callers, CreateFails(c)
  PROVE  IInv'
<1>1. MaxId \in Nat /\ nextId \in Ids /\ nextId # 0 /\ phase \in {"alive", "joining"}
  BY LifecycleAssumption DEF IInv, TypeOK, CreateFails, Asks, Ids
<1>2. nextId' = IF nextId = MaxId THEN 0 ELSE nextId + 1
  BY <1>1, Wraps DEF CreateFails, Ids
<1>3. TypeOK'
  BY <1>1, <1>2 DEF IInv, TypeOK, CreateFails, Ids
<1>4. BodyMatches' /\ ReapedAfterEnd' /\ JoinedReaped'
  BY DEF IInv, BodyMatches, ReapedAfterEnd, JoinedReaped, CreateFails
<1>5. FreshIds'
  <2>1. \A t \in Members : t < nextId /\ t \in Int
    BY <1>1 DEF IInv, FreshIds, TypeOK, Members, Ids
  <2>2. Members' = Members /\ state' = state
    BY DEF CreateFails, Members
  <2>3. nextId' # 0 => \A t \in Members' : t < nextId'
    BY <1>1, <1>2, <2>1, <2>2 DEF Ids
  <2>4. \A t \in Ids : t \notin Members' => state'[t] = "Created"
    BY <1>1, <2>2 DEF IInv, FreshIds
  <2> QED
    BY <2>3, <2>4 DEF FreshIds
<1>6. CallsSound'
  BY DEF IInv, CallsSound, Sound, Owes, Ahead, CreateFails
<1>7. AtHead' /\ IdsDistinct'
  BY DEF IInv, AtHead, IdsDistinct, CreateFails
<1> QED
  BY <1>3, <1>4, <1>5, <1>6, <1>7 DEF IInv

LEMMA StartInv ==
  ASSUME IInv, NEW c \in Callers, NEW t \in Ids, Start(c, t)
  PROVE  IInv'
<1> USE DEF Start
<1>1. TypeOK'
  BY DEF IInv, TypeOK, NoteLate
<1>2. BodyMatches' /\ ReapedAfterEnd' /\ JoinedReaped'
  BY DEF IInv, TypeOK, BodyMatches, ReapedAfterEnd, JoinedReaped
<1>3. FreshIds'
  BY DEF IInv, TypeOK, FreshIds, Members
<1>4. CallsSound'
  <2> SUFFICES ASSUME NEW d \in Callers PROVE (Sound(call[d]) /\ Owes(call[d]))'
    BY DEF CallsSound
  <2>1. Sound(call[d]) /\ Owes(call[d]) /\ call'[d] = call[d] /\ call[d] \in Calls
    BY DEF IInv, CallsSound, TypeOK
  <2>2. /\ state \in [Ids -> {"Created", "Running", "Exited", "Joined"}]
        /\ joinable \in [Ids -> BOOLEAN] /\ DOMAIN body = Ids
    BY DEF IInv, TypeOK
  <2>3. state[t] = "Created" /\ body[t] = "none"
    BY DEF IInv, BodyMatches
  <2>4. Sound(call[d])'
    BY <2>1, <2>2, <2>3 DEF Sound
  <2>5. Owes(call[d])'
    BY <2>1, <2>2, <2>3 DEF Owes, Ahead, Calls
  <2> QED
    BY <2>4, <2>5
<1>5. AtHead' /\ IdsDistinct'
  BY DEF IInv, AtHead, IdsDistinct
<1> QED
  BY <1>1, <1>2, <1>3, <1>4, <1>5 DEF IInv

-----------------------------------------------------------------------------
(* The native thread. *)

\* A native thread that has not ended is not marked by any caller; what it
\* does keeps every caller's findings as long as its state only moves on.
LEMMA RunMoves ==
  ASSUME IInv, NEW t \in Ids, NEW s \in {"Running", "Exited"},
         NEW b \in {"failed", "exiting", "exited", "ended"},
         body[t] \in {"entry", "failed", "exiting", "exited"},
         state' = [state EXCEPT ![t] = s], body' = [body EXCEPT ![t] = b],
         s = "Running" => state[t] = "Running" /\ b \in {"failed", "exiting"},
         s = "Exited" => b \in {"exited", "ended"},
         state[t] \in {"Running", "Exited"},
         hasError' \in [Ids -> BOOLEAN],
         \/ call' = call
         \/ call[t].pc = "idle" /\ call' = [call EXCEPT ![t] = NoCall],
         UNCHANGED <<nextId, threads, faulted, joinable, phase, disturbed>>
  PROVE  IInv'
<1>1. TypeOK'
  BY NoCallSound DEF IInv, TypeOK
<1>2. BodyMatches'
  BY DEF IInv, TypeOK, BodyMatches
<1>3. joinable[t]
  BY DEF IInv, ReapedAfterEnd
<1>4. ReapedAfterEnd' /\ JoinedReaped'
  BY <1>3 DEF IInv, TypeOK, ReapedAfterEnd, JoinedReaped
<1>5. FreshIds'
  BY DEF IInv, TypeOK, FreshIds, Members
<1>6. CallsSound'
  <2> SUFFICES ASSUME NEW d \in Callers PROVE (Sound(call[d]) /\ Owes(call[d]))'
    BY DEF CallsSound
  <2>1. Sound(call'[d]) /\ Owes(call'[d]) /\ call'[d] \in Calls
    BY NoCallSound, Idle DEF IInv, CallsSound, TypeOK
  <2>2. /\ state \in [Ids -> {"Created", "Running", "Exited", "Joined"}]
        /\ DOMAIN body = Ids
    BY DEF IInv, TypeOK
  <2>3. Sound(call[d])'
    BY <1>3, <2>1, <2>2 DEF Sound
  <2>4. Owes(call[d])'
    BY <2>1, <2>2 DEF Owes, Ahead, Calls
  <2> QED
    BY <2>3, <2>4
<1>7. AtHead' /\ IdsDistinct'
  <2>1. Host \notin Ids
    BY LifecycleAssumption DEF Host, Ids
  <2>2. \A d \in Callers : call'[d] = call[d] \/ (d = t /\ call'[d].pc = "idle")
    BY NoCallSound DEF IInv, TypeOK, Callers
  <2> QED
    BY <2>1, <2>2 DEF IInv, AtHead, IdsDistinct, Callers
<1> QED
  BY <1>1, <1>2, <1>4, <1>5, <1>6, <1>7 DEF IInv

LEMMA GuestFaultInv ==
  ASSUME IInv, NEW t \in Ids, GuestFault(t)
  PROVE  IInv'
<1>1. TypeOK'
  BY DEF IInv, TypeOK, GuestFault
<1>2. BodyMatches' /\ ReapedAfterEnd' /\ JoinedReaped' /\ FreshIds'
  BY DEF IInv, BodyMatches, ReapedAfterEnd, JoinedReaped, FreshIds, Members, GuestFault
<1>3. CallsSound'
  BY DEF IInv, CallsSound, Sound, Owes, Ahead, GuestFault
<1>4. AtHead' /\ IdsDistinct'
  BY DEF IInv, AtHead, IdsDistinct, GuestFault
<1> QED
  BY <1>1, <1>2, <1>3, <1>4 DEF IInv

LEMMA EntryReturnsInv ==
  ASSUME IInv, NEW t \in Ids, EntryReturns(t)
  PROVE  IInv'
<1>1. PICK next \in {"exiting", "failed"} : body' = [body EXCEPT ![t] = next]
  BY DEF EntryReturns
<1>2. state[t] = "Running" /\ body[t] = "entry" /\ call[t].pc = "idle"
  BY DEF IInv, TypeOK, BodyMatches, EntryReturns
<1>3. state' = [state EXCEPT ![t] = "Running"] /\ hasError' \in [Ids -> BOOLEAN]
  BY <1>2 DEF IInv, TypeOK, EntryReturns
<1> QED
  BY <1>1, <1>2, <1>3, RunMoves DEF EntryReturns

LEMMA RecordErrorInv ==
  ASSUME IInv, NEW t \in Ids, RecordError(t)
  PROVE  IInv'
<1>1. state[t] = "Running" /\ body[t] = "failed"
  BY DEF IInv, TypeOK, BodyMatches, RecordError
<1>2. state' = [state EXCEPT ![t] = "Running"] /\ hasError' \in [Ids -> BOOLEAN]
  BY <1>1 DEF IInv, TypeOK, RecordError
<1> QED
  BY <1>1, <1>2, RunMoves DEF RecordError

LEMMA MarkExitedInv ==
  ASSUME IInv, NEW t \in Ids, MarkExited(t)
  PROVE  IInv'
<1>1. state[t] = "Running" /\ body[t] = "exiting" /\ hasError' \in [Ids -> BOOLEAN]
  BY DEF IInv, TypeOK, BodyMatches, MarkExited
<1> QED
  BY <1>1, RunMoves DEF MarkExited

LEMMA NativeEndsInv ==
  ASSUME IInv, NEW t \in Ids, NativeEnds(t)
  PROVE  IInv'
<1>1. state[t] = "Exited" /\ body[t] = "exited"
  BY DEF IInv, TypeOK, BodyMatches, NativeEnds
<1>2. state' = [state EXCEPT ![t] = "Exited"] /\ hasError' \in [Ids -> BOOLEAN]
  BY <1>1 DEF IInv, TypeOK, NativeEnds
<1> QED
  BY <1>1, <1>2, RunMoves DEF NativeEnds

-----------------------------------------------------------------------------
(* Reaping a native thread, and marking it joined. *)

\* worker_.join() returns, in join or in ~GuestThread.
LEMMA ReapInv ==
  ASSUME IInv, NEW c \in Callers, NEW r \in Calls, NEW t, t = call[c].target,
         body[t] = "ended", joinable' = [joinable EXCEPT ![t] = FALSE],
         call' = [call EXCEPT ![c] = r],
         \/ call[c].pc = "native" /\ r.pc = "mark"
         \/ call[c].pc = "reap" /\ r.pc = "free" /\ c = Host,
         r.target = t, r.todo = call[c].todo, r.all = call[c].all, r.owed = call[c].owed,
         UNCHANGED <<nextId, threads, state, hasError, faulted, body, phase, disturbed>>
  PROVE  IInv'
<1>1. call[c] \in Calls /\ Sound(call[c]) /\ Owes(call[c])
  BY DEF IInv, TypeOK, CallsSound
<1>2. t \in Ids /\ state[t] \in {"Exited", "Joined"}
  BY <1>1 DEF Sound, IInv, TypeOK, BodyMatches
<1>3. TypeOK'
  BY <1>2 DEF IInv, TypeOK
<1>4. BodyMatches' /\ ReapedAfterEnd' /\ JoinedReaped'
  BY <1>2 DEF IInv, TypeOK, BodyMatches, ReapedAfterEnd, JoinedReaped
<1>5. FreshIds' /\ IdsDistinct'
  BY DEF IInv, FreshIds, Members, IdsDistinct
<1>6. CallsSound'
  <2> SUFFICES ASSUME NEW d \in Callers PROVE (Sound(call[d]) /\ Owes(call[d]))'
    BY DEF CallsSound
  <2>1. Sound(call[d]) /\ Owes(call[d]) /\ call[d] \in Calls
    BY DEF IInv, CallsSound, TypeOK
  <2>2. call'[d] = IF d = c THEN r ELSE call[d]
    BY DEF IInv, TypeOK
  <2>3. joinable' \in [Ids -> BOOLEAN] /\ joinable'[t] = FALSE
        /\ \A u \in Ids : joinable'[u] => joinable[u]
    BY <1>2 DEF IInv, TypeOK
  <2>4. Owes(call[d])'
    BY <1>1, <2>1, <2>2 DEF Owes, Ahead
  <2>5. Sound(call[d])'
    <3>1. CASE d = c
      BY <1>2, <2>2, <2>3, <3>1 DEF Sound
    <3>2. CASE d # c
      BY <2>1, <2>2, <2>3, <3>2 DEF Sound
    <3> QED
      BY <3>1, <3>2
  <2> QED
    BY <2>4, <2>5
<1>7. AtHead'
  <2>1. /\ call'[Host] = IF Host = c THEN r ELSE call[Host]
        /\ \A u \in Ids : call'[u] = IF u = c THEN r ELSE call[u]
    BY DEF IInv, TypeOK, Callers
  <2>2. Host \notin Ids
    BY LifecycleAssumption DEF Host, Ids
  <2> QED
    BY <2>1, <2>2 DEF IInv, AtHead
<1> QED
  BY <1>3, <1>4, <1>5, <1>6, <1>7 DEF IInv

LEMMA JoinNativeInv ==
  ASSUME IInv, NEW c \in Callers, JoinNative(c)
  PROVE  IInv'
<1> DEFINE r == [call[c] EXCEPT !.pc = "mark"]
<1>1. /\ r \in Calls /\ r.pc = "mark" /\ r.target = call[c].target
      /\ r.todo = call[c].todo /\ r.all = call[c].all /\ r.owed = call[c].owed
  BY DEF Calls, IInv, TypeOK
<1>2. call' = [call EXCEPT ![c] = r]
  BY DEF JoinNative
<1> HIDE DEF r
<1> QED
  BY <1>1, <1>2, ReapInv DEF JoinNative

LEMMA JoinMarkInv ==
  ASSUME IInv, NEW c \in Callers, JoinMark(c)
  PROVE  IInv'
<1> DEFINE t == call[c].target
           r == IF call[c].all THEN [call[c] EXCEPT !.pc = "loop", !.target = 0]
                               ELSE [NoCall EXCEPT !.result = "ok"]
<1>1. call[c] \in Calls /\ Sound(call[c]) /\ Owes(call[c])
  BY DEF IInv, TypeOK, CallsSound
<1>2. t \in Ids /\ body[t] = "ended" /\ ~joinable[t] /\ state[t] \in {"Exited", "Joined"}
  BY <1>1 DEF Sound, JoinMark, IInv, TypeOK, BodyMatches
<1>3. /\ r \in Calls /\ r.pc \in {"idle", "loop"} /\ r.all = call[c].all
      /\ r.all => r.pc = "loop" /\ r.todo = call[c].todo /\ r.owed = call[c].owed
  <2>1. CASE call[c].all
    BY <1>1, <2>1 DEF Calls
  <2>2. CASE ~call[c].all
    <3> DEFINE k == [NoCall EXCEPT !.result = "ok"]
    <3>1. k \in Calls /\ k.pc = "idle" /\ ~k.all
      BY NoCallSound DEF Calls
    <3>2. r = k
      BY <2>2
    <3> HIDE DEF k, r
    <3> QED
      BY <1>1, <2>2, <3>1, <3>2 DEF Calls
  <2> QED
    BY <2>1, <2>2
<1>4. call' = [call EXCEPT ![c] = r] /\ state' = [state EXCEPT ![t] = "Joined"]
  BY DEF JoinMark, Return
<1> HIDE DEF r
<1>5. TypeOK'
  BY <1>2, <1>3, <1>4 DEF IInv, TypeOK, JoinMark
<1>6. BodyMatches' /\ ReapedAfterEnd' /\ JoinedReaped'
  BY <1>2, <1>4 DEF IInv, TypeOK, BodyMatches, ReapedAfterEnd, JoinedReaped, JoinMark
<1>7. FreshIds'
  BY <1>2, <1>4 DEF IInv, TypeOK, FreshIds, BodyMatches, Members, JoinMark
<1>8. CallsSound'
  <2> SUFFICES ASSUME NEW d \in Callers PROVE (Sound(call[d]) /\ Owes(call[d]))'
    BY DEF CallsSound
  <2>1. Sound(call[d]) /\ Owes(call[d]) /\ call[d] \in Calls
    BY DEF IInv, CallsSound, TypeOK
  <2>2. call'[d] = IF d = c THEN r ELSE call[d]
    BY <1>4 DEF IInv, TypeOK
  <2>3. /\ state' \in [Ids -> {"Created", "Running", "Exited", "Joined"}]
        /\ state'[t] = "Joined"
        /\ \A u \in Ids : u # t => state'[u] = state[u]
    BY <1>2, <1>4 DEF IInv, TypeOK
  <2>4. CASE d = c
    <3>1. Sound(call[d])'
      BY <1>3, <2>2, <2>4 DEF Sound
    <3>2. Owes(call[d])'
      <4> SUFFICES ASSUME r.all, NEW u \in r.owed
                   PROVE  state'[u] # "Created" /\ Ahead(call[d], u)'
        BY <1>3, <2>2, <2>4 DEF Owes
      <4>1. u \in Ids /\ state[u] # "Created" /\ Ahead(call[c], u) /\ r.todo = call[c].todo
        BY <1>1, <1>3 DEF Owes, Calls
      <4> HIDE DEF t
      <4>2. CASE u = t
        BY <2>3, <4>2 DEF Ahead
      <4>3. CASE u # t
        BY <2>2, <2>3, <2>4, <4>1, <4>3 DEF Ahead, t
      <4> QED
        BY <4>2, <4>3
    <3> QED
      BY <3>1, <3>2
  <2>5. CASE d # c
    <3> HIDE DEF t
    <3>1. call'[d] = call[d]
      BY <2>2, <2>5
    <3>2. Sound(call[d])'
      BY <1>2, <2>1, <2>3, <3>1 DEF Sound, JoinMark
    <3>3. Owes(call[d])'
      BY <1>2, <2>1, <2>3, <3>1 DEF Owes, Ahead, Calls
    <3> QED
      BY <3>2, <3>3
  <2> QED
    BY <2>4, <2>5
<1>9. AtHead' /\ IdsDistinct'
  <2>1. /\ call'[Host] = IF Host = c THEN r ELSE call[Host]
        /\ \A u \in Ids : call'[u] = IF u = c THEN r ELSE call[u]
    BY <1>4 DEF IInv, TypeOK, Callers
  <2> QED
    BY <1>3, <2>1 DEF IInv, AtHead, IdsDistinct, JoinMark
<1> QED
  BY <1>5, <1>6, <1>7, <1>8, <1>9 DEF IInv

-----------------------------------------------------------------------------
(* The destruction of the manager. *)

LEMMA DestroyInv ==
  ASSUME IInv, Destroy
  PROVE  IInv'
BY BeginLoopInv DEF Destroy, MayCall, Others, Callers

LEMMA DestroyTestInv ==
  ASSUME IInv, DestroyTest
  PROVE  IInv'
<1> DEFINE h == Head(threads)
           r == [call[Host] EXCEPT !.pc = IF joinable[h] THEN "reap" ELSE "free", !.target = h]
<1>1. Host \in Callers /\ call[Host] \in Calls /\ Owes(call[Host]) /\ call[Host].pc = "idle"
  BY DEF IInv, TypeOK, CallsSound, DestroyTest, AtThread, Callers
<1>2. h \in Ids
  BY DEF IInv, TypeOK, DestroyTest
<1>3. r \in Calls /\ r.pc \in {"reap", "free"} /\ r.target = h /\ r.all = call[Host].all
  BY <1>1, <1>2 DEF Calls
<1>4. call' = [call EXCEPT ![Host] = r]
  BY DEF DestroyTest
<1> HIDE DEF r
<1>5. Sound(r) /\ Owes(r)
  BY <1>1, <1>2, <1>3 DEF Sound, Owes
<1>6. ~r.all
  BY <1>1, <1>3 DEF Owes
<1> QED
  BY <1>1, <1>3, <1>4, <1>5, <1>6, CallMoves DEF DestroyTest, AtThread, Others, IInv, TypeOK

LEMMA DestroyJoinInv ==
  ASSUME IInv, DestroyJoin
  PROVE  IInv'
<1> DEFINE r == [call[Host] EXCEPT !.pc = "free"]
<1> call[Host] \in Calls
  BY DEF IInv, TypeOK, Callers
<1>1. /\ r \in Calls /\ r.pc = "free" /\ r.target = call[Host].target
      /\ r.todo = call[Host].todo /\ r.all = call[Host].all /\ r.owed = call[Host].owed
  BY DEF Calls
<1>2. call' = [call EXCEPT ![Host] = r] /\ Host \in Callers
  BY DEF DestroyJoin, Callers
<1> HIDE DEF r
<1> QED
  BY <1>1, <1>2, ReapInv DEF DestroyJoin, AtThread

LEMMA DestroyGuestInv ==
  ASSUME IInv, DestroyGuest
  PROVE  IInv'
<1> DEFINE r == [call[Host] EXCEPT !.pc = "idle", !.target = 0]
<1>1. Host \in Callers /\ call[Host] \in Calls /\ ~call[Host].all /\ call[Host].pc = "free"
  BY DEF IInv, TypeOK, AtHead, DestroyGuest, AtThread, Callers
<1>2. threads \in Seq(Ids) /\ threads # <<>>
  BY <1>1 DEF IInv, TypeOK, AtHead
<1>3. r \in Calls /\ r.pc = "idle" /\ r.all = call[Host].all
  BY <1>1 DEF Calls
<1>4. call' = [call EXCEPT ![Host] = r]
  BY DEF DestroyGuest
<1>5. /\ Tail(threads) \in Seq(Ids) /\ Len(threads) \in Nat \ {0}
      /\ Len(Tail(threads)) = Len(threads) - 1
      /\ \A i \in 1 .. Len(Tail(threads)) : Tail(threads)[i] = threads[i + 1]
  BY <1>2
<1> HIDE DEF r
<1>6. TypeOK'
  BY <1>3, <1>4, <1>5 DEF IInv, TypeOK, DestroyGuest
<1>7. BodyMatches' /\ ReapedAfterEnd' /\ JoinedReaped' /\ FreshIds'
  BY DEF IInv, BodyMatches, ReapedAfterEnd, JoinedReaped, FreshIds, DestroyGuest, AtThread
<1>8. \A d \in Callers : call'[d] = IF d = Host THEN r ELSE call[d]
  BY <1>4 DEF IInv, TypeOK
<1>9. CallsSound'
  <2> SUFFICES ASSUME NEW d \in Callers PROVE (Sound(call[d]) /\ Owes(call[d]))'
    BY DEF CallsSound
  <2>1. Sound(call'[d]) /\ Owes(call'[d])
    BY <1>1, <1>3, <1>8 DEF IInv, CallsSound, Sound, Owes
  <2> QED
    BY <2>1 DEF Sound, Owes, Ahead, DestroyGuest
<1>10. AtHead'
  <2>1. Host \notin Ids
    BY LifecycleAssumption DEF Host, Ids
  <2> QED
    BY <1>1, <1>3, <1>8, <2>1 DEF IInv, AtHead, Callers
<1>11. IdsDistinct'
  <2>1. threads' = Tail(threads)
    BY DEF DestroyGuest
  <2> QED
    BY <1>5, <2>1 DEF IInv, IdsDistinct
<1> QED
  BY <1>6, <1>7, <1>9, <1>10, <1>11 DEF IInv

LEMMA DestructionInv ==
  ASSUME IInv, Destruction
  PROVE  IInv'
<1>1. CASE DestroyMembers \/ DestroyFails \/ Gone
  BY <1>1, PhaseMoves DEF DestroyMembers, DestroyFails, Gone, Others, IInv, TypeOK
<1> QED
  BY <1>1, DestroyTestInv, DestroyJoinInv, DestroyGuestInv DEF Destruction

\* What a callback does to what is destroyed.
LEMMA UndefinedInv ==
  ASSUME IInv, NEW c \in Callers, UseDestroyed(c) \/ CallDestroyed(c)
  PROVE  IInv'
BY PhaseMoves DEF UseDestroyed, CallDestroyed, NoteLate, Others, IInv, TypeOK

LEMMA StutterInv ==
  ASSUME IInv, UNCHANGED vars
  PROVE  IInv'
<1> USE DEF vars
<1>1. TypeOK'
  BY DEF IInv, TypeOK
<1>2. BodyMatches' /\ ReapedAfterEnd' /\ JoinedReaped' /\ FreshIds' /\ IdsDistinct'
  BY DEF IInv, BodyMatches, ReapedAfterEnd, JoinedReaped, FreshIds, Members, IdsDistinct
<1>3. CallsSound' /\ AtHead'
  BY DEF IInv, CallsSound, Sound, Owes, Ahead, AtHead
<1> QED
  BY <1>1, <1>2, <1>3 DEF IInv

\* Every step of a caller, a native thread and the manager keeps the invariant.
LEMMA StepInv ==
  ASSUME IInv, [Next]_vars
  PROVE  IInv'
<1>1. ASSUME NEW c \in Callers, Create(c) PROVE IInv'
  BY <1>1, CreateInv
<1>2. ASSUME NEW c \in Callers, CreateFails(c) PROVE IInv'
  BY <1>2, CreateFailsInv
<1>3. ASSUME NEW c \in Callers, NEW t \in Ids, Start(c, t) PROVE IInv'
  BY <1>3, StartInv
<1>4. ASSUME NEW c \in Callers, NEW t \in Ids, Join(c, t) PROVE IInv'
  BY <1>4, JoinInv
<1>5. ASSUME NEW c \in Callers, JoinAll(c) PROVE IInv'
  BY <1>5, BeginLoopInv DEF JoinAll, NoteJoin, Others, IInv, TypeOK
<1>6. ASSUME NEW c \in Callers, InCall(c) PROVE IInv'
  BY <1>6, JoinCheckInv, JoinTestInv, JoinNativeInv, JoinThrowsInv, JoinMarkInv, JoinAllNextInv,
     UndefinedInv DEF InCall
<1>7. ASSUME NEW t \in Ids, Run(t) PROVE IInv'
  BY <1>7, GuestFaultInv, EntryReturnsInv, RecordErrorInv, MarkExitedInv, NativeEndsInv DEF Run
<1>8. CASE Destroy \/ Destruction
  BY <1>8, DestroyInv, DestructionInv
<1>9. ASSUME NEW c \in Callers, CallDestroyed(c) PROVE IInv'
  BY <1>9, UndefinedInv
<1>10. CASE Finished \/ UNCHANGED vars
  BY <1>10, StutterInv DEF Finished
<1> QED
  BY <1>1, <1>2, <1>3, <1>4, <1>5, <1>6, <1>7, <1>8, <1>9, <1>10 DEF Next

LEMMA Invariant == Spec => []IInv
BY InitInv, StepInv, PTL DEF Spec

-----------------------------------------------------------------------------
(* The properties. *)

\* Every variable keeps its type, for any number of threads and of joiners.
THEOREM TypeCorrect == Spec => []TypeOK
BY Invariant, PTL DEF IInv

\* Identifiers are handed out once, although the counter wraps and a failed
\* allocation uses one up: find returns the thread that create did
\* (ThreadManager::create).
THEOREM IdsUnique == Spec => []IdsDistinct
BY Invariant, PTL DEF IInv

\* A thread reported Joined has no native thread left to run or to reap
\* (GuestThread::join sets Joined after worker_.join).
THEOREM JoinedIsReaped == Spec => []JoinedMeansReaped
<1>1. IInv => JoinedMeansReaped
  BY DEF IInv, BodyMatches, JoinedReaped, JoinedMeansReaped
<1> QED
  BY <1>1, Invariant, PTL

\* A thread goes from Created to Running, to Exited and to Joined, one step at
\* a time, whatever calls overlap.
THEOREM LifecycleOnlyForward == Spec => LifecycleForward
<1> DEFINE Forward == \A t \in Ids : state'[t] # state[t] => Rank(state'[t]) = Rank(state[t]) + 1
<1>1. ASSUME IInv, [Next]_vars PROVE Forward
  <2> SUFFICES ASSUME NEW u \in Ids, state'[u] # state[u]
               PROVE  Rank(state'[u]) = Rank(state[u]) + 1
    OBVIOUS
  <2>1. state \in [Ids -> {"Created", "Running", "Exited", "Joined"}]
    BY <1>1 DEF IInv, TypeOK
  <2>2. ASSUME NEW c \in Callers, Create(c) PROVE FALSE
    <3>1. nextId \in Ids /\ nextId # 0 /\ phase \in {"alive", "joining"}
      BY <1>1, <2>2, LifecycleAssumption DEF IInv, TypeOK, Create, Asks, Ids
    <3>2. nextId \notin Members
      <4>1. \A t \in Members : t < nextId
        BY <1>1, <3>1 DEF IInv, FreshIds
      <4> QED
        BY <3>1, <4>1 DEF Ids
    <3>3. state[nextId] = "Created"
      BY <1>1, <3>1, <3>2 DEF IInv, FreshIds
    <3> QED
      BY <2>1, <2>2, <3>1, <3>3 DEF Create
  <2>3. ASSUME NEW c \in Callers, NEW t \in Ids, Start(c, t)
        PROVE  Rank(state'[u]) = Rank(state[u]) + 1
    BY <2>1, <2>3 DEF Start, Rank
  <2>4. ASSUME NEW t \in Ids, MarkExited(t)
        PROVE  Rank(state'[u]) = Rank(state[u]) + 1
    <3>1. state[t] = "Running"
      BY <1>1, <2>4 DEF IInv, TypeOK, BodyMatches, MarkExited
    <3> QED
      BY <2>1, <2>4, <3>1 DEF MarkExited, Rank
  <2>5. ASSUME NEW c \in Callers, JoinMark(c)
        PROVE  Rank(state'[u]) = Rank(state[u]) + 1
    <3>1. Sound(call[c])
      BY <1>1 DEF IInv, CallsSound
    <3>2. state[call[c].target] \in {"Exited", "Joined"} /\ call[c].target \in Ids
      BY <1>1, <2>5, <3>1 DEF Sound, JoinMark, IInv, TypeOK, BodyMatches
    <3> QED
      BY <2>1, <2>5, <3>2 DEF JoinMark, Rank
  <2> QED
    BY <1>1, <2>2, <2>3, <2>4, <2>5
    DEF Next, vars, CreateFails, Join, JoinAll, InCall, JoinCheck, JoinTest, JoinNative, JoinThrows,
        JoinAllNext, Run, GuestFault, EntryReturns, RecordError, NativeEnds, Destroy, Destruction,
        DestroyMembers, DestroyTest, DestroyJoin, DestroyGuest, DestroyFails, Gone, Finished,
        UseDestroyed, CallDestroyed
<1> QED
  BY <1>1, Invariant, PTL DEF Spec, LifecycleForward

\* What has_error answers once a thread is seen Exited is final
\* (GuestThread::run records the error before it sets Exited).
THEOREM ErrorFinal == Spec => ErrorFinalOnceExited
<1> DEFINE Final == \A t \in Ids : state[t] \in {"Exited", "Joined"} => HasError(t)' = HasError(t)
<1>1. ASSUME IInv, [Next]_vars PROVE Final
  <2> SUFFICES ASSUME NEW u \in Ids, state[u] \in {"Exited", "Joined"}
               PROVE  hasError'[u] = hasError[u] /\ faulted'[u] = faulted[u]
    BY DEF HasError
  <2>1. body[u] \in {"exited", "ended"}
    BY <1>1 DEF IInv, BodyMatches
  <2>2. hasError \in [Ids -> BOOLEAN] /\ faulted \in [Ids -> BOOLEAN]
    BY <1>1 DEF IInv, TypeOK
  <2>3. ASSUME NEW t \in Ids, GuestFault(t) PROVE hasError'[u] = hasError[u] /\ faulted'[u] = faulted[u]
    BY <2>1, <2>2, <2>3 DEF GuestFault
  <2>4. ASSUME NEW t \in Ids, RecordError(t) PROVE hasError'[u] = hasError[u] /\ faulted'[u] = faulted[u]
    BY <2>1, <2>2, <2>4 DEF RecordError
  <2> QED
    BY <1>1, <2>3, <2>4
    DEF Next, vars, Create, CreateFails, Start, Join, JoinAll, InCall, JoinCheck, JoinTest,
        JoinNative, JoinThrows, JoinMark, JoinAllNext, Run, EntryReturns, MarkExited, NativeEnds,
        Destroy, Destruction, DestroyMembers, DestroyTest, DestroyJoin, DestroyGuest, DestroyFails,
        Gone, Finished, UseDestroyed, CallDestroyed
<1> QED
  BY <1>1, Invariant, PTL DEF Spec, ErrorFinalOnceExited

\* A join_all that succeeds has joined every thread that was started and not
\* joined when it took its snapshot of threads_.
THEOREM JoinAllJoinsAll == Spec => JoinAllComplete
<1> DEFINE Complete ==
      \A c \in Callers :
        call[c].all /\ ~call'[c].all /\ call'[c].result = "ok" =>
          \A t \in call[c].owed : state[t] = "Joined"
<1>1. ASSUME IInv, [Next]_vars PROVE Complete
  <2> SUFFICES ASSUME NEW d \in Callers, call[d].all, ~call'[d].all, call'[d].result = "ok",
                      NEW u \in call[d].owed
               PROVE  state[u] = "Joined"
    OBVIOUS
  <2>1. call \in [Callers -> Calls] /\ Owes(call[d]) /\ call[d].pc # "idle" /\ Ahead(call[d], u)
    BY <1>1 DEF IInv, TypeOK, CallsSound, Owes
  <2> USE DEF Callers
  <2>2. ASSUME NEW c \in Callers, InCall(c) PROVE state[u] = "Joined"
    <3>1. CASE JoinCheck(c)
      BY <2>1, <3>1 DEF JoinCheck, Return, Calls, NoCall
    <3>2. CASE JoinTest(c) \/ JoinNative(c)
      <4>1. \E pc \in {"native", "mark"} : call' = [call EXCEPT ![c].pc = pc]
        BY <3>2 DEF JoinTest, JoinNative
      <4>2. call'[d].all = call[d].all
        BY <2>1, <4>1 DEF Calls
      <4> QED
        BY <2>1, <4>2
    <3>3. CASE JoinThrows(c)
      BY <2>1, <3>3 DEF JoinThrows, Calls, NoCall
    <3>4. CASE JoinMark(c)
      BY <2>1, <3>4 DEF JoinMark, Return, Calls, NoCall
    <3>5. CASE JoinAllNext(c)
      <4>1. d = c /\ call[c].todo = <<>>
        BY <2>1, <3>5 DEF JoinAllNext, Calls
      <4> QED
        BY <2>1, <3>5, <4>1 DEF JoinAllNext, Ahead
    <3>6. CASE UseDestroyed(c)
      BY <3>6 DEF UseDestroyed
    <3> QED
      BY <2>2, <3>1, <3>2, <3>3, <3>4, <3>5, <3>6 DEF InCall
  <2>3. ASSUME NEW c \in Callers, MayCall(c), BeginLoop(c) PROVE FALSE
    BY <2>1, <2>3 DEF MayCall, BeginLoop
  <2>4. ASSUME NEW c \in Callers, NEW t \in Ids, Join(c, t) PROVE FALSE
    BY <2>1, <2>4 DEF MayCall, Join
  <2>5. ASSUME NEW t \in Ids, Run(t) PROVE FALSE
    <3>1. call'[d] = call[d] \/ call[d].pc = "idle"
      BY <2>1, <2>5 DEF Run, GuestFault, EntryReturns, RecordError, MarkExited, NativeEnds
    <3> QED
      BY <2>1, <3>1
  <2>6. ASSUME Destruction PROVE FALSE
    <3>1. call'[d].all = call[d].all
      BY <2>1, <2>6 DEF Destruction, DestroyMembers, DestroyTest, DestroyJoin, DestroyGuest,
                        DestroyFails, Gone, Calls
    <3> QED
      BY <2>1, <3>1
  <2> QED
    BY <1>1, <2>2, <2>3, <2>4, <2>5, <2>6
    DEF Next, vars, Create, CreateFails, Start, JoinAll, Asks, Destroy, CallDestroyed, Finished
<1> QED
  BY <1>1, Invariant, PTL DEF Spec, JoinAllComplete

-----------------------------------------------------------------------------
(* Why calls and the destruction end. *)

LEMMA Places ==
  /\ Place("check") = 5 /\ Place("wait") = 4 /\ Place("native") = 3
  /\ Place("mark") = 2 /\ Place("reap") = 2 /\ Place("loop") = 1 /\ Place("free") = 1
  /\ Place("idle") = 0
BY DEF Place

\* Each step of a caller inside a call takes it nearer to the end of the call, and
\* no other step touches it (GuestThread::join, ThreadManager::join_all).
THEOREM CallsAlwaysAdvance == Spec => CallsAdvance
<1> DEFINE Nearer(c) ==
      call[c].pc # "idle" /\ call'[c] # call[c] => CallLeft(call'[c]) < CallLeft(call[c])
<1>1. ASSUME IInv, [Next]_vars PROVE \A c \in Callers : Nearer(c)
  <2> SUFFICES ASSUME NEW d \in Callers, call[d].pc # "idle", call'[d] # call[d]
               PROVE  CallLeft(call'[d]) < CallLeft(call[d])
    OBVIOUS
  <2>1. call \in [Callers -> Calls] /\ call[d] \in Calls
    BY <1>1 DEF IInv, TypeOK
  <2>2. call[d].todo \in Seq(Ids) /\ Len(call[d].todo) \in Nat
    BY <2>1 DEF Calls
  <2>3. \A x \in {"ok", "refused", "threw"} : CallLeft([NoCall EXCEPT !.result = x]) = 0
    BY Places DEF CallLeft, NoCall
  <2>4. CallLeft(call[d]) \in Nat /\ CallLeft(call[d]) >= 1
    <3>1. call[d].pc \in {"check", "wait", "native", "mark", "loop", "reap", "free"}
      BY <2>1 DEF Calls
    <3>2. Place(call[d].pc) \in 1 .. 5
      BY <3>1, Places
    <3> QED BY <2>2, <3>2 DEF CallLeft
  <2>5. ASSUME NEW c \in Callers, InCall(c)
        PROVE  CallLeft(call'[d]) < CallLeft(call[d])
    <3>1. CASE JoinCheck(c) \/ JoinTest(c) \/ JoinNative(c) \/ JoinThrows(c) \/ JoinMark(c)
               \/ JoinAllNext(c)
      <4>1. c = d
        BY <2>1, <3>1 DEF JoinCheck, JoinTest, JoinNative, JoinThrows, JoinMark, JoinAllNext, Return
      <4>2. CASE JoinCheck(c)
        <5>1. CASE call'[d] = [NoCall EXCEPT !.result = "refused"]
          BY <2>3, <2>4, <5>1
        <5>2. CASE call' = [call EXCEPT ![c].pc = "wait"]
          BY <2>1, <2>2, <4>1, <4>2, <5>2, Places DEF JoinCheck, CallLeft, Calls
        <5> QED BY <2>1, <4>1, <4>2, <5>1, <5>2 DEF JoinCheck, Return
      <4>3. CASE JoinTest(c) \/ JoinNative(c)
        <5>1. /\ call'[d].todo = call[d].todo
              /\ \/ call[d].pc = "wait" /\ call'[d].pc \in {"native", "mark"}
                 \/ call[d].pc = "native" /\ call'[d].pc = "mark"
          BY <2>1, <4>1, <4>3 DEF JoinTest, JoinNative, Calls
        <5>2. /\ Place(call[d].pc) \in Nat /\ Place(call'[d].pc) \in Nat
              /\ Place(call'[d].pc) < Place(call[d].pc)
          BY <5>1, Places
        <5> QED BY <2>2, <5>1, <5>2 DEF CallLeft
      <4>4. CASE JoinThrows(c)
        <5>1. call'[d] = [NoCall EXCEPT !.result = "threw"]
          BY <2>1, <4>1, <4>4 DEF JoinThrows
        <5> QED BY <2>3, <2>4, <5>1
      <4>5. CASE JoinMark(c)
        <5>1. CASE call'[d] = [NoCall EXCEPT !.result = "ok"]
          BY <2>3, <2>4, <5>1
        <5>2. CASE call'[d] = [call[d] EXCEPT !.pc = "loop", !.target = 0]
          BY <2>1, <2>2, <4>1, <4>5, <5>2, Places DEF JoinMark, CallLeft, Calls
        <5> QED BY <2>1, <4>1, <4>5, <5>1, <5>2 DEF JoinMark, Return
      <4>6. CASE JoinAllNext(c)
        <5>1. CASE call[c].todo = <<>>
          <6>1. call'[d] = [NoCall EXCEPT !.result = "ok"]
            BY <2>1, <4>1, <4>6, <5>1 DEF JoinAllNext
          <6> QED BY <2>3, <2>4, <6>1
        <5>2. CASE call[c].todo # <<>>
          <6>1. Len(Tail(call[d].todo)) = Len(call[d].todo) - 1
            BY <2>2, <4>1, <5>2
          <6>2. call'[d].todo = Tail(call[d].todo) /\ call'[d].pc \in {"check", "loop"}
            BY <2>1, <4>1, <4>6, <5>2 DEF JoinAllNext, Calls
          <6>3. /\ CallLeft(call'[d]) \in Int
                /\ CallLeft(call'[d]) <= 5 * (Len(call[d].todo) - 1) + 5
            <7>1. Place(call'[d].pc) \in 0 .. 5
              BY <6>2, Places
            <7> QED BY <2>2, <6>1, <6>2, <7>1 DEF CallLeft
          <6>4. CallLeft(call[d]) = 5 * Len(call[d].todo) + 1
            BY <4>1, <4>6, Places DEF JoinAllNext, CallLeft
          <6> QED BY <2>2, <6>3, <6>4
        <5> QED BY <5>1, <5>2
      <4> QED BY <3>1, <4>2, <4>3, <4>4, <4>5, <4>6
    <3>2. CASE UseDestroyed(c)
      BY <3>2 DEF UseDestroyed
    <3> QED BY <2>5, <3>1, <3>2 DEF InCall
  <2>6. ASSUME NEW c \in Callers, MayCall(c), BeginLoop(c) PROVE FALSE
    BY <2>1, <2>6 DEF MayCall, BeginLoop
  <2>7. ASSUME NEW c \in Callers, NEW t \in Ids, Join(c, t) PROVE FALSE
    BY <2>1, <2>7 DEF MayCall, Join
  <2>8. ASSUME NEW t \in Ids, Run(t) PROVE FALSE
    BY <2>1, <2>8 DEF Run, GuestFault, EntryReturns, RecordError, MarkExited, NativeEnds, Callers
  <2>9. ASSUME Destruction PROVE CallLeft(call'[d]) < CallLeft(call[d])
    <3>1. /\ call'[d].todo = call[d].todo
          /\ \/ call[d].pc = "reap" /\ call'[d].pc = "free"
             \/ call[d].pc = "free" /\ call'[d].pc = "idle"
      BY <2>1, <2>9 DEF Destruction, DestroyMembers, DestroyTest, DestroyJoin, DestroyGuest,
                        DestroyFails, Gone, AtThread, Calls
    <3>2. /\ Place(call[d].pc) \in Nat /\ Place(call'[d].pc) \in Nat
          /\ Place(call'[d].pc) < Place(call[d].pc)
      BY <3>1, Places
    <3> QED BY <2>2, <3>1, <3>2 DEF CallLeft
  <2> QED
    BY <1>1, <2>5, <2>6, <2>7, <2>8, <2>9
    DEF Next, vars, Create, CreateFails, Start, JoinAll, Asks, Destroy, CallDestroyed, Finished, Callers
<1> QED
  BY <1>1, Invariant, PTL DEF Spec, CallsAdvance

\* A joinable native thread that has not ended is between its start and its end.
LEMMA JoinableRuns ==
  ASSUME IInv, NEW t \in Ids, joinable[t], body[t] # "ended"
  PROVE  body[t] \in {"entry", "failed", "exiting", "exited"}
BY DEF IInv, TypeOK, BodyMatches

\* Callers who all wait for native threads that do not move wait in a circle
\* (GuestThread::join waits with no lock that run needs).
THEOREM CirclesBlock == Spec => []OnlyCirclesBlock
<1>1. ASSUME IInv, Stalled PROVE Circular
  <2> DEFINE ring == {t \in Ids : call[t].pc # "idle"}
  <2>1. ASSUME NEW c \in Callers, call[c].pc # "idle"
        PROVE  call[c].pc \in {"native", "reap"} /\ call[c].target \in ring \ {c}
    <3>1. Waits(c) /\ Sound(call[c])
      BY <1>1, <2>1 DEF Stalled, IInv, CallsSound
    <3>2. call[c].target \in Ids
      BY <3>1 DEF Waits, Sound
    <3>3. body[call[c].target] \in {"entry", "failed", "exiting", "exited"}
      BY <1>1, <3>1, <3>2, JoinableRuns DEF Waits
    <3>4. ~Moves(call[c].target)
      BY <1>1, <3>2 DEF Stalled
    <3> QED BY <3>1, <3>2, <3>3, <3>4 DEF Waits, Moves
  <2>2. ring # {}
    BY <1>1, <2>1 DEF Stalled
  <2>3. \A t \in ring : call[t].pc = "native" /\ call[t].target \in ring \ {t}
    BY <1>1, <2>1 DEF Callers, IInv, AtHead
  <2>4. ring \in (SUBSET Ids) \ {{}}
    BY <2>2
  <2> QED BY <2>3, <2>4 DEF Circular
<1>2. IInv => OnlyCirclesBlock
  BY <1>1 DEF OnlyCirclesBlock
<1> QED
  BY <1>2, Invariant, PTL

-----------------------------------------------------------------------------
(* The destructor. *)

\* Whatever has to be reaped is a thread that the destructor has yet to destroy.
Listed ==
  /\ \A t \in Ids : joinable[t] => t \in Members
  /\ phase = "gone" => threads = <<>>

\* What the destructor's join_all relies on when nobody else reaps.
Reaping(r) ==
  /\ IF r.pc = "idle" THEN r.result = "ok" ELSE r.all
  /\ r.pc = "check" => state[r.target] \in {"Running", "Exited"}
  /\ r.pc = "native" => joinable[r.target]

\* ... and what ~GuestThread does, of each thread.
Destroying(r) ==
  /\ r.pc \in {"idle", "reap", "free"}
  /\ r.result = "ok"
  /\ r.pc = "reap" => joinable[r.target]
  /\ r.pc = "free" => ~joinable[r.target]

\* A destructor in whose way no callback has been.
Undisturbed ==
  /\ Live
  /\ phase # "alive" => \A t \in Ids : call[t].pc = "idle"
  /\ phase = "joining" => Reaping(call[Host])
  /\ phase \in {"destroying", "gone"} => Destroying(call[Host])

Leaving ==
  /\ Listed
  /\ disturbed => phase # "alive"
  /\ disturbed \/ Undisturbed

LEMMA ListedStep ==
  ASSUME IInv, Listed, [Next]_vars
  PROVE  Listed'
<1>1. /\ joinable \in [Ids -> BOOLEAN] /\ threads \in Seq(Ids) /\ nextId \in 0 .. MaxId
      /\ call \in [Callers -> Calls]
  BY DEF IInv, TypeOK
<1>2. ASSUME NEW c \in Callers, Create(c) PROVE Listed'
  <2>1. nextId \in Ids
    BY <1>1, <1>2, LifecycleAssumption DEF Create, Ids
  <2>2. \A i \in 1 .. Len(threads) : i \in 1 .. Len(threads') /\ threads'[i] = threads[i]
    BY <1>1, <1>2, <2>1 DEF Create
  <2>3. Members \subseteq Members'
    BY <2>2 DEF Members
  <2>4. phase' # "gone" /\ joinable' = joinable
    BY <1>2 DEF Create, Asks
  <2> QED
    BY <2>3, <2>4 DEF Listed
<1>3. ASSUME NEW c \in Callers, NEW t \in Ids, Start(c, t) PROVE Listed'
  BY <1>1, <1>3 DEF Start, Listed, Members
<1>4. CASE DestroyGuest
  <2>1. Sound(call[Host]) /\ call[Host].target = Head(threads) /\ threads # <<>>
    BY <1>4 DEF IInv, CallsSound, Callers, AtHead, DestroyGuest, AtThread
  <2>2. ~joinable[Head(threads)] /\ threads' = Tail(threads) /\ joinable' = joinable /\ phase' # "gone"
    BY <1>4, <2>1 DEF DestroyGuest, AtThread
  <2>3. ASSUME NEW i \in 1 .. Len(threads), i # 1 PROVE threads[i] \in Members'
    <3>1. i - 1 \in 1 .. Len(threads') /\ threads'[i - 1] = threads[i]
      BY <1>1, <2>1, <2>2, <2>3
    <3> QED
      BY <3>1 DEF Members
  <2>4. threads[1] = Head(threads)
    BY <1>1, <2>1
  <2> QED
    BY <2>2, <2>3, <2>4 DEF Listed, Members
<1>5. CASE Gone
  BY <1>5 DEF Gone, Listed, Members
<1>6. ASSUME UNCHANGED <<threads, joinable>>, phase' = "gone" => phase = "gone" PROVE Listed'
  BY <1>6 DEF Listed, Members
<1>7. ASSUME NEW c \in Callers, InCall(c) PROVE Listed'
  <2>1. /\ threads' = threads
        /\ phase' = "gone" => phase = "gone"
        /\ \A t \in Ids : joinable'[t] => joinable[t]
    BY <1>1, <1>7 DEF InCall, UseDestroyed, JoinCheck, JoinTest, JoinNative, JoinThrows, JoinMark, JoinAllNext
  <2> QED
    BY <2>1 DEF Listed, Members
<1>8. CASE DestroyJoin
  <2>1. /\ threads' = threads /\ phase' = phase
        /\ \A t \in Ids : joinable'[t] => joinable[t]
    BY <1>1, <1>8 DEF DestroyJoin
  <2> QED
    BY <2>1 DEF Listed, Members
<1> QED
  BY <1>2, <1>3, <1>4, <1>5, <1>6, <1>7, <1>8
  DEF Next, vars, CreateFails, Join, JoinAll, CallDestroyed, Run, GuestFault, EntryReturns, RecordError,
      MarkExited, NativeEnds, Destroy, Destruction, DestroyMembers, DestroyTest, DestroyFails, Finished

\* A manager that is gone leaves nothing: what is joinable would be on its list.
LEMMA GoneReaped ==
  ASSUME IInv, Listed, phase = "gone"
  PROVE  AllReaped
<1>1. \A t \in Ids : ~joinable[t]
  BY DEF Listed, Members
<1> QED
  BY <1>1 DEF AllReaped, IInv, TypeOK, BodyMatches, ReapedAfterEnd

\* No join of the destructor's join_all is refused, throws or finds the thread reaped.
LEMMA ReapingStep ==
  ASSUME IInv, ~disturbed, Undisturbed, NEW c \in Callers, InCall(c), phase # "alive"
  PROVE  Undisturbed'
<1>1. /\ call \in [Callers -> Calls] /\ joinable \in [Ids -> BOOLEAN]
      /\ state \in [Ids -> {"Created", "Running", "Exited", "Joined"}]
      /\ Host \in Callers /\ Ids \subseteq Callers /\ Host \notin Ids
      /\ phase \in {"joining", "destroying", "gone"}
  BY LifecycleAssumption DEF IInv, TypeOK, Callers, Host, Ids, Undisturbed, Live
<1>2. c = Host
  BY <1>1 DEF Undisturbed, InCall, UseDestroyed, Dangles, JoinCheck, JoinTest, JoinNative, JoinThrows,
              JoinMark, JoinAllNext, Callers
<1> DEFINE r == call[Host]
           s == call'[Host]
<1>3. r \in Calls /\ Sound(r)
  BY <1>1 DEF IInv, CallsSound
<1>4. phase = "joining" /\ Reaping(r) /\ r.pc # "idle" /\ r.all /\ ~UseDestroyed(c)
  BY <1>1, <1>2, <1>3 DEF Undisturbed, Destroying, Reaping, InCall, UseDestroyed, Dangles, Destroyed,
                    JoinCheck, JoinTest, JoinNative, JoinThrows, JoinMark, JoinAllNext
<1>5. r.pc \in {"check", "wait", "native", "mark"} => r.target \in Ids
  BY <1>3 DEF Sound
<1>6. SUFFICES /\ phase' = phase /\ \A t \in Ids : call'[t] = call[t]
               /\ Reaping(call[Host])'
  BY <1>4 DEF Undisturbed, Live
<1>7. CASE JoinCheck(c)
  <2>1. /\ r.pc = "check" /\ call' = [call EXCEPT ![Host].pc = "wait"] /\ joinable' = joinable
        /\ phase' = phase
    BY <1>2, <1>4, <1>7 DEF JoinCheck, Reaping
  <2>2. s.pc = "wait" /\ s.all /\ \A t \in Ids : call'[t] = call[t]
    BY <1>1, <1>3, <1>4, <2>1 DEF Calls
  <2> QED
    BY <2>1, <2>2 DEF Reaping
<1>8. CASE JoinTest(c)
  <2>1. /\ r.pc = "wait" /\ joinable' = joinable /\ phase' = phase
        /\ call' = [call EXCEPT ![Host].pc = IF joinable[r.target] THEN "native" ELSE "mark"]
    BY <1>2, <1>8 DEF JoinTest
  <2>2. /\ s.pc = IF joinable[r.target] THEN "native" ELSE "mark"
        /\ s.target = r.target /\ s.all /\ \A t \in Ids : call'[t] = call[t]
    BY <1>1, <1>3, <1>4, <2>1 DEF Calls
  <2> QED
    BY <2>1, <2>2 DEF Reaping
<1>9. CASE JoinNative(c)
  <2>1. phase' = phase /\ call' = [call EXCEPT ![Host].pc = "mark"]
    BY <1>2, <1>9 DEF JoinNative
  <2>2. s.pc = "mark" /\ s.all /\ \A t \in Ids : call'[t] = call[t]
    BY <1>1, <1>3, <1>4, <2>1 DEF Calls
  <2> QED
    BY <2>1, <2>2 DEF Reaping
<1>10. CASE JoinThrows(c)
  <2>1. r.pc = "native" /\ joinable[r.target] /\ r.target # Host
    BY <1>1, <1>2, <1>4, <1>5, <1>10 DEF JoinThrows, Reaping
  <2>2. \A d \in Callers \ {Host} : call[d].pc = "idle"
    BY <1>4 DEF Undisturbed, Callers
  <2> QED
    BY <1>2, <1>10, <2>1, <2>2 DEF JoinThrows, MayThrow
<1>11. CASE JoinMark(c)
  <2>1. /\ phase' = phase /\ joinable' = joinable
        /\ call' = [call EXCEPT ![Host] = [r EXCEPT !.pc = "loop", !.target = 0]]
    BY <1>2, <1>4, <1>11 DEF JoinMark, Return
  <2>2. s.pc = "loop" /\ s.all /\ \A t \in Ids : call'[t] = call[t]
    BY <1>1, <1>3, <1>4, <2>1 DEF Calls
  <2> QED
    BY <2>1, <2>2 DEF Reaping
<1>12. CASE JoinAllNext(c)
  <2>1. phase' = phase /\ joinable' = joinable /\ state' = state
    BY <1>12 DEF JoinAllNext
  <2>2. CASE r.todo = <<>>
    <3>1. call' = [call EXCEPT ![Host] = [NoCall EXCEPT !.result = "ok"]]
      BY <1>2, <1>12, <2>2 DEF JoinAllNext
    <3>2. s.pc = "idle" /\ s.result = "ok" /\ \A t \in Ids : call'[t] = call[t]
      BY <1>1, <3>1 DEF NoCall
    <3> QED
      BY <2>1, <3>2 DEF Reaping
  <2>3. CASE r.todo # <<>>
    <3> DEFINE h == Head(r.todo)
               due == state[h] \in {"Running", "Exited"}
    <3>1. call' = [call EXCEPT ![Host].todo = Tail(@), ![Host].pc = IF due THEN "check" ELSE "loop",
                               ![Host].target = IF due THEN h ELSE 0]
      BY <1>2, <1>12, <2>3 DEF JoinAllNext
    <3> HIDE DEF due
    <3>2. s.all /\ \A t \in Ids : call'[t] = call[t]
      BY <1>1, <1>3, <1>4, <3>1 DEF Calls
    <3>3. /\ s.pc = IF due THEN "check" ELSE "loop"
          /\ s.target = IF due THEN h ELSE 0
      BY <1>1, <1>3, <3>1 DEF Calls
    <3>4. s.pc = "check" => state'[s.target] \in {"Running", "Exited"}
      BY <2>1, <3>3 DEF due
    <3> QED
      BY <2>1, <3>2, <3>3, <3>4 DEF Reaping
  <2> QED
    BY <2>2, <2>3
<1> QED
  BY <1>4, <1>7, <1>8, <1>9, <1>10, <1>11, <1>12 DEF InCall

\* Steps that leave the destructor's calls alone.
LEMMA OtherSteps ==
  ASSUME IInv, ~disturbed, Undisturbed, phase' = phase, call' = call,
         \/ UNCHANGED <<state, joinable>>
         \/ phase = "alive"
         \/ /\ phase = "joining"
            /\ \A t \in Ids : /\ state[t] \in {"Running", "Exited"} => state'[t] \in {"Running", "Exited"}
                              /\ joinable[t] => joinable'[t]
  PROVE  Undisturbed'
<1>1. Sound(call[Host])
  BY DEF IInv, CallsSound, Callers
<1>2. CASE UNCHANGED <<state, joinable>>
  BY <1>2 DEF Undisturbed, Live, Reaping, Destroying
<1>3. CASE phase = "alive"
  BY <1>3 DEF Undisturbed, Live
<1>4. CASE /\ phase = "joining"
           /\ \A t \in Ids : /\ state[t] \in {"Running", "Exited"} => state'[t] \in {"Running", "Exited"}
                             /\ joinable[t] => joinable'[t]
  BY <1>1, <1>4 DEF Undisturbed, Live, Reaping, Sound
<1> QED
  BY <1>2, <1>3, <1>4

LEMMA UndisturbedStep ==
  ASSUME IInv, Listed, ~disturbed, Undisturbed, [Next]_vars, ~disturbed'
  PROVE  Undisturbed'
<1>1. /\ call \in [Callers -> Calls] /\ joinable \in [Ids -> BOOLEAN]
      /\ state \in [Ids -> {"Created", "Running", "Exited", "Joined"}]
      /\ Host \in Callers /\ Ids \subseteq Callers /\ Host \notin Ids
      /\ phase \in {"alive", "joining", "destroying", "gone"}
  BY LifecycleAssumption DEF IInv, TypeOK, Callers, Host, Ids, Undisturbed, Live
<1>2. ASSUME NEW c \in Callers, Create(c) PROVE Undisturbed'
  <2>1. nextId \in Ids /\ state[nextId] = "Created"
    <3>1. nextId \in Ids /\ phase \in {"alive", "joining"}
      BY <1>2, LifecycleAssumption DEF IInv, TypeOK, Create, Asks, Ids
    <3>2. nextId \notin Members
      <4>1. \A t \in Members : t < nextId
        BY <1>2, <3>1 DEF IInv, FreshIds, Create
      <4> QED
        BY <3>1, <4>1 DEF Ids
    <3> QED
      BY <3>1, <3>2 DEF IInv, FreshIds
  <2>2. state' = state /\ phase' = phase /\ call' = call /\ joinable' = joinable
    BY <1>1, <1>2, <2>1 DEF Create
  <2> QED
    BY <2>2, OtherSteps
<1>3. ASSUME NEW c \in Callers, CreateFails(c) PROVE Undisturbed'
  BY <1>3, OtherSteps DEF CreateFails
<1>4. ASSUME NEW c \in Callers, NEW t \in Ids, Start(c, t) PROVE Undisturbed'
  <2>1. phase' = phase /\ call' = call /\ phase # "destroying" /\ phase # "gone"
    <3>1. phase' = phase /\ call' = call /\ disturbed' = (disturbed \/ phase = "destroying") /\ t \in Members
      BY <1>4 DEF Start, NoteLate
    <3>2. phase # "gone"
      BY <3>1 DEF Listed, Members
    <3> QED
      BY <3>1, <3>2
  <2>2. \A u \in Ids : /\ state[u] \in {"Running", "Exited"} => state'[u] \in {"Running", "Exited"}
                       /\ joinable[u] => joinable'[u]
    BY <1>1, <1>4 DEF Start
  <2> QED
    BY <1>1, <2>1, <2>2, OtherSteps
<1>5. ASSUME NEW c \in Callers, JoinAll(c) \/ \E t \in Ids : Join(c, t) PROVE Undisturbed'
  BY <1>5 DEF Join, JoinAll, NoteJoin, Undisturbed, Live
<1>6. ASSUME NEW c \in Callers, CallDestroyed(c) PROVE Undisturbed'
  <2>1. phase = "gone" /\ body[c] = "entry" /\ c \in Ids
    BY <1>6 DEF CallDestroyed, NoteLate, MayCall, Callers
  <2> QED
    BY <2>1, GoneReaped DEF AllReaped
<1>7. ASSUME NEW c \in Callers, InCall(c) PROVE Undisturbed'
  <2>1. CASE phase = "alive"
    <3>1. phase' = phase
      BY <1>7, <2>1 DEF InCall, UseDestroyed, Dangles, Destroyed, JoinCheck, JoinTest, JoinNative,
                        JoinThrows, JoinMark, JoinAllNext
    <3> QED
      BY <2>1, <3>1 DEF Undisturbed, Live
  <2> QED
    BY <1>7, <2>1, ReapingStep
<1>8. ASSUME NEW t \in Ids, Run(t) PROVE Undisturbed'
  <2>1. phase' = phase /\ joinable' = joinable
    BY <1>8 DEF Run, GuestFault, EntryReturns, RecordError, MarkExited, NativeEnds
  <2>2. CASE EntryReturns(t)
    <3>1. \A d \in Callers : call'[d] = call[d] \/ (d = t /\ call'[d].pc = "idle")
      BY <1>1, <2>2, NoCallSound DEF EntryReturns
    <3>2. call'[Host] = call[Host] /\ state' = state
      BY <1>1, <2>2, <3>1 DEF EntryReturns
    <3> QED
      BY <1>1, <2>1, <3>1, <3>2 DEF Undisturbed, Live, Reaping, Destroying
  <2>3. CASE ~EntryReturns(t)
    <3>1. call' = call
      BY <1>8, <2>3 DEF Run, GuestFault, RecordError, MarkExited, NativeEnds
    <3>2. \A u \in Ids : state[u] \in {"Running", "Exited"} => state'[u] \in {"Running", "Exited"}
      BY <1>1, <1>8 DEF Run, GuestFault, EntryReturns, RecordError, MarkExited, NativeEnds
    <3>3. CASE phase \in {"alive", "joining"}
      BY <2>1, <3>1, <3>2, <3>3, OtherSteps
    <3>4. CASE phase \in {"destroying", "gone"}
      BY <2>1, <3>1, <3>4 DEF Undisturbed, Live, Destroying
    <3> QED
      BY <1>1, <3>3, <3>4
  <2> QED
    BY <2>2, <2>3
<1>9. CASE Destroy
  <2> DEFINE r == [NoCall EXCEPT !.pc = "loop", !.todo = threads, !.all = TRUE,
                     !.owed = {t \in Members : state[t] \in {"Running", "Exited"}}]
  <2>1. r.pc = "loop" /\ r.all
    BY DEF NoCall
  <2>2. call' = [call EXCEPT ![Host] = r] /\ phase' = "joining" /\ \A t \in Ids : call[t].pc = "idle"
    BY <1>9 DEF Destroy, BeginLoop
  <2> HIDE DEF r
  <2>3. call'[Host] = r /\ \A t \in Ids : call'[t].pc = "idle"
    BY <1>1, <2>2
  <2> QED
    BY <2>1, <2>2, <2>3 DEF Undisturbed, Live, Reaping
<1>10. CASE DestroyMembers
  BY <1>10 DEF DestroyMembers, Undisturbed, Live, Reaping, Destroying
<1>11. ASSUME Destruction, ~DestroyMembers PROVE Undisturbed'
  <2>1. phase = "destroying" /\ Destroying(call[Host]) /\ call[Host] \in Calls /\ Sound(call[Host])
    BY <1>1, <1>11 DEF Destruction, DestroyTest, DestroyJoin, DestroyGuest, DestroyFails, Gone, AtThread,
                       Undisturbed, IInv, CallsSound
  <2>2. ~DestroyFails
    <3>1. ASSUME call[Host].pc = "reap" PROVE ~MayThrow(Host)
      <4>1. joinable[call[Host].target] /\ call[Host].target # Host
        BY <1>1, <2>1, <3>1 DEF Destroying, Sound
      <4>2. \A d \in Callers \ {Host} : call[d].pc = "idle"
        BY <2>1 DEF Undisturbed, Callers
      <4> QED
        BY <4>1, <4>2 DEF MayThrow
    <3>2. ASSUME call[Host].pc = "free" PROVE ~joinable[call[Host].target]
      BY <2>1, <3>2 DEF Destroying
    <3> QED
      BY <3>1, <3>2 DEF DestroyFails, AtThread
  <2>3. /\ phase' \in {"destroying", "gone"} /\ \A t \in Ids : call'[t] = call[t]
        /\ Destroying(call[Host])'
    <3>1. CASE DestroyTest
      BY <1>1, <2>1, <3>1 DEF DestroyTest, Destroying, Calls
    <3>2. CASE DestroyJoin
      <4>1. call[Host].target \in Ids
        BY <2>1, <3>2 DEF Sound, DestroyJoin, AtThread
      <4> QED
        BY <1>1, <2>1, <3>2, <4>1 DEF DestroyJoin, Destroying, Calls
    <3>3. CASE DestroyGuest
      BY <1>1, <2>1, <3>3 DEF DestroyGuest, Destroying, Calls
    <3>4. CASE Gone
      BY <2>1, <3>4 DEF Gone, Destroying
    <3> QED
      BY <1>11, <2>2, <3>1, <3>2, <3>3, <3>4 DEF Destruction
  <2> QED
    BY <2>1, <2>3 DEF Undisturbed, Live
<1>12. CASE Finished \/ UNCHANGED vars
  BY <1>12, OtherSteps DEF Finished, vars
<1> QED
  BY <1>2, <1>3, <1>4, <1>5, <1>6, <1>7, <1>8, <1>9, <1>10, <1>11, <1>12 DEF Next

LEMMA LeavingStep ==
  ASSUME IInv, Leaving, [Next]_vars
  PROVE  Leaving'
<1>1. Listed'
  BY ListedStep DEF Leaving
<1>2. \/ UNCHANGED <<disturbed, phase>>
      \/ disturbed' = disturbed /\ phase' # "alive"
      \/ (disturbed' <=> disturbed \/ phase # "alive") /\ phase' = phase
      \/ phase = "alive" /\ phase' # "alive"
      \/ (disturbed' <=> disturbed \/ phase = "destroying") /\ (phase' = phase \/ phase' # "alive")
  <2>1. ASSUME NEW c \in Callers, InCall(c)
        PROVE  disturbed' = disturbed /\ (phase' = phase \/ phase' # "alive")
    BY <2>1 DEF InCall, UseDestroyed, JoinCheck, JoinTest, JoinNative, JoinThrows, JoinMark, JoinAllNext
  <2>2. ASSUME NEW t \in Ids, Run(t) PROVE UNCHANGED <<disturbed, phase>>
    BY <2>2 DEF Run, GuestFault, EntryReturns, RecordError, MarkExited, NativeEnds
  <2>3. ASSUME Destruction PROVE disturbed' = disturbed /\ (phase' = phase \/ phase' # "alive")
    BY <2>3 DEF Destruction, DestroyMembers, DestroyTest, DestroyJoin, DestroyGuest, DestroyFails, Gone
  <2> QED
    BY <2>1, <2>2, <2>3
    DEF Next, vars, Create, CreateFails, Start, Join, JoinAll, NoteJoin, NoteLate, MayCall, Destroy,
        CallDestroyed, Finished
<1>3. (disturbed => disturbed') /\ (disturbed' => phase' # "alive")
  BY <1>2 DEF Leaving
<1> QED
  BY <1>1, <1>3, UndisturbedStep DEF Leaving

\* A manager that is gone leaves no native thread, whatever its callbacks did meanwhile;
\* and unless one of them was in the destructor's way, its join_all succeeds, its other
\* joins do not throw, and no thread is left to be joined (ThreadManager::~ThreadManager,
\* which drops the result, and GuestThread::~GuestThread).
THEOREM DestructorJoinsAll == Spec => []DestructorSafe
<1>1. Init => Leaving
  BY DEF Init, Leaving, Listed, Undisturbed, Live
<1>2. ASSUME IInv, Leaving PROVE DestructorSafe
  BY <1>2, GoneReaped DEF Leaving, Undisturbed, Destroying, DestructorSafe
<1> QED
  BY <1>1, <1>2, InitInv, StepInv, LeavingStep, PTL DEF Spec

=============================================================================
