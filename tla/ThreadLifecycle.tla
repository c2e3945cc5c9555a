-------------------------- MODULE ThreadLifecycle --------------------------
(***************************************************************************)
(* GuestThread and ThreadManager (runtime/thread.cpp): guest threads mapped *)
(* one to one on joinable native threads, their lifecycle Created, Running, *)
(* Exited, Joined, the capture of what an entry callback raises, join_all   *)
(* and the destruction of the manager.                                      *)
(*                                                                          *)
(* A step is what a caller does between two acquisitions of a mutex: start, *)
(* create, state and the check at the top of join each run under one lock,  *)
(* while worker_.joinable() and worker_.join() run under none.  The host    *)
(* and the workers themselves (through their entry callbacks) are callers.  *)
(* The host owns the manager: it makes no call once it destroys it.  The     *)
(* callbacks know nothing of that, and may be inside any call, or enter one, *)
(* while the destructor runs.  Two ends are not the program's own: a join of *)
(* the destructor that throws terminates the process, and a callback that    *)
(* uses what is already destroyed has undefined behaviour, of which nothing  *)
(* more is said.                                                             *)
(***************************************************************************)
EXTENDS Integers, Sequences, FiniteSets

CONSTANTS
  MaxId,    \* the largest guest thread id (2^64 - 1 in the code)
  Joiners   \* the callers that may call join and join_all

Ids == 1 .. MaxId

\* The host thread that owns the ThreadManager; guest ids start at 1.
Host == 0

Callers == {Host} \cup Ids

ASSUME LifecycleAssumption ==
  /\ MaxId \in Nat
  /\ Joiners \subseteq Callers

VARIABLES
  nextId,    \* next_id_, 0 once the id space is exhausted
  threads,   \* threads_: the ids created, in creation order
  state,     \* state_ of each guest thread
  hasError,  \* has_thread_error_ of each guest thread
  faulted,   \* runtime_.has_error of each guest thread
  joinable,  \* worker_.joinable() of each guest thread
  body,      \* where the native thread is in run()
  call,      \* each caller's position in join and join_all
  phase,     \* the manager: alive, joining in its destructor, destroying its
             \* threads, gone; or the process terminated, or undefined
  disturbed  \* history: has a callback been in the destructor's way?

vars == <<nextId, threads, state, hasError, faulted, joinable, body, call, phase, disturbed>>

\* A caller outside every call.
\* history: owed is what a join_all found started and not joined when it began.
NoCall == [pc |-> "idle", target |-> 0, todo |-> <<>>, all |-> FALSE, owed |-> {}, result |-> "none"]

Members == {threads[i] : i \in 1 .. Len(threads)}

\* The process goes on as the code says.
Live == phase \notin {"terminated", "undefined"}

\* A worker calls the API from its entry callback, the host until it destroys the
\* manager.
MayCall(c) ==
  /\ Live
  /\ call[c].pc = "idle"
  /\ IF c = Host THEN phase = "alive" ELSE body[c] = "entry"

\* The manager can still be asked: its members are not being destroyed.
Asks(c) == MayCall(c) /\ phase \in {"alive", "joining"}

\* A callback is in the way of the destructor when it joins while that runs, and
\* with whatever it calls once the threads are being destroyed.
NoteJoin == disturbed' = (disturbed \/ phase # "alive")
NoteLate == disturbed' = (disturbed \/ phase = "destroying")

-----------------------------------------------------------------------------
(* ThreadManager::create and GuestThread::start. *)

\* The id after the last one wraps to 0, which create refuses.
Create(c) ==
  /\ Asks(c)
  /\ nextId # 0
  /\ threads' = Append(threads, nextId)
  /\ state' = [state EXCEPT ![nextId] = "Created"]
  /\ nextId' = (nextId + 1) % (MaxId + 1)
  /\ UNCHANGED <<hasError, faulted, joinable, body, call, phase, disturbed>>

\* An allocation that fails has already consumed the id.
CreateFails(c) ==
  /\ Asks(c)
  /\ nextId # 0
  /\ nextId' = (nextId + 1) % (MaxId + 1)
  /\ UNCHANGED <<threads, state, hasError, faulted, joinable, body, call, phase, disturbed>>

\* The native thread may fail to start: state_ goes back to Created.
Start(c, t) ==
  /\ MayCall(c)
  /\ t \in Members
  /\ state[t] = "Created"
  /\ state' = [state EXCEPT ![t] = "Running"]
  /\ joinable' = [joinable EXCEPT ![t] = TRUE]
  /\ body' = [body EXCEPT ![t] = "entry"]
  /\ NoteLate
  /\ UNCHANGED <<nextId, threads, hasError, faulted, call, phase>>

-----------------------------------------------------------------------------
(* GuestThread::run, on the native thread. *)

\* A guest access of the callback fails: it sets runtime_.has_error, unlocked.
GuestFault(t) ==
  /\ body[t] = "entry"
  /\ call[t].pc = "idle"
  /\ faulted' = [faulted EXCEPT ![t] = TRUE]
  /\ UNCHANGED <<nextId, threads, state, hasError, joinable, body, call, phase, disturbed>>

\* The entry callback returns, or fails: an error result or an exception.  What
\* its calls returned is gone with it.
EntryReturns(t) ==
  /\ body[t] = "entry"
  /\ call[t].pc = "idle"
  /\ \E next \in {"exiting", "failed"} : body' = [body EXCEPT ![t] = next]
  /\ call' = [call EXCEPT ![t] = NoCall]
  /\ UNCHANGED <<nextId, threads, state, hasError, faulted, joinable, phase, disturbed>>

\* The error is recorded under a lock of its own, before the state changes.
RecordError(t) ==
  /\ body[t] = "failed"
  /\ hasError' = [hasError EXCEPT ![t] = TRUE]
  /\ body' = [body EXCEPT ![t] = "exiting"]
  /\ UNCHANGED <<nextId, threads, state, faulted, joinable, call, phase, disturbed>>

\* Mutants: the state changes before the error is recorded; join waits for the
\* native thread with the lock that the state change needs.
MarkExitedEarly(t) ==
  /\ body[t] \in {"failed", "exiting"}
  /\ state' = [state EXCEPT ![t] = "Exited"]
  /\ body' = [body EXCEPT ![t] = IF @ = "exiting" THEN "exited" ELSE @]
  /\ UNCHANGED <<nextId, threads, hasError, faulted, joinable, call, phase, disturbed>>

MarkExitedLockedOut(t) ==
  /\ body[t] = "exiting"
  /\ \A c \in Callers : call[c].pc = "native" => call[c].target # t
  /\ state' = [state EXCEPT ![t] = "Exited"]
  /\ body' = [body EXCEPT ![t] = "exited"]
  /\ UNCHANGED <<nextId, threads, hasError, faulted, joinable, call, phase, disturbed>>

MarkExited(t) ==
  /\ body[t] = "exiting"
  /\ state' = [state EXCEPT ![t] = "Exited"]
  /\ body' = [body EXCEPT ![t] = "exited"]
  /\ UNCHANGED <<nextId, threads, hasError, faulted, joinable, call, phase, disturbed>>

\* The native thread releases the lock and ends.
NativeEnds(t) ==
  /\ body[t] = "exited"
  /\ body' = [body EXCEPT ![t] = "ended"]
  /\ UNCHANGED <<nextId, threads, state, hasError, faulted, joinable, call, phase, disturbed>>

-----------------------------------------------------------------------------
(* GuestThread::join. *)

\* Return from join: to the caller, or to the loop of join_all, which goes on
\* after a success and gives up at the first failure.
Return(c, result) ==
  call' = [call EXCEPT ![c] =
    IF @.all /\ result = "ok" THEN [@ EXCEPT !.pc = "loop", !.target = 0]
    ELSE [NoCall EXCEPT !.result = result]]

Join(c, t) ==
  /\ MayCall(c)
  /\ c \in Joiners
  /\ t \in Members
  /\ call' = [call EXCEPT ![c] = [NoCall EXCEPT !.pc = "check", !.target = t]]
  /\ NoteJoin
  /\ UNCHANGED <<nextId, threads, state, hasError, faulted, joinable, body, phase>>

\* Mutant: a thread that was not started is not refused.
JoinCheckUnstarted(c) ==
  /\ call[c].pc = "check"
  /\ IF state[call[c].target] = "Joined"
     THEN Return(c, "refused")
     ELSE call' = [call EXCEPT ![c].pc = "wait"]
  /\ UNCHANGED <<nextId, threads, state, hasError, faulted, joinable, body, phase, disturbed>>

\* The check under the lock: a thread not started, or already joined, is refused.
JoinCheck(c) ==
  /\ call[c].pc = "check"
  /\ IF state[call[c].target] \in {"Created", "Joined"}
     THEN Return(c, "refused")
     ELSE call' = [call EXCEPT ![c].pc = "wait"]
  /\ UNCHANGED <<nextId, threads, state, hasError, faulted, joinable, body, phase, disturbed>>

\* Mutant: joinable() negated.
JoinTestNegated(c) ==
  /\ call[c].pc = "wait"
  /\ call' = [call EXCEPT ![c].pc = IF joinable[call[c].target] THEN "mark" ELSE "native"]
  /\ UNCHANGED <<nextId, threads, state, hasError, faulted, joinable, body, phase, disturbed>>

\* worker_.joinable(), without the lock.
JoinTest(c) ==
  /\ call[c].pc = "wait"
  /\ call' = [call EXCEPT ![c].pc = IF joinable[call[c].target] THEN "native" ELSE "mark"]
  /\ UNCHANGED <<nextId, threads, state, hasError, faulted, joinable, body, phase, disturbed>>

\* worker_.join(), which waits for the native thread to end.
JoinNative(c) ==
  /\ call[c].pc = "native"
  /\ joinable[call[c].target]
  /\ body[call[c].target] = "ended"
  /\ joinable' = [joinable EXCEPT ![call[c].target] = FALSE]
  /\ call' = [call EXCEPT ![c].pc = "mark"]
  /\ UNCHANGED <<nextId, threads, state, hasError, faulted, body, phase, disturbed>>

\* worker_.join() throws when the worker joins itself and when another caller
\* has reaped the native thread since joinable() was asked; when two callers
\* wait for one native thread, it may.
MayThrow(c) ==
  LET t == call[c].target IN
  \/ t = c
  \/ ~ joinable[t]
  \/ \E d \in Callers \ {c} : call[d].pc \in {"native", "reap"} /\ call[d].target = t

\* Nothing catches what the destructor's join_all throws.
JoinThrows(c) ==
  /\ call[c].pc = "native"
  /\ MayThrow(c)
  /\ call' = [call EXCEPT ![c] = [NoCall EXCEPT !.result = "threw"]]
  /\ phase' = IF c = Host /\ phase = "joining" THEN "terminated" ELSE phase
  /\ UNCHANGED <<nextId, threads, state, hasError, faulted, joinable, body, disturbed>>

JoinMark(c) ==
  /\ call[c].pc = "mark"
  /\ state' = [state EXCEPT ![call[c].target] = "Joined"]
  /\ Return(c, "ok")
  /\ UNCHANGED <<nextId, threads, hasError, faulted, joinable, body, phase, disturbed>>

-----------------------------------------------------------------------------
(* ThreadManager::join_all and ~ThreadManager. *)

\* The snapshot of threads_ under the manager's mutex.
BeginLoop(c) ==
  call' = [call EXCEPT ![c] = [NoCall EXCEPT
    !.pc = "loop", !.todo = threads, !.all = TRUE,
    !.owed = {t \in Members : state[t] \in {"Running", "Exited"}}]]

JoinAll(c) ==
  /\ Asks(c)
  /\ c \in Joiners
  /\ BeginLoop(c)
  /\ NoteJoin
  /\ UNCHANGED <<nextId, threads, state, hasError, faulted, joinable, body, phase>>

\* Mutant: a thread that has already exited is taken for joined.
JoinAllRunning(c) ==
  /\ call[c].pc = "loop"
  /\ IF call[c].todo = <<>>
     THEN call' = [call EXCEPT ![c] = [NoCall EXCEPT !.result = "ok"]]
     ELSE LET t == Head(call[c].todo) IN
          call' = [call EXCEPT ![c].todo = Tail(@),
                     ![c].pc = IF state[t] = "Running" THEN "check" ELSE "loop",
                     ![c].target = IF state[t] = "Running" THEN t ELSE 0]
  /\ UNCHANGED <<nextId, threads, state, hasError, faulted, joinable, body, phase, disturbed>>

\* One round: read the state, and call join only on a thread that has started
\* and is not joined.  The state may change before join checks it again.
JoinAllNext(c) ==
  /\ call[c].pc = "loop"
  /\ IF call[c].todo = <<>>
     THEN call' = [call EXCEPT ![c] = [NoCall EXCEPT !.result = "ok"]]
     ELSE LET t == Head(call[c].todo) IN
          call' = [call EXCEPT ![c].todo = Tail(@),
                     ![c].pc = IF state[t] \in {"Running", "Exited"} THEN "check" ELSE "loop",
                     ![c].target = IF state[t] \in {"Running", "Exited"} THEN t ELSE 0]
  /\ UNCHANGED <<nextId, threads, state, hasError, faulted, joinable, body, phase, disturbed>>

\* The destructor joins what it can.  A join that is refused ends its loop as it
\* ends any other, and the result is ignored ...
Destroy ==
  /\ MayCall(Host)
  /\ phase' = "joining"
  /\ BeginLoop(Host)
  /\ disturbed' = \E t \in Ids : call[t].pc # "idle"
  /\ UNCHANGED <<nextId, threads, state, hasError, faulted, joinable, body>>

DestroyMembers ==
  /\ phase = "joining"
  /\ call[Host].pc = "idle"
  /\ phase' = "destroying"
  /\ UNCHANGED <<nextId, threads, state, hasError, faulted, joinable, body, call, disturbed>>

-----------------------------------------------------------------------------
(* ... then the threads are destroyed, in order: ~GuestThread asks joinable(), *)
(* joins, and last destroys worker_.                                           *)

AtThread(pc) == phase = "destroying" /\ call[Host].pc = pc

\* Mutant: ~GuestThread does not join.
DestroyUnjoined ==
  /\ AtThread("idle")
  /\ threads # <<>>
  /\ call' = [call EXCEPT ![Host].pc = "free", ![Host].target = Head(threads)]
  /\ UNCHANGED <<nextId, threads, state, hasError, faulted, joinable, body, phase, disturbed>>

DestroyTest ==
  /\ AtThread("idle")
  /\ threads # <<>>
  /\ call' = [call EXCEPT ![Host].pc = IF joinable[Head(threads)] THEN "reap" ELSE "free",
                          ![Host].target = Head(threads)]
  /\ UNCHANGED <<nextId, threads, state, hasError, faulted, joinable, body, phase, disturbed>>

DestroyJoin ==
  /\ AtThread("reap")
  /\ joinable[call[Host].target]
  /\ body[call[Host].target] = "ended"
  /\ joinable' = [joinable EXCEPT ![call[Host].target] = FALSE]
  /\ call' = [call EXCEPT ![Host].pc = "free"]
  /\ UNCHANGED <<nextId, threads, state, hasError, faulted, body, phase, disturbed>>

DestroyGuest ==
  /\ AtThread("free")
  /\ ~ joinable[call[Host].target]
  /\ threads' = Tail(threads)
  /\ call' = [call EXCEPT ![Host].pc = "idle", ![Host].target = 0]
  /\ UNCHANGED <<nextId, state, hasError, faulted, joinable, body, phase, disturbed>>

\* Nothing catches what the destructor's join throws, and ~thread terminates when
\* the thread was started after joinable() was asked.
DestroyFails ==
  /\ \/ AtThread("reap") /\ MayThrow(Host)
     \/ AtThread("free") /\ joinable[call[Host].target]
  /\ phase' = "terminated"
  /\ UNCHANGED <<nextId, threads, state, hasError, faulted, joinable, body, call, disturbed>>

Gone ==
  /\ AtThread("idle")
  /\ threads = <<>>
  /\ phase' = "gone"
  /\ UNCHANGED <<nextId, threads, state, hasError, faulted, joinable, body, call, disturbed>>

\* A callback is about to use a thread that is destroyed.
Destroyed(t) == phase \in {"destroying", "gone"} /\ t \notin Members

Dangles(c) ==
  \/ call[c].pc \in {"check", "wait", "native", "mark"} /\ Destroyed(call[c].target)
  \/ call[c].pc = "loop" /\ call[c].todo # <<>> /\ Destroyed(Head(call[c].todo))

UseDestroyed(c) ==
  /\ Dangles(c)
  /\ phase' = "undefined"
  /\ UNCHANGED <<nextId, threads, state, hasError, faulted, joinable, body, call, disturbed>>

\* A callback asks the manager whose members are destroyed, or calls a thread
\* that is.
CallDestroyed(c) ==
  /\ MayCall(c)
  /\ phase \in {"destroying", "gone"}
  /\ phase' = "undefined"
  /\ NoteLate
  /\ UNCHANGED <<nextId, threads, state, hasError, faulted, joinable, body, call>>

\* Nothing is left to do once the manager is gone, and nothing more is said of a
\* process that has terminated or is undefined.
Finished == phase \in {"gone", "terminated", "undefined"} /\ UNCHANGED vars

-----------------------------------------------------------------------------

Init ==
  /\ nextId = 1 % (MaxId + 1)
  /\ threads = <<>>
  /\ state = [t \in Ids |-> "Created"]
  /\ hasError = [t \in Ids |-> FALSE]
  /\ faulted = [t \in Ids |-> FALSE]
  /\ joinable = [t \in Ids |-> FALSE]
  /\ body = [t \in Ids |-> "none"]
  /\ call = [c \in Callers |-> NoCall]
  /\ phase = "alive"
  /\ disturbed = FALSE

Run(t) ==
  Live /\ (GuestFault(t) \/ EntryReturns(t) \/ RecordError(t) \/ MarkExited(t) \/ NativeEnds(t))

InCall(c) ==
  /\ Live
  /\ \/ UseDestroyed(c)
     \/ /\ ~ Dangles(c)
        /\ \/ JoinCheck(c) \/ JoinTest(c) \/ JoinNative(c) \/ JoinThrows(c)
           \/ JoinMark(c) \/ JoinAllNext(c)

Destruction ==
  \/ DestroyMembers \/ DestroyTest \/ DestroyJoin \/ DestroyGuest \/ DestroyFails \/ Gone

Next ==
  \/ \E c \in Callers :
       \/ Create(c)
       \/ CreateFails(c)
       \/ \E t \in Ids : Start(c, t) \/ Join(c, t)
       \/ JoinAll(c)
       \/ CallDestroyed(c)
       \/ InCall(c)
  \/ \E t \in Ids : Run(t)
  \/ Destroy
  \/ Destruction
  \/ Finished

Spec == Init /\ [][Next]_vars

\* Native threads run, entry callbacks return if the calls they make do, and a
\* caller inside a call goes on.
Fairness ==
  /\ \A t \in Ids : WF_vars(Run(t)) /\ SF_vars(Live /\ EntryReturns(t))
  /\ \A c \in Callers : WF_vars(InCall(c))
  /\ WF_vars(Destruction)

FairSpec == Spec /\ Fairness

-----------------------------------------------------------------------------
(* Properties. *)

Calls ==
  [pc : {"idle", "check", "wait", "native", "mark", "loop", "reap", "free"}, target : Ids \cup {0},
   todo : Seq(Ids), all : BOOLEAN, owed : SUBSET Ids, result : {"none", "ok", "refused", "threw"}]

TypeOK ==
  /\ nextId \in 0 .. MaxId
  /\ threads \in Seq(Ids)
  /\ state \in [Ids -> {"Created", "Running", "Exited", "Joined"}]
  /\ hasError \in [Ids -> BOOLEAN]
  /\ faulted \in [Ids -> BOOLEAN]
  /\ joinable \in [Ids -> BOOLEAN]
  /\ body \in [Ids -> {"none", "entry", "failed", "exiting", "exited", "ended"}]
  /\ call \in [Callers -> Calls]
  /\ phase \in {"alive", "joining", "destroying", "gone", "terminated", "undefined"}
  /\ disturbed \in BOOLEAN

\* No two threads of the manager have one identifier, although the counter wraps
\* to 0 and a failed allocation uses one up: find returns the thread create did.
IdsDistinct == \A i, j \in 1 .. Len(threads) : threads[i] = threads[j] => i = j

\* A thread reported Joined has no native thread left, neither running nor
\* waiting to be reaped: whoever sees Joined may release what the entry used.
JoinedMeansReaped ==
  \A t \in Ids : state[t] = "Joined" => body[t] = "ended" /\ ~ joinable[t]

Rank(s) == CASE s = "Created" -> 0 [] s = "Running" -> 1 [] s = "Exited" -> 2 [] s = "Joined" -> 3

\* The lifecycle only goes forward and never skips Exited, however joins,
\* failures and exits interleave: a late exit cannot overwrite Joined.
LifecycleForward ==
  [][\A t \in Ids : state'[t] # state[t] => Rank(state'[t]) = Rank(state[t]) + 1]_vars

HasError(t) == hasError[t] \/ faulted[t]

\* An error is recorded before the thread can be seen Exited, and never after:
\* what has_error answers from then on is final.
ErrorFinalOnceExited ==
  [][\A t \in Ids : state[t] \in {"Exited", "Joined"} => HasError(t)' = HasError(t)]_vars

\* A join_all that reports success has joined every thread that was started
\* and not joined when it began, whatever was started or joined meanwhile.
JoinAllComplete ==
  [][\A c \in Callers :
       call[c].all /\ ~ call'[c].all /\ call'[c].result = "ok" =>
         \A t \in call[c].owed : state[t] = "Joined"]_vars

\* What docs/MILESTONE_9.md says of the errors of an entry callback: they are
\* returned through join, so a join that succeeds had none to return.
JoinReturnsEntryError ==
  [][\A c \in Callers :
       call[c].pc = "mark" /\ call'[c].pc # "mark" => ~ hasError[call[c].target]]_vars

\* Entry callbacks wait in join for each other in a circle.
Circular ==
  \E ring \in (SUBSET Ids) \ {{}} :
    \A t \in ring : call[t].pc = "native" /\ call[t].target \in ring \ {t}

\* Every join and join_all returns, from whatever callers, unless entry callbacks
\* come to wait for each other in a circle (a self join throws) or the process ends
\* under the caller.
CallsReturn ==
  []~Circular => \A c \in Callers : call[c].pc # "idle" ~> call[c].pc = "idle" \/ ~Live

\* No native thread runs, and none is left to be joined.
AllReaped == \A t \in Ids : body[t] \in {"none", "ended"} /\ ~ joinable[t]

\* Destroying the manager ends with every native thread ended and reaped, whatever
\* callbacks create and start meanwhile, unless one was in the destructor's way.
\* Then too it ends, perhaps with the process.
DestructionEnds ==
  []~Circular => (phase = "joining" ~> (phase = "gone" /\ AllReaped) \/ (disturbed /\ ~Live))

\* What a call has still to do: its rest of the snapshot, and its place in a join.
Place(pc) ==
  CASE pc = "check" -> 5
    [] pc = "wait" -> 4
    [] pc = "native" -> 3
    [] pc \in {"mark", "reap"} -> 2
    [] pc \in {"loop", "free"} -> 1
    [] OTHER -> 0

CallLeft(r) == 5 * Len(r.todo) + Place(r.pc)

\* Why calls return: a caller inside one moves only nearer to its end, whatever is
\* created, started or joined around it.  No join_all grows or starts over.
CallsAdvance ==
  [][\A c \in Callers :
       call[c].pc # "idle" /\ call'[c] # call[c] => CallLeft(call'[c]) < CallLeft(call[c])]_vars

\* A caller waits in join for a native thread other than its own.
Waits(c) ==
  LET t == call[c].target IN
  call[c].pc \in {"native", "reap"} /\ t # c /\ joinable[t] /\ body[t] # "ended"

\* A native thread can take a step of its own.
Moves(t) ==
  \/ body[t] \in {"failed", "exiting", "exited"}
  \/ body[t] = "entry" /\ call[t].pc = "idle"

\* Everybody inside a call waits, and no native thread moves.
Stalled ==
  /\ \E c \in Callers : call[c].pc # "idle"
  /\ \A c \in Callers : call[c].pc # "idle" => Waits(c)
  /\ \A t \in Ids : ~Moves(t)

\* Then entry callbacks wait for each other in a circle: neither a race of joiners
\* nor an error, a thread not started or one already joined leaves anybody waiting.
OnlyCirclesBlock == Stalled => Circular

\* A manager that is gone has left no native thread, whatever its callbacks did.  And
\* when none was in the destructor's way, nothing goes wrong in it: the join_all
\* whose result it ignores has not failed, no join throws and none is missing.
DestructorSafe ==
  /\ phase = "gone" => AllReaped
  /\ ~ disturbed => Live /\ (phase \in {"destroying", "gone"} => call[Host].result = "ok")

=============================================================================
