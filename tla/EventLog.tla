------------------------------ MODULE EventLog ------------------------------
(***************************************************************************)
(* The diagnostic events of one execution session: record_event of          *)
(* src/switchrecomp/execution/session.cpp.  Every event has a sequence      *)
(* number; the session keeps the first few events and a window of the most  *)
(* recent ones.  An optional limit refuses the event after the last         *)
(* allowed one and stops the session.  Of an event only the sequence number *)
(* is kept here, and the kind of the newest.                                *)
(***************************************************************************)
EXTENDS Integers, Sequences

None == "None"

\* Of the kinds told apart here Boundary stands for every one that only a stop
\* records, and Call for both kinds of call.
Kinds ==
  {"SessionStart", "EntrySelected", "StackMapped", "FunctionEnter", "Call", "FunctionTransfer",
   "Return", "FunctionResume", "ImportResolved", "ImportEnter", "ImportArguments",
   "ImportReturn", "Boundary", "SessionStop"}

Logs ==
  [total : Nat, kept : Seq(Nat), truncated : BOOLEAN,
   last : Kinds \cup {None}, attempt : Kinds \cup {None}]

EmptyLog ==
  [total     |-> 0,      \* the events recorded
   kept      |-> <<>>,   \* the sequence numbers of the retained ones
   truncated |-> FALSE,  \* whether one was dropped
   last      |-> None,   \* the kind of the newest one
   attempt   |-> None]   \* the kind of the event the limit refused

Open(log) == log.attempt = None

\* A limit of 0 stands for the absent one.
Refuses(log, limit) == limit # 0 /\ log.total >= limit

Prefix(capacity) == capacity \div 2

\* Mutant: the window is not moved on.
RetainedUnmoved(log, capacity) ==
  Append(IF Len(log.kept) < capacity \/ log.truncated THEN log.kept
         ELSE SubSeq(log.kept, 1, Prefix(capacity)),
         log.total)

\* The retained events with the newest one.  The first one too many drops all
\* that follow the prefix, the next ones the oldest of the window.
Retained(log, capacity) ==
  LET head == SubSeq(log.kept, 1, Prefix(capacity))
      window == SubSeq(log.kept, Prefix(capacity) + 2, Len(log.kept))
  IN
  Append(IF Len(log.kept) < capacity THEN log.kept
         ELSE IF log.truncated THEN head \o window
         ELSE head,
         log.total)

\* Nothing is recorded after a refusal: every caller returns.
Record(log, kind, capacity, limit) ==
  IF ~ Open(log) THEN log
  ELSE IF Refuses(log, limit) THEN [log EXCEPT !.attempt = kind]
  ELSE [log EXCEPT !.total = @ + 1,
                   !.kept = Retained(log, capacity),
                   !.truncated = @ \/ Len(log.kept) >= capacity,
                   !.last = kind]

-----------------------------------------------------------------------------

\* What a reader of the report relies on: the history is the first events, as
\* many as the prefix holds, then the most recent ones without a gap, and it is
\* everything until the first event that did not fit.
Shaped(log, capacity) ==
  LET size == Len(log.kept) IN
  /\ size <= capacity
  /\ IF log.truncated
     THEN /\ Prefix(capacity) < size
          /\ size < log.total
          /\ \A i \in 1 .. Prefix(capacity) : log.kept[i] = i - 1
          /\ \A i \in Prefix(capacity) + 1 .. size : log.kept[i] = log.total - 1 - (size - i)
     ELSE /\ size = log.total
          /\ \A i \in 1 .. size : log.kept[i] = i - 1

=============================================================================
