----------------------------- MODULE CommonLog ------------------------------
(***************************************************************************)
(* The logger of common/log.cpp: any thread adds messages to a ring buffer *)
(* that grows when it is full, one worker thread prints them, and a        *)
(* controller pauses and resumes the worker around changes of the log file *)
(* and of the colours.  pause stops the worker with a sentinel entry and   *)
(* joins it.  pause, resume, set_file and set_colors are documented as not *)
(* thread-safe, so there is one controller; add and the setters of the     *)
(* style may be called by any thread at any time.                          *)
(***************************************************************************)
EXTENDS Integers, Sequences

CONSTANTS
    Capacity,   \* entries of a new log
    MaxAdds,    \* bound on the messages add accepts
    Flags,      \* "prefix" and "timestamps": whether entries are marked with them
    Sinks,      \* what file and g_col may be set to, the two together
    NoSink      \* no file and no colours

ASSUME LogAssumption ==
    /\ Capacity \in Nat \ {0} /\ MaxAdds \in Nat
    /\ NoSink \in Sinks

\* An entry of the ring; level and text are its place in the order of add.
Entry == [msg : 0..MaxAdds, style : SUBSET Flags, is_end : BOOLEAN]
Blank == [msg |-> 0, style |-> {}, is_end |-> FALSE]

VARIABLES
    entries, size, head, tail,   \* the ring buffer; size is entries.size()
    running, style,              \* guarded by the mutex
    sink,                        \* file and g_col: no mutex guards them
    worker,     \* "none", "check" (about to test the predicate), "asleep" on
                \* the condition variable, "print", "exited"
    cur,        \* the entry the worker copied
    ctl,        \* the controller: "idle", "join", "destroyed"
    todo,       \* what its call does once the worker is joined
    accepted,   \* history: what add accepted, and the sink at that time
    printed     \* history: what was printed, and where

ring == <<entries, size, head, tail>>
vars == <<ring, running, style, sink, worker, cur, ctl, todo, accepted, printed>>

Alive == {"check", "asleep", "print"}
\* The calls of the controller that pause first: pause, the destructor, set_file and
\* set_colors with the sink they leave.
Todo == {[op |-> "pause"], [op |-> "destroy"]} \cup [op : {"change"}, to : Sinks]

-----------------------------------------------------------------------------
\* common_log(capacity), which ends with resume(): the worker is started.
Init ==
    /\ entries = [i \in 0..(Capacity - 1) |-> Blank]
    /\ size = Capacity /\ head = 0 /\ tail = 0
    /\ running = TRUE /\ style = {} /\ sink = NoSink
    /\ worker = "check" /\ cur = Blank
    /\ ctl = "idle" /\ todo = [op |-> "pause"]
    /\ accepted = <<>> /\ printed = <<>>

\* Seeded fault: nobody is woken.
NotNotified == worker
\* cv.notify_one(): the only waiter is the worker.
Notified == IF worker = "asleep" THEN "check" ELSE worker

\* Seeded fault: the index runs past the end before it wraps.
AdvanceLate(i) == IF i = size THEN 0 ELSE i + 1
Advance(i) == (i + 1) % size

\* Seeded fault: expanding copies the entries without rotating them to the front.
ExpandInPlace(ring1) ==
    /\ entries' = [i \in 0..(2 * size - 1) |-> IF i < size THEN ring1[i] ELSE Blank]
    /\ size' = 2 * size /\ head' = 0 /\ tail' = size
\* The buffer is full: twice the entries, the oldest at index 0.
Expand(ring1) ==
    /\ entries' = [i \in 0..(2 * size - 1) |->
                     IF i < size THEN ring1[(head + i) % size] ELSE Blank]
    /\ size' = 2 * size /\ head' = 0 /\ tail' = size

\* Seeded fault: a reused entry keeps its is_end mark.
FreshKeepsEnd(m) == [msg |-> m, style |-> style, is_end |-> entries[tail].is_end]
Fresh(m) == [msg |-> m, style |-> style, is_end |-> FALSE]

\* add while the worker is not paused.
Add ==
    /\ ctl # "destroyed" /\ running
    /\ Len(accepted) < MaxAdds
    /\ LET ring1 == [entries EXCEPT ![tail] = Fresh(Len(accepted) + 1)]
       IN IF Advance(tail) = head
          THEN Expand(ring1)
          ELSE /\ entries' = ring1 /\ tail' = Advance(tail)
               /\ UNCHANGED <<size, head>>
    /\ accepted' = Append(accepted, [msg |-> Len(accepted) + 1, style |-> style,
                                       sink |-> sink])
    /\ worker' = Notified
    /\ UNCHANGED <<running, style, sink, cur, ctl, todo, printed>>

\* add while it is paused: the message is discarded.
Discard ==
    /\ ctl # "destroyed" /\ ~running
    /\ UNCHANGED vars

\* set_prefix, set_timestamps
SetStyle ==
    /\ ctl # "destroyed"
    /\ \E f \in Flags, on \in BOOLEAN :
         style' = IF on THEN style \cup {f} ELSE style \ {f}
    /\ UNCHANGED <<ring, running, sink, worker, cur, ctl, todo, accepted, printed>>

-----------------------------------------------------------------------------
\* The worker thread.  cv.wait with nothing to take: it sleeps.
Sleep ==
    /\ worker = "check" /\ head = tail
    /\ worker' = "asleep"
    /\ UNCHANGED <<ring, running, style, sink, cur, ctl, todo, accepted, printed>>

\* It takes the oldest entry; the sentinel ends the loop.
Take ==
    /\ worker = "check" /\ head # tail
    /\ cur' = entries[head]
    /\ head' = Advance(head)
    /\ worker' = IF entries[head].is_end THEN "exited" ELSE "print"
    /\ UNCHANGED <<entries, size, tail, running, style, sink, ctl, todo,
                   accepted, printed>>

\* cur.print() and cur.print(file), outside the mutex.
PrintCur ==
    /\ worker = "print"
    /\ printed' = Append(printed, [msg |-> cur.msg, style |-> cur.style, sink |-> sink])
    /\ worker' = "check"
    /\ UNCHANGED <<ring, running, style, sink, cur, ctl, todo, accepted>>

-----------------------------------------------------------------------------
\* The controller.  resume() does nothing if the worker runs.
Resume ==
    /\ ctl = "idle" /\ ~running
    /\ running' = TRUE /\ worker' = "check"
    /\ UNCHANGED <<ring, style, sink, cur, ctl, todo, accepted, printed>>

\* Seeded fault: the oldest entry is turned into the sentinel.
PauseAtHead(t) ==
    /\ ctl = "idle" /\ running
    /\ running' = FALSE
    /\ entries' = [entries EXCEPT ![head].is_end = TRUE]
    /\ tail' = IF head = tail THEN Advance(tail) ELSE tail
    /\ worker' = Notified
    /\ ctl' = "join" /\ todo' = t
    /\ UNCHANGED <<size, head, style, sink, cur, accepted, printed>>
\* The locked part of pause(), called by pause, set_file, set_colors or the
\* destructor: stop accepting, push the sentinel (there is no test for a full
\* buffer here), wake the worker.
Pause(t) ==
    /\ ctl = "idle" /\ running
    /\ running' = FALSE
    /\ entries' = [entries EXCEPT ![tail].is_end = TRUE]
    /\ tail' = Advance(tail)
    /\ worker' = Notified
    /\ ctl' = "join" /\ todo' = t
    /\ UNCHANGED <<size, head, style, sink, cur, accepted, printed>>

\* What follows pause() in the caller: nothing, or the new sink and resume(),
\* or the end of the log.
Rest(t) ==
    \/ /\ t.op = "pause"
       /\ worker' = "none" /\ ctl' = "idle" /\ UNCHANGED <<running, sink>>
    \/ /\ t.op = "change"
       /\ sink' = t.to
       /\ running' = TRUE /\ worker' = "check" /\ ctl' = "idle"
    \/ /\ t.op = "destroy"
       /\ worker' = "none" /\ ctl' = "destroyed" /\ UNCHANGED <<running, sink>>

\* Seeded fault: the caller goes on without waiting for the worker.
NoJoin ==
    /\ ctl = "join"
    /\ Rest(todo)
    /\ UNCHANGED <<ring, style, cur, todo, accepted, printed>>
\* thrd.join() returns, and the caller goes on.
Join ==
    /\ ctl = "join" /\ worker = "exited"
    /\ Rest(todo)
    /\ UNCHANGED <<ring, style, cur, todo, accepted, printed>>

\* set_file, set_colors or the destructor while paused: pause() returns at once.
\* Changing the sink resumes the worker, even after an explicit pause.
WhilePaused(t) ==
    /\ ctl = "idle" /\ ~running /\ t.op # "pause"
    /\ Rest(t)
    /\ todo' = t
    /\ UNCHANGED <<ring, style, cur, accepted, printed>>

-----------------------------------------------------------------------------
Worker == Sleep \/ Take \/ PrintCur

Next ==
    \/ Add
    \/ Discard
    \/ SetStyle
    \/ Worker
    \/ Resume
    \/ \E t \in Todo : Pause(t)
    \/ \E t \in Todo : WhilePaused(t)
    \/ Join

\* The worker thread and the caller of pause keep running.
Spec == Init /\ [][Next]_vars /\ WF_vars(Worker) /\ WF_vars(Join)

-----------------------------------------------------------------------------
\* Type correctness of the ring and of its users: head and tail of add, pause and the
\* worker stay inside entries, whatever its size.
TypeOK ==
    /\ size \in Nat \ {0} /\ head \in 0..(size - 1) /\ tail \in 0..(size - 1)
    /\ entries \in [0..(size - 1) -> Entry]
    /\ running \in BOOLEAN /\ style \in SUBSET Flags /\ sink \in Sinks
    /\ worker \in Alive \cup {"none", "exited"} /\ cur \in Entry
    /\ ctl \in {"idle", "join", "destroyed"} /\ todo \in Todo
    /\ accepted \in Seq([msg : 1..MaxAdds, style : SUBSET Flags, sink : Sinks])
    /\ printed \in Seq([msg : 0..MaxAdds, style : SUBSET Flags, sink : Sinks])

\* pause() found size - 1 entries waiting: its sentinel has made the full buffer
\* look empty.
Overrun == ctl = "join" /\ head = tail /\ worker # "exited"

\* The sentinel of pause() is still in the buffer.
Ending == IF ctl = "join" /\ worker # "exited" THEN 1 ELSE 0
InHand == IF worker = "print" THEN 1 ELSE 0
\* What a reader of head and tail takes for the number of messages waiting.
Waiting == ((tail + size - head) % size) - Ending

\* The entry with which message i was accepted.
Carries(e, i) == ~e.is_end /\ e.msg = accepted[i].msg /\ e.style = accepted[i].style

\* Messages are printed in the order add accepted them, each once, with the
\* prefix and timestamp settings of that moment, and the buffer holds exactly
\* the accepted ones not yet printed, in order, across any number of wraps and
\* expansions; only a pause() that found the buffer full escapes this.
NothingLost ==
    /\ Len(printed) + InHand <= Len(accepted)
    /\ \A i \in 1..Len(printed) :
         printed[i].msg = accepted[i].msg /\ printed[i].style = accepted[i].style
    /\ worker = "print" => Carries(cur, Len(printed) + 1)
    /\ ~Overrun =>
         /\ Len(printed) + InHand + Waiting = Len(accepted)
         /\ \A k \in 1..Waiting :
              Carries(entries[(head + k - 1) % size], Len(printed) + InHand + k)

\* Once pause() has returned, everything add accepted before it has been printed,
\* and the worker touches neither the file nor the colours, which the caller is
\* about to change without a lock.
PauseFlushes ==
    ctl # "join" /\ ~running =>
        worker \notin Alive /\ Len(printed) = Len(accepted)

\* A message is written to the file, and in the colours, that were set when it was
\* accepted, however late the worker prints it.
IntoItsSink == \A i \in 1..Len(printed) : printed[i].sink = accepted[i].sink

\* pause(), and with it set_file, set_colors and the destructor, returns unless it
\* found the buffer full.
PauseReturns == ctl = "join" ~> (ctl # "join" \/ Overrun)

\* "push an entry to signal the worker thread to stop" (log.cpp:316): pause() always
\* gets the worker to stop.
PauseAlwaysStops == ctl = "join" ~> ctl # "join"

\* Whatever add accepted is printed in the end: no wakeup of the worker is lost.
Delivered == Len(accepted) > Len(printed) ~> (Len(printed) = Len(accepted) \/ Overrun)
=============================================================================
