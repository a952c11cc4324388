--------------------------- MODULE ProcessStream ---------------------------
(***************************************************************************)
(* The processes of one task: _stream_process in runners.py, the reader    *)
(* thread it starts, and _SignalHandler, over the attempts of the task.    *)
(*                                                                         *)
(* The main thread (a worker of the pool) polls the process and the        *)
(* deadline; the reader takes lines from the pipe and hands signals to the *)
(* handler, which may move the deadline; the process and a child of its    *)
(* that has inherited the pipe write lines.  Time counts in the units of   *)
(* Timeout; what a thread can do it does before the clock moves on.  The   *)
(* stderr reader does the same as the stdout reader without signals.       *)
(***************************************************************************)
EXTENDS Naturals, Sequences

CONSTANTS
  StreamAttempts,   \* 1 + max_retries
  Timeout,       \* timeout_sec
  Extension,     \* additional_sec of a timeout_extend signal
  JoinTime,      \* how long the reader is waited for
  MaxSignals,    \* _SIGNAL_MAX_TOTAL
  MaxLines,      \* bound: lines written in an attempt
  MaxTime        \* bound: the clock

ASSUME StreamAssumption ==
  {StreamAttempts, Timeout, Extension, JoinTime, MaxSignals, MaxLines, MaxTime} \subseteq Nat \ {0}

Attempt == 1 .. StreamAttempts
Line == {"output", "extend"}

VARIABLES
  now,        \* time.monotonic() since the attempt began
  current,    \* the attempt in hand, whose handler is signal_handler
  main,       \* where the main thread is
  until,      \* when the join it waits in gives up
  proc,       \* per attempt: none, running, ended or killed
  child,      \* a child of the process is alive, the pipe open in it
  forked,     \* there has been such a child
  written,    \* lines written
  pipe,       \* lines written and not read
  reader,     \* none, reading or done
  tail,       \* lines in last_lines
  deadline,   \* deadline_ref[0]
  signals,    \* signals the handler of the attempt has taken
  stray,      \* the reader has given a line to the handler of a later attempt
  code        \* what the process ended with, or 124: none, ok, bad, timeout

actors == <<proc, child, forked, written>>
threads == <<pipe, reader, tail, deadline, signals, stray>>
streamVars == <<now, current, main, until, actors, threads, code>>

Each(x) == [a \in Attempt |-> x]

StreamAt(place) ==
  /\ now = 0 /\ current = 0 /\ main = place /\ until = 0
  /\ proc = Each("none") /\ child = Each(FALSE) /\ forked = Each(FALSE)
  /\ written = Each(0) /\ pipe = Each(<<>>) /\ reader = Each("none") /\ tail = Each(0)
  /\ deadline = Each(0) /\ signals = Each(0) /\ stray = Each(FALSE) /\ code = Each("none")
StreamInit == StreamAt("idle")

LogClosed == main = "closed"

Writing(a) == proc[a] = "running" \/ child[a]

-----------------------------------------------------------------------------
(* The process and its child *)

Write(a, line) ==
  /\ Writing(a) /\ ~LogClosed /\ written[a] < MaxLines
  /\ written' = [written EXCEPT ![a] = @ + 1]
  /\ pipe' = [pipe EXCEPT ![a] = Append(@, line)]
  /\ UNCHANGED <<now, current, main, until, proc, child, forked, reader, tail,
                 deadline, signals, stray, code>>

Fork(a) ==
  /\ proc[a] = "running" /\ ~forked[a]
  /\ child' = [child EXCEPT ![a] = TRUE]
  /\ forked' = [forked EXCEPT ![a] = TRUE]
  /\ UNCHANGED <<now, current, main, until, proc, written, threads, code>>

ChildEnds(a) ==
  /\ child[a] /\ ~LogClosed
  /\ child' = [child EXCEPT ![a] = FALSE]
  /\ UNCHANGED <<now, current, main, until, proc, forked, written, threads, code>>

ProcessExits(a, how) ==
  /\ proc[a] = "running"
  /\ proc' = [proc EXCEPT ![a] = "ended"]
  /\ code' = [code EXCEPT ![a] = how]
  /\ UNCHANGED <<now, current, main, until, child, forked, written, threads>>

-----------------------------------------------------------------------------
(* The reader thread *)


\* _on_line reads signal_handler when it is called: the handler of the
\* attempt that is in hand then.
Handler == current

Extends(line, h) == line = "extend" /\ signals[h] < MaxSignals

NewDeadlineFromNow(h) == now + Extension   \* mutant: forgets the time that is left

\* _handle_timeout_extend.  The signal's own limit is in Extension; the
\* limit of the handler, _max_timeout, is not looked at.
NewDeadline(h) == deadline[h] + Extension

\* A line is written to the log and kept before it is looked at; writing to
\* a log that is closed ends the thread.
ReadLine(a) ==
  /\ reader[a] = "reading" /\ pipe[a] # <<>>
  /\ LET line == Head(pipe[a])  h == Handler
     IN  IF LogClosed
         THEN /\ reader' = [reader EXCEPT ![a] = "done"]
              /\ UNCHANGED <<tail, deadline, signals, stray>>
         ELSE /\ tail' = [tail EXCEPT ![a] = @ + 1]
              /\ stray' = [stray EXCEPT ![a] = @ \/ h # a]
              /\ IF Extends(line, h)
                 THEN /\ deadline' = [deadline EXCEPT ![h] = NewDeadline(h)]
                      /\ signals' = [signals EXCEPT ![h] = @ + 1]
                 ELSE UNCHANGED <<deadline, signals>>
              /\ UNCHANGED reader
  /\ pipe' = [pipe EXCEPT ![a] = Tail(@)]
  /\ UNCHANGED <<now, current, main, until, actors, code>>

EndOfFile(a) == pipe[a] = <<>> /\ ~Writing(a)

ReadEnds(a) ==
  /\ reader[a] = "reading" /\ EndOfFile(a)
  /\ reader' = [reader EXCEPT ![a] = "done"]
  /\ UNCHANGED <<now, current, main, until, actors, pipe, tail, deadline, signals,
                 stray, code>>

-----------------------------------------------------------------------------
(* The main thread *)

\* deadline_ref and the handler are the call's own; those of an earlier one are gone.
StartAttempt ==
  /\ main = "idle" /\ main' = "poll"
  /\ current' = current + 1
  /\ proc' = [proc EXCEPT ![current'] = "running"]
  /\ reader' = [reader EXCEPT ![current'] = "reading"]
  /\ now' = 0
  /\ deadline' = [Each(0) EXCEPT ![current'] = Timeout] /\ signals' = Each(0)
  /\ UNCHANGED <<until, child, forked, written, pipe, tail, stray, code>>

Running == proc[current] = "running"

\* The deadline as it is now has passed; the kill comes after.
FindLate ==
  /\ main = "poll" /\ now >= deadline[current]
  /\ main' = "kill"
  /\ UNCHANGED <<now, current, until, actors, threads, code>>

\* _kill_process_tree: on POSIX the process alone, not its children.  The
\* result is 124 even if the process has just ended by itself.
Kill ==
  /\ main = "kill" /\ main' = "join"
  /\ proc' = IF Running THEN [proc EXCEPT ![current] = "killed"] ELSE proc
  /\ until' = now + JoinTime
  /\ code' = [code EXCEPT ![current] = "timeout"]
  /\ UNCHANGED <<now, current, child, forked, written, threads>>

FindEnded ==
  /\ main = "poll" /\ ~Running
  /\ main' = "drain" /\ until' = now + JoinTime
  /\ UNCHANGED <<now, current, actors, threads, code>>

ReaderDone == reader[current] = "done"

JoinOverAtOnce == TRUE   \* mutant: the reader is not waited for
JoinOverDone == ReaderDone   \* mutant: join without a timeout
JoinOver == ReaderDone \/ now >= until

\* The reader is stuck on a pipe that a child holds open: kill (nothing is
\* left to kill on POSIX) and wait once more.
GiveUpDraining ==
  /\ main = "drain" /\ JoinOver /\ ~ReaderDone
  /\ main' = "join" /\ until' = now + JoinTime
  /\ UNCHANGED <<now, current, actors, threads, code>>

\* _stream_process returns; the next attempt, or the end of the log.
Return ==
  /\ (main = "join" /\ JoinOver) \/ (main = "drain" /\ ReaderDone)
  /\ main' = IF code[current] # "ok" /\ current < StreamAttempts THEN "idle" ELSE "closed"
  /\ until' = 0
  /\ UNCHANGED <<now, current, actors, threads, code>>

MainStep == StartAttempt \/ FindLate \/ Kill \/ FindEnded \/ GiveUpDraining \/ Return
ReaderStep(a) == ReadLine(a) \/ ReadEnds(a)

MainReady ==
  \/ main \in {"idle", "kill"}
  \/ main = "poll" /\ (now >= deadline[current] \/ ~Running)
  \/ main = "drain" /\ (JoinOver \/ ReaderDone)
  \/ main = "join" /\ JoinOver
ReaderReady(a) == reader[a] = "reading" /\ (pipe[a] # <<>> \/ EndOfFile(a))

\* Threads are fast compared with the clock.
Tick ==
  /\ now < MaxTime /\ main # "closed"
  /\ ~MainReady
  /\ \A a \in Attempt : ~ReaderReady(a)
  /\ now' = now + 1
  /\ UNCHANGED <<current, main, until, actors, threads, code>>

StreamOver == main = "closed" /\ UNCHANGED streamVars

StreamNext ==
  \/ MainStep \/ Tick \/ StreamOver
  \/ \E a \in Attempt :
       \/ ReaderStep(a) \/ Fork(a) \/ ChildEnds(a)
       \/ \E line \in Line : Write(a, line)
       \/ \E how \in {"ok", "bad"} : ProcessExits(a, how)

StreamSpec == StreamInit /\ [][StreamNext]_streamVars

\* Threads and the clock keep going; no process need ever end or write.
Fairness == /\ WF_streamVars(MainStep) /\ WF_streamVars(Tick)
            /\ \A a \in Attempt : WF_streamVars(ReaderStep(a))
FairStream == StreamSpec /\ Fairness

-----------------------------------------------------------------------------
(***************************************************************************)
(* Properties                                                              *)
(***************************************************************************)
\* The attempts of a task do not touch each other.  A command that ends by
\* itself is returned with all it wrote, nothing a later check reads is missing;
\* its process is over when the next one starts (the retries of
\* runners.py:7564); a signal is taken by the handler of the attempt that sent
\* it.  The exception is a child of the command that outlives it with the pipe
\* open.
AttemptsApart ==
  \A a \in Attempt :
    /\ main \in {"idle", "closed"} /\ code[a] \in {"ok", "bad"} /\ ~forked[a] => tail[a] = written[a]
    /\ proc[a] = "running" => a = current /\ main \in {"poll", "kill"}
    /\ stray[a] => forked[a]

\* A command is given up only when it has had its timeout and every extension
\* granted to it until then, whichever thread has moved the deadline and when
\* (deadline_ref, runners.py:3946).
TimeoutKept ==
  [][main' = "kill" /\ main # "kill" =>
       now >= Timeout + Extension * signals[current]]_streamVars

\* _stream_process returns from every attempt, whoever holds the pipe and
\* however long the command would run: what WF of a worker rests on.
StreamReturns == <>(main = "closed")
=============================================================================
