-------------------------- MODULE TaskPartsProofs --------------------------
(***************************************************************************)
(* Theorems about the parts of a task: the processes of its attempts, the  *)
(* council that deliberates for it, the judge of its output and what it is *)
(* told before it starts, for every value of their constants.              *)
(***************************************************************************)
EXTENDS ProcessStream, Council, Judging, TaskContext, DataLemmas, TLAPS

-----------------------------------------------------------------------------
(***************************************************************************)
(* The processes of the attempts                                           *)
(***************************************************************************)
StreamTyped ==
  /\ now \in Nat /\ until \in Nat /\ current \in 0 .. StreamAttempts
  /\ main \in {"idle", "poll", "kill", "drain", "join", "closed"}
  /\ main = "idle" => current < StreamAttempts
  /\ main # "idle" => current \in Attempt
  /\ proc \in [Attempt -> {"none", "running", "ended", "killed"}]
  /\ reader \in [Attempt -> {"none", "reading", "done"}]
  /\ code \in [Attempt -> {"none", "ok", "bad", "timeout"}]
  /\ child \in [Attempt -> BOOLEAN] /\ forked \in [Attempt -> BOOLEAN]
  /\ stray \in [Attempt -> BOOLEAN]
  /\ written \in [Attempt -> Nat] /\ tail \in [Attempt -> Nat]
  /\ pipe \in [Attempt -> Seq(Line)]
  /\ deadline \in [Attempt -> Nat] /\ signals \in [Attempt -> Nat]

\* An attempt that is still to come has left no trace; one that was started
\* has a process and a reader; only the one in hand has a process that runs.
Traces(a) ==
  /\ a > current => /\ proc[a] = "none" /\ reader[a] = "none" /\ code[a] = "none"
                    /\ pipe[a] = <<>> /\ written[a] = 0 /\ tail[a] = 0 /\ ~forked[a]
  /\ a <= current => proc[a] # "none" /\ reader[a] # "none"
  /\ proc[a] = "running" => a = current /\ main \in {"poll", "kill"}
  /\ child[a] => forked[a]
  /\ stray[a] => forked[a]

\* Nothing of a command without a child is lost: what is not read is in the
\* pipe, the reader ends when the pipe is empty, and while the main thread
\* waits for a reader that has work the clock stands still.
Lossless(a) ==
  ~forked[a] =>
    /\ tail[a] + Len(pipe[a]) = written[a]
    /\ reader[a] = "done" => pipe[a] = <<>> /\ proc[a] # "running"
    /\ reader[a] = "reading" => a = current /\ main \in {"poll", "kill", "drain", "join"}
    /\ reader[a] = "reading" /\ main \in {"drain", "join"} => now < until

\* The deadline of the attempt in hand is what it was given and granted.
DeadlineGranted ==
  main # "idle" => deadline[current] = Timeout + Extension * signals[current]

StreamInv ==
  /\ StreamTyped /\ DeadlineGranted
  /\ \A a \in Attempt : Traces(a) /\ Lossless(a)

LEMMA InitStream == StreamInit => StreamInv
<1> SUFFICES ASSUME StreamInit PROVE StreamInv
  OBVIOUS
<1>1. /\ now = 0 /\ current = 0 /\ main = "idle" /\ until = 0
      /\ proc = Each("none") /\ child = Each(FALSE) /\ forked = Each(FALSE)
      /\ written = Each(0) /\ pipe = Each(<<>>) /\ reader = Each("none") /\ tail = Each(0)
      /\ deadline = Each(0) /\ signals = Each(0) /\ stray = Each(FALSE) /\ code = Each("none")
  BY DEF StreamInit, StreamAt
<1>2. StreamTyped
  BY <1>1, StreamAssumption DEF StreamTyped, Each, Attempt
<1>3. DeadlineGranted
  BY <1>1 DEF DeadlineGranted
<1>4. ASSUME NEW a \in Attempt PROVE Traces(a) /\ Lossless(a)
  <2>1. a \in Nat /\ a > 0 /\ Len(<<>>) = 0
    BY StreamAssumption DEF Attempt
  <2>2. /\ proc[a] = "none" /\ reader[a] = "none" /\ code[a] = "none" /\ pipe[a] = <<>>
        /\ written[a] = 0 /\ tail[a] = 0 /\ ~forked[a] /\ ~child[a] /\ ~stray[a]
    BY <1>1 DEF Each
  <2>3. a > current /\ ~(a <= current)
    BY <1>1, <2>1
  <2>4. Traces(a)
    BY <2>2, <2>3, Zenon DEF Traces
  <2>5. Len(pipe[a]) = 0 /\ tail[a] + Len(pipe[a]) = written[a]
    BY <2>1, <2>2
  <2>6. Lossless(a)
    BY <2>2, <2>5 DEF Lossless
  <2> QED
    BY <2>4, <2>6
<1> QED
  BY <1>2, <1>3, <1>4 DEF StreamInv

LEMMA NextStream == StreamInv /\ [StreamNext]_streamVars => StreamInv'
<1> SUFFICES ASSUME StreamInv, [StreamNext]_streamVars PROVE StreamInv'
  OBVIOUS
<1>t. /\ StreamTyped /\ DeadlineGranted
      /\ \A a \in Attempt : Traces(a) /\ Lossless(a)
      /\ StreamAttempts \in Nat \ {0} /\ Timeout \in Nat \ {0} /\ Extension \in Nat \ {0}
      /\ JoinTime \in Nat \ {0}
  BY StreamAssumption DEF StreamInv
<1>1. ASSUME NEW b \in Attempt, NEW line \in Line, Write(b, line) PROVE StreamInv'
  <2>1. StreamTyped' /\ DeadlineGranted'
    BY <1>t, <1>1, SMTT(30) DEF Write, StreamTyped, DeadlineGranted
  <2>2. ASSUME NEW a \in Attempt PROVE Traces(a)' /\ Lossless(a)'
    <3>1. /\ now' = now /\ current' = current /\ main' = main /\ until' = until /\ proc' = proc
          /\ child' = child /\ forked' = forked /\ reader' = reader /\ tail' = tail
          /\ stray' = stray /\ code' = code /\ (proc[b] = "running" \/ child[b])
      BY <1>1 DEF Write, Writing
    <3>2. CASE a # b
      <4>1. pipe'[a] = pipe[a] /\ written'[a] = written[a]
        BY <1>t, <1>1, <3>2 DEF Write, StreamTyped
      <4> QED
        BY <1>t, <3>1, <4>1 DEF Traces, Lossless
    <3>3. CASE a = b
      <4>1. /\ pipe'[a] = Append(pipe[a], line) /\ written'[a] = written[a] + 1
            /\ pipe[a] \in Seq(Line) /\ written[a] \in Nat /\ tail[a] \in Nat
            /\ current \in Nat /\ a \in Nat
        BY <1>t, <1>1, <3>3 DEF Write, StreamTyped, Attempt
      <4>2. Len(Append(pipe[a], line)) = Len(pipe[a]) + 1 /\ Len(pipe[a]) \in Nat
        BY <4>1
      <4>3. ~forked[a] => proc[a] = "running" /\ reader[a] # "done"
        BY <1>t, <3>1, <3>3 DEF Traces, Lossless
      <4>4. a <= current
        BY <1>t, <3>1, <3>3, <4>1 DEF Traces
      <4>5. Traces(a) /\ Lossless(a)
        BY <1>t
      <4>6. Traces(a)'
        BY <3>1, <4>1, <4>3, <4>4, <4>5 DEF Traces
      <4>7. CASE forked[a]
        BY <3>1, <4>6, <4>7 DEF Lossless
      <4>8. CASE ~forked[a]
        <5>1. /\ tail[a] + Len(pipe[a]) = written[a] /\ reader[a] # "done"
              /\ reader[a] = "reading" => a = current /\ main \in {"poll", "kill", "drain", "join"}
              /\ reader[a] = "reading" /\ main \in {"drain", "join"} => now < until
          BY <4>3, <4>5, <4>8 DEF Lossless
        <5>2. tail'[a] + Len(pipe'[a]) = written'[a]
          <6>1. Len(pipe'[a]) = Len(pipe[a]) + 1 /\ tail'[a] = tail[a]
            BY <3>1, <4>1, <4>2
          <6> QED
            BY <4>1, <4>2, <5>1, <6>1
        <5> QED
          BY <3>1, <4>6, <5>1, <5>2 DEF Lossless
      <4> QED
        BY <4>6, <4>7, <4>8
    <3> QED
      BY <3>2, <3>3
  <2> QED
    BY <2>1, <2>2 DEF StreamInv
<1>2. ASSUME NEW b \in Attempt, Fork(b) PROVE StreamInv'
  <2>1. StreamTyped' /\ DeadlineGranted'
    BY <1>t, <1>2 DEF Fork, threads, StreamTyped, DeadlineGranted
  <2>2. ASSUME NEW a \in Attempt PROVE Traces(a)' /\ Lossless(a)'
    BY <1>t, <1>2 DEF Fork, threads, StreamTyped, Traces, Lossless, Attempt
  <2> QED
    BY <2>1, <2>2 DEF StreamInv
<1>3. ASSUME NEW b \in Attempt, ChildEnds(b) PROVE StreamInv'
  <2>1. StreamTyped' /\ DeadlineGranted'
    BY <1>t, <1>3 DEF ChildEnds, threads, StreamTyped, DeadlineGranted
  <2>2. ASSUME NEW a \in Attempt PROVE Traces(a)' /\ Lossless(a)'
    BY <1>t, <1>3 DEF ChildEnds, threads, StreamTyped, Traces, Lossless, Attempt
  <2> QED
    BY <2>1, <2>2 DEF StreamInv
<1>4. ASSUME NEW b \in Attempt, NEW how \in {"ok", "bad"}, ProcessExits(b, how) PROVE StreamInv'
  <2>1. StreamTyped' /\ DeadlineGranted'
    BY <1>t, <1>4 DEF ProcessExits, threads, StreamTyped, DeadlineGranted
  <2>2. ASSUME NEW a \in Attempt PROVE Traces(a)' /\ Lossless(a)'
    BY <1>t, <1>4 DEF ProcessExits, threads, StreamTyped, Traces, Lossless, Attempt
  <2> QED
    BY <2>1, <2>2 DEF StreamInv
<1>5. ASSUME NEW b \in Attempt, ReadLine(b) PROVE StreamInv'
  <2>1. /\ now' = now /\ current' = current /\ main' = main /\ until' = until /\ proc' = proc
        /\ child' = child /\ forked' = forked /\ written' = written /\ code' = code
        /\ reader[b] = "reading" /\ pipe[b] # <<>> /\ pipe' = [pipe EXCEPT ![b] = Tail(@)]
    BY <1>5 DEF ReadLine, actors
  <2>2. /\ pipe' \in [Attempt -> Seq(Line)] /\ Len(pipe[b]) \in Nat
        /\ Len(pipe'[b]) = Len(pipe[b]) - 1
        /\ \A a \in Attempt : a # b => pipe'[a] = pipe[a]
    <3>1. pipe \in [Attempt -> Seq(Line)] /\ pipe[b] \in Seq(Line)
      BY <1>t DEF StreamTyped
    <3>2. Tail(pipe[b]) \in Seq(Line) /\ Len(Tail(pipe[b])) = Len(pipe[b]) - 1 /\ Len(pipe[b]) \in Nat
      BY <2>1, <3>1
    <3> QED
      BY <2>1, <3>1, <3>2
  <2>3. /\ current \in Nat /\ b \in Nat /\ b <= current /\ current \in Attempt
        /\ now \in Nat /\ tail \in [Attempt -> Nat] /\ stray \in [Attempt -> BOOLEAN]
        /\ deadline \in [Attempt -> Nat] /\ signals \in [Attempt -> Nat]
        /\ reader \in [Attempt -> {"none", "reading", "done"}]
    <3>1. current \in 0 .. StreamAttempts /\ b \in Nat /\ b <= StreamAttempts /\ b > 0
      BY <1>t DEF StreamTyped, Attempt
    <3>2. ~(b > current)
      BY <1>t, <2>1 DEF Traces
    <3>3. current \in Nat /\ b <= current /\ current \in Attempt
      BY <1>t, <3>1, <3>2 DEF Attempt
    <3> QED
      BY <1>t, <3>1, <3>3 DEF StreamTyped
  <2>4. CASE LogClosed
    <3>1. /\ reader' = [reader EXCEPT ![b] = "done"] /\ main = "closed"
          /\ tail' = tail /\ deadline' = deadline /\ signals' = signals /\ stray' = stray
      BY <1>5, <2>4 DEF ReadLine, LogClosed
    <3>2. forked[b]
      BY <1>t, <2>1, <3>1 DEF Lossless
    <3>3. StreamTyped' /\ DeadlineGranted'
      BY <1>t, <2>1, <2>2, <3>1 DEF StreamTyped, DeadlineGranted
    <3>4. ASSUME NEW a \in Attempt PROVE Traces(a)' /\ Lossless(a)'
      BY <1>t, <2>1, <2>2, <2>3, <3>1, <3>2 DEF Traces, Lossless
    <3> QED
      BY <3>3, <3>4 DEF StreamInv
  <2>5. CASE ~LogClosed
    <3>1. /\ tail' = [tail EXCEPT ![b] = @ + 1]
          /\ stray' = [stray EXCEPT ![b] = @ \/ current # b]
          /\ reader' = reader /\ main # "closed"
          /\ \/ /\ deadline' = [deadline EXCEPT ![current] = deadline[current] + Extension]
                /\ signals' = [signals EXCEPT ![current] = @ + 1]
             \/ deadline' = deadline /\ signals' = signals
      BY <1>5, <2>5 DEF ReadLine, LogClosed, Handler, NewDeadline
    <3>2. current # b => forked[b]
      BY <1>t, <2>1 DEF Lossless
    <3>3. stray'[b] => forked[b]
      BY <1>t, <2>3, <3>1, <3>2 DEF Traces
    <3>4. tail' \in [Attempt -> Nat] /\ tail'[b] = tail[b] + 1 /\ tail[b] \in Nat
      BY <2>3, <3>1
    <3>5. stray' \in [Attempt -> BOOLEAN]
      BY <2>3, <3>1
    <3>6. deadline' \in [Attempt -> Nat] /\ signals' \in [Attempt -> Nat]
      BY <1>t, <2>3, <3>1
    <3>7. StreamTyped'
      BY <1>t, <2>1, <2>2, <3>1, <3>4, <3>5, <3>6 DEF StreamTyped
    <3>8. DeadlineGranted'
      <4> SUFFICES ASSUME main # "idle"
                   PROVE  deadline'[current] = Timeout + Extension * signals'[current]
        BY <2>1 DEF DeadlineGranted
      <4>1. deadline[current] = Timeout + Extension * signals[current]
        BY <1>t DEF DeadlineGranted
      <4>2. CASE deadline' = deadline /\ signals' = signals
        BY <4>1, <4>2
      <4>3. CASE /\ deadline' = [deadline EXCEPT ![current] = deadline[current] + Extension]
                 /\ signals' = [signals EXCEPT ![current] = @ + 1]
        <5>1. deadline'[current] = deadline[current] + Extension /\ signals'[current] = signals[current] + 1
          BY <2>3, <4>3
        <5>2. signals[current] \in Nat
          BY <2>3
        <5>3. Extension * (signals[current] + 1) = Extension * signals[current] + Extension
          BY <1>t, <5>2
        <5>4. Extension * signals[current] \in Nat
          BY <1>t, <5>2
        <5> QED
          BY <1>t, <4>1, <5>1, <5>3, <5>4
      <4> QED
        BY <3>1, <4>2, <4>3
    <3>9. ASSUME NEW a \in Attempt PROVE Traces(a)' /\ Lossless(a)'
      <4>1. CASE a # b
        <5>1. tail'[a] = tail[a] /\ stray'[a] = stray[a] /\ pipe'[a] = pipe[a]
          BY <2>2, <2>3, <3>1, <4>1
        <5> QED
          BY <1>t, <2>1, <3>1, <5>1 DEF Traces, Lossless
      <4>2. CASE a = b
        BY <1>t, <2>1, <2>2, <2>3, <3>1, <3>3, <3>4, <4>2 DEF Traces, Lossless
      <4> QED
        BY <4>1, <4>2
    <3> QED
      BY <3>7, <3>8, <3>9 DEF StreamInv
  <2> QED
    BY <2>4, <2>5
<1>6. ASSUME NEW b \in Attempt, ReadEnds(b) PROVE StreamInv'
  <2>1. StreamTyped' /\ DeadlineGranted'
    BY <1>t, <1>6 DEF ReadEnds, actors, StreamTyped, DeadlineGranted
  <2>2. ASSUME NEW a \in Attempt PROVE Traces(a)' /\ Lossless(a)'
    BY <1>t, <1>6 DEF ReadEnds, EndOfFile, Writing, actors, StreamTyped, Traces, Lossless, Attempt
  <2> QED
    BY <2>1, <2>2 DEF StreamInv
<1>7. CASE StartAttempt
  <2>1. /\ main = "idle" /\ main' = "poll" /\ current' = current + 1 /\ now' = 0 /\ until' = until
        /\ proc' = [proc EXCEPT ![current'] = "running"]
        /\ reader' = [reader EXCEPT ![current'] = "reading"]
        /\ deadline' = [Each(0) EXCEPT ![current'] = Timeout] /\ signals' = Each(0)
        /\ child' = child /\ forked' = forked /\ written' = written /\ pipe' = pipe
        /\ tail' = tail /\ stray' = stray /\ code' = code
    BY <1>7 DEF StartAttempt
  <2>2. current \in Nat /\ current' \in Attempt /\ current' \in 0 .. StreamAttempts
    BY <1>t, <2>1 DEF StreamTyped, Attempt
  <2>3. /\ deadline' \in [Attempt -> Nat] /\ signals' \in [Attempt -> Nat]
        /\ deadline'[current'] = Timeout /\ signals'[current'] = 0
    BY <1>t, <2>1, <2>2 DEF Each
  <2>4. StreamTyped'
    BY <1>t, <2>1, <2>2, <2>3 DEF StreamTyped
  <2>5. DeadlineGranted'
    BY <1>t, <2>3 DEF DeadlineGranted
  <2>6. ASSUME NEW a \in Attempt PROVE Traces(a)' /\ Lossless(a)'
    <3>1. a \in Nat
      BY DEF Attempt
    <3>2. CASE a # current'
      <4>1. proc'[a] = proc[a] /\ reader'[a] = reader[a]
        BY <1>t, <2>1, <3>2 DEF StreamTyped
      <4> QED
        BY <1>t, <2>1, <2>2, <3>1, <3>2, <4>1 DEF Traces, Lossless
    <3>3. CASE a = current'
      <4>1. proc'[a] = "running" /\ reader'[a] = "reading"
        BY <1>t, <2>1, <3>3 DEF StreamTyped
      <4>2. a > current /\ ~(a > current')
        BY <2>1, <2>2, <3>3
      <4> QED
        BY <1>t, <2>1, <3>3, <4>1, <4>2 DEF Traces, Lossless
    <3> QED
      BY <3>2, <3>3
  <2> QED
    BY <2>4, <2>5, <2>6 DEF StreamInv
<1>8. CASE FindLate
  <2>1. StreamTyped' /\ DeadlineGranted'
    BY <1>t, <1>8 DEF FindLate, actors, threads, StreamTyped, DeadlineGranted
  <2>2. ASSUME NEW a \in Attempt PROVE Traces(a)' /\ Lossless(a)'
    BY <1>t, <1>8 DEF FindLate, actors, threads, StreamTyped, Traces, Lossless, Attempt
  <2> QED
    BY <2>1, <2>2 DEF StreamInv
<1>9. CASE Kill
  <2>1. /\ main = "kill" /\ main' = "join" /\ until' = now + JoinTime
        /\ now' = now /\ current' = current /\ child' = child /\ forked' = forked
        /\ written' = written /\ pipe' = pipe /\ reader' = reader /\ tail' = tail
        /\ deadline' = deadline /\ signals' = signals /\ stray' = stray
        /\ code' = [code EXCEPT ![current] = "timeout"]
    BY <1>9 DEF Kill, threads
  <2>2. \/ proc[current] = "running" /\ proc' = [proc EXCEPT ![current] = "killed"]
        \/ proc[current] # "running" /\ proc' = proc
    BY <1>9 DEF Kill, Running
  <2>3. /\ current \in Attempt /\ current \in Nat /\ now \in Nat
        /\ proc \in [Attempt -> {"none", "running", "ended", "killed"}]
        /\ code \in [Attempt -> {"none", "ok", "bad", "timeout"}]
    <3>1. current \in Attempt
      BY <1>t, <2>1 DEF StreamTyped
    <3>2. current \in Nat
      BY <1>t, <3>1 DEF Attempt
    <3> QED
      BY <1>t, <3>1, <3>2 DEF StreamTyped
  <2>4. /\ proc' \in [Attempt -> {"none", "running", "ended", "killed"}]
        /\ code' \in [Attempt -> {"none", "ok", "bad", "timeout"}]
        /\ proc'[current] # "running" /\ (proc'[current] = "none" <=> proc[current] = "none")
        /\ \A a \in Attempt : a # current => proc'[a] = proc[a] /\ code'[a] = code[a]
    BY <2>1, <2>2, <2>3
  <2>5. until' \in Nat /\ now < until'
    BY <1>t, <2>1, <2>3
  <2>6. StreamTyped' /\ DeadlineGranted'
    BY <1>t, <2>1, <2>3, <2>4, <2>5 DEF StreamTyped, DeadlineGranted
  <2>7. ASSUME NEW a \in Attempt PROVE Traces(a)' /\ Lossless(a)'
    BY <1>t, <2>1, <2>3, <2>4, <2>5 DEF Traces, Lossless, Attempt
  <2> QED
    BY <2>6, <2>7 DEF StreamInv
<1>10. CASE FindEnded
  <2>1. StreamTyped' /\ DeadlineGranted'
    BY <1>t, <1>10, SMTT(30) DEF FindEnded, actors, threads, StreamTyped, DeadlineGranted
  <2>2. ASSUME NEW a \in Attempt PROVE Traces(a)' /\ Lossless(a)'
    BY <1>t, <1>10, SMTT(30) DEF FindEnded, Running, actors, threads, StreamTyped, Traces, Lossless, Attempt
  <2> QED
    BY <2>1, <2>2 DEF StreamInv
<1>11. CASE GiveUpDraining
  <2>1. StreamTyped' /\ DeadlineGranted'
    BY <1>t, <1>11, SMTT(30) DEF GiveUpDraining, actors, threads, StreamTyped, DeadlineGranted
  <2>2. ASSUME NEW a \in Attempt PROVE Traces(a)' /\ Lossless(a)'
    BY <1>t, <1>11 DEF GiveUpDraining, actors, threads, StreamTyped, Traces, Lossless, Attempt
  <2> QED
    BY <2>1, <2>2 DEF StreamInv
<1>12. CASE Return
  <2>1. /\ now' = now /\ current' = current /\ proc' = proc /\ child' = child
        /\ forked' = forked /\ written' = written /\ pipe' = pipe /\ reader' = reader
        /\ tail' = tail /\ deadline' = deadline /\ signals' = signals /\ stray' = stray
        /\ code' = code /\ until' = 0 /\ main' \in {"idle", "closed"}
        /\ main' = "idle" => current < StreamAttempts
    BY <1>12 DEF Return, actors, threads
  <2>2. /\ main \in {"drain", "join"} /\ current \in Attempt /\ now \in Nat /\ until \in Nat
        /\ reader[current] # "done" => now >= until
    BY <1>t, <1>12 DEF Return, JoinOver, ReaderDone, StreamTyped
  <2>3. StreamTyped' /\ DeadlineGranted'
    BY <1>t, <2>1, <2>2 DEF StreamTyped, DeadlineGranted
  <2>4. ASSUME NEW a \in Attempt PROVE Traces(a)' /\ Lossless(a)'
    <3>1. ~forked[a] => reader[a] # "reading"
      BY <1>t, <2>2 DEF Lossless
    <3>2. proc[a] # "running"
      BY <1>t, <2>2 DEF Traces
    <3> QED
      BY <1>t, <2>1, <3>1, <3>2 DEF Traces, Lossless
  <2> QED
    BY <2>3, <2>4 DEF StreamInv
<1>13. CASE Tick
  <2>1. StreamTyped' /\ DeadlineGranted'
    BY <1>t, <1>13 DEF Tick, actors, threads, StreamTyped, DeadlineGranted
  <2>2. ASSUME NEW a \in Attempt PROVE Traces(a)' /\ Lossless(a)'
    BY <1>t, <1>13 DEF Tick, ReaderReady, EndOfFile, Writing, actors, threads, StreamTyped, Traces,
                       Lossless, Attempt
  <2> QED
    BY <2>1, <2>2 DEF StreamInv
<1>14. CASE StreamOver \/ UNCHANGED streamVars
  <2>1. /\ now' = now /\ current' = current /\ main' = main /\ until' = until /\ proc' = proc
        /\ child' = child /\ forked' = forked /\ written' = written /\ pipe' = pipe
        /\ reader' = reader /\ tail' = tail /\ deadline' = deadline /\ signals' = signals
        /\ stray' = stray /\ code' = code
    BY <1>14 DEF StreamOver, streamVars, actors, threads
  <2>2. StreamTyped' /\ DeadlineGranted'
    BY <1>t, <2>1 DEF StreamTyped, DeadlineGranted
  <2>3. ASSUME NEW a \in Attempt PROVE Traces(a)' /\ Lossless(a)'
    BY <1>t, <2>1 DEF Traces, Lossless
  <2> QED
    BY <2>2, <2>3 DEF StreamInv
<1> QED
  BY <1>1, <1>2, <1>3, <1>4, <1>5, <1>6, <1>7, <1>8, <1>9, <1>10, <1>11, <1>12, <1>13, <1>14
     DEF StreamNext, MainStep, ReaderStep

LEMMA StreamInvariant == StreamSpec => []StreamInv
<1> QED
  BY InitStream, NextStream, PTL DEF StreamSpec

\* The attempts of a task do not touch each other, however lines, signals,
\* exits, timeouts and the reader interleave (_stream_process and
\* _SignalHandler in runners.py).
THEOREM AttemptsStayApart == StreamSpec => []AttemptsApart
<1>1. StreamInv => AttemptsApart
  <2> SUFFICES ASSUME StreamInv, NEW a \in Attempt
               PROVE  /\ main \in {"idle", "closed"} /\ code[a] \in {"ok", "bad"} /\ ~forked[a]
                           => tail[a] = written[a]
                      /\ proc[a] = "running" => a = current /\ main \in {"poll", "kill"}
                      /\ stray[a] => forked[a]
    BY DEF AttemptsApart
  <2> QED
    BY DEF StreamInv, StreamTyped, Traces, Lossless, Attempt
<1> QED
  BY <1>1, StreamInvariant, PTL

\* No command is given up before it has had its timeout and every extension it
\* was granted, whenever the reader granted it (deadline_ref in runners.py).
THEOREM TimeoutsKept == StreamSpec => TimeoutKept
<1>1. StreamInv /\ [StreamNext]_streamVars =>
        [main' = "kill" /\ main # "kill" => now >= Timeout + Extension * signals[current]]_streamVars
  <2> SUFFICES ASSUME StreamInv, StreamNext, main' = "kill", main # "kill"
               PROVE  now >= Timeout + Extension * signals[current]
    OBVIOUS
  <2>1. FindLate
    BY DEF StreamNext, MainStep, ReaderStep, StartAttempt, Kill, FindEnded, GiveUpDraining, Return,
           Tick, StreamOver, streamVars, ReadLine, ReadEnds, Fork, ChildEnds, Write, ProcessExits
  <2> QED
    BY <2>1 DEF FindLate, StreamInv, DeadlineGranted
<1> QED
  BY <1>1, StreamInvariant, PTL DEF StreamSpec, TimeoutKept

-----------------------------------------------------------------------------
(***************************************************************************)
(* Who hears whom in a council                                             *)
(***************************************************************************)
\* The notions of the property, said of a council c.
Seats(c) == 1 .. Len(c.participants)
Key(c, i) == RoleKey(c.participants[i])
KeptVoice(c, i) == \A j \in Seats(c) : Key(c, j) = Key(c, i) => j <= i
HearsOf(c, who, i) ==
  \/ who = Consolidator \/ c.topology = Star
  \/ c.topology = Chain /\ i = who - 1
  \/ c.topology = Graph /\ LET d == c.connections
                           IN  /\ c.participants[who].role \in DOMAIN d
                               /\ c.participants[i].role \in d[c.participants[who].role]
Attributed(shown) == {<<s.by, s.round>> : s \in shown}
Under(q, W) == {q[k] : k \in {k \in DOMAIN q : k \in W}}
Told(rounds, W) == UNION {Under(q, W) : q \in ToSet(rounds)}
KeyVoices(c, n, W) == {v \in Seats(c) \X (1 .. n) : KeptVoice(c, v[1]) /\ Key(c, v[1]) \in W}
RoleVoices(c, n, R) == {v \in Seats(c) \X (1 .. n) : KeptVoice(c, v[1]) /\ c.participants[v[1]].role \in R}
RoleKeys(R) == {<<r>> : r \in R}
Earlier(c, told) ==
  IF c.topology = Chain THEN {told.round}
  ELSE IF told.who = Consolidator THEN 1 .. told.round ELSE 1 .. told.round - 1
HeardIn(c, told) ==
  Attributed(told.shown) =
    {v \in Seats(c) \X Earlier(c, told) :
       HearsOf(c, told.who, v[1]) /\ (KeptVoice(c, v[1]) \/ c.topology = Chain)}

\* The responses f of round r once the first upto seats were asked: under a key
\* the response of its last namesake so far.
Keyed(c, f, upto, r) ==
  /\ DOMAIN f = {Key(c, i) : i \in 1 .. upto}
  /\ \A i \in 1 .. upto : /\ f[Key(c, i)].round = r /\ f[Key(c, i)].by \in i .. upto
                          /\ Key(c, f[Key(c, i)].by) = Key(c, i)

LEMMA KeyedNone ==
  ASSUME NEW c, NEW r
  PROVE  Keyed(c, <<>>, 0, r)
<1>1. DOMAIN <<>> = {} /\ 1 .. 0 = {}
  BY EmptyIsSeq
<1> QED
  BY <1>1 DEF Keyed

LEMMA KeyedGrows ==
  ASSUME NEW c, NEW f, NEW n \in Nat \ {0}, NEW r, Keyed(c, f, n - 1, r),
         NEW said, said.by = n, said.round = r,
         NEW g, g = [k \in DOMAIN f \cup {Key(c, n)} |-> IF k = Key(c, n) THEN said ELSE f[k]]
  PROVE  Keyed(c, g, n, r)
<1>1. \A i \in 1 .. n : i = n \/ i \in 1 .. n - 1
  OBVIOUS
<1>2. \A i \in 1 .. n - 1 : i \in 1 .. n
  OBVIOUS
<1>3. n \in 1 .. n
  OBVIOUS
<1>4. DOMAIN f = {Key(c, i) : i \in 1 .. n - 1}
  BY DEF Keyed
<1>5. DOMAIN g = {Key(c, i) : i \in 1 .. n}
  BY <1>1, <1>2, <1>3, <1>4
<1>6. ASSUME NEW i \in 1 .. n
      PROVE  /\ g[Key(c, i)].round = r /\ g[Key(c, i)].by \in i .. n
             /\ Key(c, g[Key(c, i)].by) = Key(c, i)
  <2>1. CASE Key(c, i) = Key(c, n)
    BY <2>1
  <2>2. CASE Key(c, i) # Key(c, n)
    <3>1. i \in 1 .. n - 1
      BY <1>1, <2>2
    <3>2. g[Key(c, i)] = f[Key(c, i)]
      BY <1>4, <2>2, <3>1
    <3>3. /\ f[Key(c, i)].round = r /\ f[Key(c, i)].by \in i .. n - 1
          /\ Key(c, f[Key(c, i)].by) = Key(c, i)
      BY <3>1 DEF Keyed
    <3> QED
      BY <3>2, <3>3
  <2> QED
    BY <2>1, <2>2
<1> QED
  BY <1>5, <1>6 DEF Keyed

\* A round that has ended holds the kept voices, and no others.
LEMMA RoundHeard ==
  ASSUME NEW c, Len(c.participants) \in Nat, NEW f, NEW r, Keyed(c, f, Len(c.participants), r), NEW W
  PROVE  \A p : p \in Attributed(Under(f, W)) <=>
                 \E i \in Seats(c) : p = <<i, r>> /\ KeptVoice(c, i) /\ Key(c, i) \in W
<1> DEFINE N == Len(c.participants)
<1>1. /\ DOMAIN f = {Key(c, i) : i \in Seats(c)}
      /\ \A i \in Seats(c) : /\ f[Key(c, i)].round = r /\ f[Key(c, i)].by \in i .. N
                             /\ Key(c, f[Key(c, i)].by) = Key(c, i)
  BY DEF Keyed, Seats
<1>2. ASSUME NEW i \in Seats(c)
      PROVE  f[Key(c, i)].by \in Seats(c) /\ KeptVoice(c, f[Key(c, i)].by)
  <2> DEFINE by == f[Key(c, i)].by
  <2>0. i \in 1 .. N /\ by \in i .. N /\ Key(c, by) = Key(c, i)
    BY <1>1 DEF Seats
  <2>a. N \in Nat
    OBVIOUS
  <2>b. by \in 1 .. N
    <3> HIDE DEF by, N
    <3> QED
      BY <2>0, <2>a
  <2>1. by \in Seats(c) /\ Key(c, by) = Key(c, i)
    BY <2>0, <2>b DEF Seats
  <2>2. ASSUME NEW j \in Seats(c), Key(c, j) = Key(c, by) PROVE j <= by
    <3>1. f[Key(c, j)].by \in j .. N /\ f[Key(c, j)] = f[Key(c, i)]
      BY <1>1, <2>1, <2>2
    <3> QED
      BY <3>1 DEF Seats
  <2> QED
    BY <2>1, <2>2 DEF KeptVoice
<1>3. ASSUME NEW p, p \in Attributed(Under(f, W))
      PROVE  \E i \in Seats(c) : p = <<i, r>> /\ KeptVoice(c, i) /\ Key(c, i) \in W
  <2>1. PICK k \in DOMAIN f : k \in W /\ p = <<f[k].by, f[k].round>>
    BY <1>3 DEF Attributed, Under
  <2>2. PICK i \in Seats(c) : k = Key(c, i)
    BY <1>1
  <2> QED
    BY <1>1, <1>2, <2>1, <2>2
<1>4. ASSUME NEW i \in Seats(c), KeptVoice(c, i), Key(c, i) \in W
      PROVE  <<i, r>> \in Attributed(Under(f, W))
  <2>1. /\ Key(c, i) \in DOMAIN f /\ f[Key(c, i)].round = r
        /\ f[Key(c, i)].by \in i .. N /\ f[Key(c, i)].by \in Seats(c)
        /\ Key(c, f[Key(c, i)].by) = Key(c, i)
    BY <1>1, <1>2
  <2>2. f[Key(c, i)].by <= i
    BY <1>4, <2>1 DEF KeptVoice
  <2>3. f[Key(c, i)].by = i
    BY <2>1, <2>2 DEF Seats
  <2> QED
    BY <1>4, <2>1, <2>3 DEF Attributed, Under
<1> QED
  BY <1>3, <1>4

\* What a discussion of several rounds puts before someone who hears the keys W.
LEMMA RoundsHeard ==
  ASSUME NEW c, Len(c.participants) \in Nat, NEW rounds, IsSeq(rounds),
         \A n \in 1 .. Len(rounds) : Keyed(c, rounds[n], Len(c.participants), n), NEW W
  PROVE  Attributed(Told(rounds, W)) = KeyVoices(c, Len(rounds), W)
<1> DEFINE shown == UNION {Under(q, W) : q \in ToSet(rounds)}
           voices == {v \in Seats(c) \X (1 .. Len(rounds)) : KeptVoice(c, v[1]) /\ Key(c, v[1]) \in W}
<1>1. \A s : s \in shown <=> \E n \in 1 .. Len(rounds) : s \in Under(rounds[n], W)
  <2>1. ToSet(rounds) = {rounds[n] : n \in 1 .. Len(rounds)}
    BY SeqDomain DEF ToSet
  <2> QED
    BY <2>1
<1>2. \A n \in 1 .. Len(rounds) : \A p :
         p \in Attributed(Under(rounds[n], W)) <=>
           \E i \in Seats(c) : p = <<i, n>> /\ KeptVoice(c, i) /\ Key(c, i) \in W
  <2> SUFFICES ASSUME NEW n \in 1 .. Len(rounds)
               PROVE  \A p : p \in Attributed(Under(rounds[n], W)) <=>
                               \E i \in Seats(c) : p = <<i, n>> /\ KeptVoice(c, i) /\ Key(c, i) \in W
    OBVIOUS
  <2>1. Keyed(c, rounds[n], Len(c.participants), n)
    OBVIOUS
  <2> QED
    BY <2>1, RoundHeard
<1> HIDE DEF shown
<1>3. \A p : p \in Attributed(shown) <=> \E n \in 1 .. Len(rounds) : p \in Attributed(Under(rounds[n], W))
  BY <1>1 DEF Attributed
<1>4. \A p : p \in Attributed(shown) <=>
              \E n \in 1 .. Len(rounds) : \E i \in Seats(c) :
                 p = <<i, n>> /\ KeptVoice(c, i) /\ Key(c, i) \in W
  BY <1>2, <1>3
<1>5. \A p : p \in voices <=>
              \E n \in 1 .. Len(rounds) : \E i \in Seats(c) :
                 p = <<i, n>> /\ KeptVoice(c, i) /\ Key(c, i) \in W
  <2>1. ASSUME NEW v \in voices
        PROVE  \E n \in 1 .. Len(rounds) : \E i \in Seats(c) :
                 v = <<i, n>> /\ KeptVoice(c, i) /\ Key(c, i) \in W
    OBVIOUS
  <2>2. ASSUME NEW n \in 1 .. Len(rounds), NEW i \in Seats(c), KeptVoice(c, i), Key(c, i) \in W
        PROVE  <<i, n>> \in voices
    BY <2>2
  <2> QED
    BY <2>1, <2>2
<1>6. Attributed(shown) = voices
  <2> HIDE DEF voices
  <2> QED
    BY <1>4, <1>5
<1>7. Told(rounds, W) = shown /\ KeyVoices(c, Len(rounds), W) = voices
  BY DEF Told, KeyVoices, shown
<1> QED
  <2> HIDE DEF voices
  <2> QED
    BY <1>6, <1>7

-----------------------------------------------------------------------------
(* How far a council has come: the rounds that have ended, the seats asked in *)
(* the one in hand, and a call on record for each.                            *)
InSession(c, rounds, calls) ==
  /\ ToCouncilSpec(c) /\ roundNum \in 1 .. c.rounds
  /\ \A n \in 1 .. Len(rounds) : Keyed(c, rounds[n], Len(c.participants), n)
  /\ turn = "asking" =>
       /\ seat \in Seats(c) /\ Len(rounds) = roundNum - 1
       /\ Len(calls) = (roundNum - 1) * Len(c.participants) + (seat - 1)
       /\ seat > 1 => Keyed(c, sofar, seat - 1, roundNum)
       /\ c.topology = Chain => roundNum = 1
  /\ turn = "consolidating" =>
       /\ c.topology # Chain /\ roundNum = c.rounds /\ Len(rounds) = c.rounds
       /\ Len(calls) = c.rounds * Len(c.participants)

Concluded(c, calls) ==
  agreed # Nobody =>
    /\ agreed.by = Last(calls).who
    /\ Len(calls) = IF c.topology = Chain THEN Len(c.participants) ELSE Len(c.participants) * c.rounds + 1

CouncilInv ==
  /\ sitting \in CouncilTasks /\ CouncilAccepted(sitting)
  /\ turn \in {"start", "asking", "consolidating", "over"}
  /\ IsSeq(spoken) /\ IsSeq(toldOf)
  /\ \A n \in 1 .. Len(toldOf) : HeardIn(sitting.council, toldOf[n])
  /\ turn = "start" => roundNum = 1 /\ seat = 1 /\ spoken = <<>> /\ toldOf = <<>> /\ agreed = Nobody
  /\ turn \in {"asking", "consolidating"} => InSession(sitting.council, spoken, toldOf)
  /\ turn = "over" => Concluded(sitting.council, toldOf)

LEMMA PanelSeats ==
  ASSUME NEW t \in CouncilTasks
  PROVE  /\ Len(t.council.participants) \in Nat
         /\ DOMAIN t.council.participants = Seats(t.council)
BY CouncilAssumption DEF Seats

\* What the discussion so far tells: every kept voice, of every ended round.
LEMMA DiscussionHeard ==
  ASSUME NEW c, Len(c.participants) \in Nat, NEW rounds, IsSeq(rounds),
         \A n \in 1 .. Len(rounds) : Keyed(c, rounds[n], Len(c.participants), n)
  PROVE  Attributed(Discussion(rounds)) =
         {v \in Seats(c) \X (1 .. Len(rounds)) : KeptVoice(c, v[1])}
<1> DEFINE W == {Key(c, i) : i \in Seats(c)}
<1>1. \A n \in 1 .. Len(rounds) : DOMAIN rounds[n] = W
  BY DEF Keyed, Seats
<1>2. \A q \in ToSet(rounds) : DOMAIN q = W
  BY <1>1, SeqDomain DEF ToSet
<1>3. \A q \in ToSet(rounds) : Under(q, W) = {q[k] : k \in DOMAIN q}
  BY <1>2 DEF Under
<1>4. \A x : x \in Discussion(rounds) <=> \E q \in ToSet(rounds) : x \in {q[k] : k \in DOMAIN q}
  BY DEF Discussion
<1>5. \A x : x \in Told(rounds, W) <=> \E q \in ToSet(rounds) : x \in Under(q, W)
  BY DEF Told
<1>6. Discussion(rounds) = Told(rounds, W)
  <2> HIDE DEF W
  <2>1. \A x : x \in Discussion(rounds) <=> x \in Told(rounds, W)
    BY <1>3, <1>4, <1>5
  <2>2. Discussion(rounds) = {x \in Discussion(rounds) : TRUE} /\ Told(rounds, W) = {x \in Told(rounds, W) : TRUE}
    BY DEF Discussion, Told
  <2> QED
    BY <2>1, <2>2
<1>7. Attributed(Discussion(rounds)) = KeyVoices(c, Len(rounds), W)
  <2> HIDE DEF W
  <2> QED
    BY <1>6, RoundsHeard
<1>8. \A v \in Seats(c) \X (1 .. Len(rounds)) : Key(c, v[1]) \in W
  OBVIOUS
<1> QED
  BY <1>7, <1>8 DEF KeyVoices

\* What a participant of a graph is told: the kept voices of its peers.
LEMMA PeersHeard ==
  ASSUME NEW c, Len(c.participants) \in Nat, NEW rounds, IsSeq(rounds),
         \A n \in 1 .. Len(rounds) : Keyed(c, rounds[n], Len(c.participants), n),
         \A i \in Seats(c) : c.participants[i].role # NoRole, NEW peers
  PROVE  Attributed(Told(rounds, RoleKeys(peers))) = RoleVoices(c, Len(rounds), peers)
<1>1. \A i \in Seats(c) : Key(c, i) = <<c.participants[i].role>>
  BY DEF Key, RoleKey
<1>2. \A i \in Seats(c) : Key(c, i) \in RoleKeys(peers) <=> c.participants[i].role \in peers
  BY <1>1 DEF RoleKeys
<1>3. Attributed(Told(rounds, RoleKeys(peers))) = KeyVoices(c, Len(rounds), RoleKeys(peers))
  BY RoundsHeard
<1>4. \A v \in Seats(c) \X (1 .. Len(rounds)) : Key(c, v[1]) \in RoleKeys(peers) <=> c.participants[v[1]].role \in peers
  BY <1>2
<1> QED
  BY <1>3, <1>4 DEF KeyVoices, RoleVoices

\* A call of a participant is told what the topology lets it hear.
LEMMA AskedHeard ==
  ASSUME CouncilInv, turn = "asking"
  PROVE  HeardIn(sitting.council, [who |-> seat, round |-> roundNum, shown |-> Shown(Panel[seat])])
<1> DEFINE c == sitting.council
           told == [who |-> seat, round |-> roundNum, shown |-> Shown(Panel[seat])]
<1>1. /\ InSession(c, spoken, toldOf) /\ IsSeq(spoken) /\ sitting \in CouncilTasks
      /\ Len(c.participants) \in Nat /\ DOMAIN c.participants = Seats(c)
  BY PanelSeats DEF CouncilInv
<1>2. /\ seat \in Seats(c) /\ seat # Consolidator /\ Len(spoken) = roundNum - 1 /\ c.topology \in {Star, Chain, Graph}
      /\ roundNum \in Nat /\ seat \in Nat
      /\ \A n \in 1 .. Len(spoken) : Keyed(c, spoken[n], Len(c.participants), n)
  <2>1. ToCouncilSpec(c) /\ roundNum \in 1 .. c.rounds /\ seat \in Seats(c) /\ Len(spoken) = roundNum - 1
    BY <1>1 DEF InSession
  <2>2. c.rounds \in Nat /\ c.topology \in {Star, Chain, Graph}
    BY <2>1 DEF ToCouncilSpec
  <2> QED
    BY <1>1, <2>1, <2>2 DEF InSession, Seats, Consolidator
<1>3. CASE c.topology = Star
  <2>1. Shown(Panel[seat]) = Discussion(spoken)
    BY <1>3 DEF Shown, Topology, BuildRoundPrompt, Star, Chain, Graph
  <2>2. Earlier(c, told) = 1 .. Len(spoken)
    BY <1>2, <1>3 DEF Earlier, Star, Chain
  <2>3. Attributed(Discussion(spoken)) = {v \in Seats(c) \X (1 .. Len(spoken)) : KeptVoice(c, v[1])}
    BY <1>1, <1>2, DiscussionHeard
  <2>4. \A i : HearsOf(c, told.who, i)
    BY <1>3 DEF HearsOf
  <2> QED
    BY <1>3, <2>1, <2>2, <2>3, <2>4 DEF HeardIn, Star, Chain
<1>4. CASE c.topology = Graph
  <2> DEFINE p == c.participants[seat]
             peers == IF p.role \in DOMAIN c.connections THEN c.connections[p.role] ELSE {}
  <2>1. Shown(Panel[seat]) = Told(spoken, RoleKeys(peers))
    BY <1>4 DEF Shown, Topology, Panel, BuildGraphRoundPrompt, Under, Told, RoleKeys, Graph
  <2>2. Earlier(c, told) = 1 .. Len(spoken)
    BY <1>2, <1>4 DEF Earlier, Graph, Chain
  <2>3. \A i \in Seats(c) : c.participants[i].role # NoRole
    BY <1>1, <1>4 DEF InSession, ToCouncilSpec
  <2>4. \A i \in Seats(c) : HearsOf(c, told.who, i) <=> c.participants[i].role \in peers
    BY <1>2, <1>4 DEF HearsOf, Star, Chain, Graph
  <2>5. Attributed(Shown(Panel[seat])) = RoleVoices(c, Len(spoken), peers)
    <3> HIDE DEF peers, c
    <3> QED
      BY <1>1, <1>2, <2>1, <2>3, PeersHeard
  <2> HIDE DEF peers
  <2>6. \A v \in Seats(c) \X (1 .. Len(spoken)) :
          HearsOf(c, told.who, v[1]) <=> c.participants[v[1]].role \in peers
    BY <2>4
  <2> QED
    BY <1>4, <2>2, <2>5, <2>6 DEF HeardIn, RoleVoices, Graph, Chain
<1>5. CASE c.topology = Chain
  <2>1. Earlier(c, told) = {roundNum}
    BY <1>5 DEF Earlier
  <2>2. \A i : HearsOf(c, told.who, i) <=> i = seat - 1
    BY <1>2, <1>5 DEF HearsOf, Star, Chain, Graph
  <2>3. HeardIn(c, told) <=> Attributed(Shown(Panel[seat])) = {v \in Seats(c) \X {roundNum} : v[1] = seat - 1}
    BY <1>5, <2>1, <2>2 DEF HeardIn
  <2>4. Shown(Panel[seat]) = IF seat = 1 THEN {} ELSE {sofar[Key(c, seat - 1)]}
    BY <1>5 DEF Shown, Topology, Panel, BuildChainPrompt, Key, Chain, Graph
  <2>5. CASE seat = 1
    <3>1. {v \in Seats(c) \X {roundNum} : v[1] = seat - 1} = {}
      BY <2>5 DEF Seats
    <3> QED
      BY <2>3, <2>4, <2>5, <3>1 DEF Attributed
  <2>6. CASE seat # 1
    <3>1. Keyed(c, sofar, seat - 1, roundNum) /\ seat - 1 \in Seats(c) /\ seat - 1 \in 1 .. seat - 1
      BY <1>1, <1>2, <2>6 DEF InSession, Seats
    <3>2. sofar[Key(c, seat - 1)].by = seat - 1 /\ sofar[Key(c, seat - 1)].round = roundNum
      BY <3>1 DEF Keyed
    <3>3. Attributed(Shown(Panel[seat])) = {<<seat - 1, roundNum>>}
      BY <2>4, <2>6, <3>2 DEF Attributed
    <3>4. {v \in Seats(c) \X {roundNum} : v[1] = seat - 1} = {<<seat - 1, roundNum>>}
      BY <3>1
    <3> QED
      BY <2>3, <3>3, <3>4
  <2> QED
    BY <2>5, <2>6
<1> QED
  BY <1>2, <1>3, <1>4, <1>5

\* The synthesis is made from everything that was said.
LEMMA SynthesisHeard ==
  ASSUME CouncilInv, turn = "consolidating"
  PROVE  HeardIn(sitting.council, [who |-> Consolidator, round |-> roundNum, shown |-> Discussion(spoken)])
<1> DEFINE c == sitting.council
           told == [who |-> Consolidator, round |-> roundNum, shown |-> Discussion(spoken)]
<1>1. /\ InSession(c, spoken, toldOf) /\ IsSeq(spoken) /\ sitting \in CouncilTasks
      /\ Len(c.participants) \in Nat
  BY PanelSeats DEF CouncilInv
<1>2. /\ c.topology # Chain /\ Len(spoken) = roundNum
      /\ \A n \in 1 .. Len(spoken) : Keyed(c, spoken[n], Len(c.participants), n)
  BY <1>1 DEF InSession
<1>3. Earlier(c, told) = 1 .. Len(spoken)
  BY <1>2 DEF Earlier
<1>4. \A i : HearsOf(c, told.who, i)
  BY DEF HearsOf
<1>5. Attributed(Discussion(spoken)) = {v \in Seats(c) \X (1 .. Len(spoken)) : KeptVoice(c, v[1])}
  BY <1>1, <1>2, DiscussionHeard
<1> QED
  BY <1>2, <1>3, <1>4, <1>5 DEF HeardIn

LEMMA InitCouncil == CouncilInit => CouncilInv
BY EmptyIsSeq DEF CouncilInit, CouncilInv

\* One more call on record, told what it may hear.
LEMMA CallsRecorded ==
  ASSUME NEW c, NEW calls, IsSeq(calls), \A n \in 1 .. Len(calls) : HeardIn(c, calls[n]),
         NEW told, HeardIn(c, told), NEW more, more = Append(calls, told)
  PROVE  /\ IsSeq(more) /\ Len(more) = Len(calls) + 1 /\ Last(more) = told
         /\ \A n \in 1 .. Len(more) : HeardIn(c, more[n])
<1>1. /\ IsSeq(more) /\ Len(more) = Len(calls) + 1 /\ more[Len(calls) + 1] = told
      /\ \A n \in 1 .. Len(calls) : more[n] = calls[n]
  BY AppendSeq
<1>2. Len(calls) \in Nat
  BY SeqDomain
<1>3. \A n \in 1 .. Len(more) : n = Len(calls) + 1 \/ n \in 1 .. Len(calls)
  BY <1>1, <1>2
<1>4. ASSUME NEW n \in 1 .. Len(more) PROVE HeardIn(c, more[n])
  BY <1>1, <1>3
<1> QED
  BY <1>1, <1>4 DEF Last

\* One more round, and every round that has ended still holds what it held.
LEMMA RoundsRecorded ==
  ASSUME NEW c, NEW rounds, IsSeq(rounds),
         \A n \in 1 .. Len(rounds) : Keyed(c, rounds[n], Len(c.participants), n),
         NEW f, Keyed(c, f, Len(c.participants), Len(rounds) + 1), NEW more, more = Append(rounds, f)
  PROVE  /\ IsSeq(more) /\ Len(more) = Len(rounds) + 1
         /\ \A n \in 1 .. Len(more) : Keyed(c, more[n], Len(c.participants), n)
<1>1. /\ IsSeq(more) /\ Len(more) = Len(rounds) + 1 /\ more[Len(rounds) + 1] = f
      /\ \A n \in 1 .. Len(rounds) : more[n] = rounds[n]
  BY AppendSeq
<1>2. Len(rounds) \in Nat
  BY SeqDomain
<1>3. \A n \in 1 .. Len(more) : n = Len(rounds) + 1 \/ n \in 1 .. Len(rounds)
  BY <1>1, <1>2
<1>4. ASSUME NEW n \in 1 .. Len(more) PROVE Keyed(c, more[n], Len(c.participants), n)
  BY <1>1, <1>3
<1> QED
  BY <1>1, <1>4

LEMMA Rows == \A r, n, k \in Int : /\ (r - 1) * n + (n - 1) + 1 = r * n
                                   /\ (r + 1 - 1) * n + (1 - 1) = r * n
                                   /\ (r - 1) * n + (k - 1) + 1 = (r - 1) * n + (k + 1 - 1)
                                   /\ n * r = r * n
OBVIOUS

LEMMA AskKeeps ==
  ASSUME CouncilInv, AskParticipant
  PROVE  CouncilInv'
<1> DEFINE c == sitting.council
           N == Len(c.participants)
           told == [who |-> seat, round |-> roundNum, shown |-> Shown(Panel[seat])]
<1>1. /\ sitting \in CouncilTasks /\ CouncilAccepted(sitting) /\ turn = "asking" /\ sitting' = sitting
      /\ IsSeq(spoken) /\ IsSeq(toldOf) /\ InSession(c, spoken, toldOf)
      /\ N \in Nat /\ DOMAIN c.participants = Seats(c)
      /\ \A n \in 1 .. Len(toldOf) : HeardIn(c, toldOf[n])
  BY PanelSeats DEF CouncilInv, AskParticipant
<1>2. /\ ToCouncilSpec(c) /\ roundNum \in 1 .. c.rounds /\ c.rounds \in Nat
      /\ \A n \in 1 .. Len(spoken) : Keyed(c, spoken[n], N, n)
      /\ seat \in 1 .. N /\ Len(spoken) = roundNum - 1 /\ roundNum \in Nat /\ seat \in Nat
      /\ Len(toldOf) = (roundNum - 1) * N + (seat - 1)
      /\ seat > 1 => Keyed(c, sofar, seat - 1, roundNum)
      /\ c.topology = Chain => roundNum = 1
  <2>1. ToCouncilSpec(c) /\ roundNum \in 1 .. c.rounds
    BY <1>1 DEF InSession
  <2>2. c.rounds \in Nat
    BY <2>1 DEF ToCouncilSpec
  <2>3. /\ \A n \in 1 .. Len(spoken) : Keyed(c, spoken[n], N, n)
        /\ seat \in 1 .. N /\ Len(spoken) = roundNum - 1
        /\ Len(toldOf) = (roundNum - 1) * N + (seat - 1)
        /\ seat > 1 => Keyed(c, sofar, seat - 1, roundNum)
        /\ c.topology = Chain => roundNum = 1
    BY <1>1, Zenon DEF InSession, Seats
  <2>4. roundNum \in Nat /\ seat \in Nat
    <3> HIDE DEF N, c
    <3> QED
      BY <1>1, <2>1, <2>2, <2>3
  <2> QED
    BY <2>1, <2>2, <2>3, <2>4, Zenon
<1>3. HeardIn(c, told) /\ toldOf' = Append(toldOf, told)
  BY <1>1, AskedHeard DEF AskParticipant
<1>4. /\ IsSeq(toldOf') /\ Len(toldOf') = Len(toldOf) + 1 /\ Last(toldOf') = told
      /\ \A n \in 1 .. Len(toldOf') : HeardIn(c, toldOf'[n])
  <2> HIDE DEF told, c
  <2> QED
    BY <1>1, <1>3, CallsRecorded, ZenonT(40)
<1>5. Last(toldOf').who = seat
  BY <1>4
<1> HIDE DEF told
<1>6. Keyed(c, sofar', seat, roundNum)
  <2> DEFINE held == IF seat = 1 THEN <<>> ELSE sofar
  <2>1. Keyed(c, held, seat - 1, roundNum)
    <3>1. CASE seat = 1
      BY <3>1, KeyedNone
    <3>2. CASE seat # 1
      BY <1>2, <3>2
    <3> QED
      BY <3>1, <3>2
  <2>2. PICK said \in CallParticipant(seat) :
          sofar' = [k \in DOMAIN held \cup {Key(c, seat)} |-> IF k = Key(c, seat) THEN said ELSE held[k]]
    BY DEF AskParticipant, Key, Panel
  <2>3. said.by = seat /\ said.round = roundNum
    BY DEF CallParticipant
  <2>4. seat \in Nat \ {0}
    BY <1>2
  <2> HIDE DEF held, c
  <2>5. PICK g : g = sofar'
    OBVIOUS
  <2>6. g = [k \in DOMAIN held \cup {Key(c, seat)} |-> IF k = Key(c, seat) THEN said ELSE held[k]]
    BY <2>2, <2>5
  <2>7. Keyed(c, g, seat, roundNum)
    BY <2>1, <2>3, <2>4, <2>6, KeyedGrows
  <2> QED
    BY <2>5, <2>7
<1>7. CASE seat < N
  <2>1. /\ seat' = seat + 1 /\ turn' = turn /\ roundNum' = roundNum /\ spoken' = spoken /\ agreed' = agreed
    BY <1>7 DEF AskParticipant, NextSeat, Panel
  <2>2. Len(toldOf') = (roundNum - 1) * N + (seat + 1 - 1)
    BY <1>2, <1>4, <1>1, Rows
  <2>3. seat' \in 1 .. N /\ seat' - 1 = seat
    <3>1. seat \in Nat /\ 1 <= seat /\ N \in Nat
      BY <1>1, <1>2
    <3> HIDE DEF N
    <3> QED
      BY <1>7, <2>1, <3>1
  <2>4. InSession(c, spoken, toldOf)'
    BY <1>1, <1>2, <1>6, <2>1, <2>2, <2>3 DEF InSession, Seats
  <2> QED
    BY <1>1, <1>4, <2>1, <2>4 DEF CouncilInv
<1>8. CASE seat = N
  <2>1. /\ spoken' = Append(spoken, sofar') /\ seat' = 1
        /\ c.topology = Chain => turn' = "over" /\ agreed' = sofar'[Key(c, seat)] /\ roundNum' = roundNum
        /\ c.topology # Chain /\ roundNum = c.rounds => turn' = "consolidating" /\ roundNum' = roundNum
        /\ c.topology # Chain /\ roundNum # c.rounds => turn' = "asking" /\ roundNum' = roundNum + 1
    BY <1>1, <1>2, <1>8 DEF AskParticipant, NextSeat, Panel, Topology, Key
  <2>2. Len(spoken) + 1 = roundNum
    BY <1>2
  <2>3. /\ IsSeq(spoken') /\ Len(spoken') = roundNum
        /\ \A n \in 1 .. Len(spoken') : Keyed(c, spoken'[n], N, n)
    <3> HIDE DEF c
    <3>1. Keyed(c, sofar', N, Len(spoken) + 1)
      BY <1>6, <1>8, <2>2
    <3> QED
      BY <1>1, <1>2, <2>1, <2>2, <3>1, RoundsRecorded
  <2>4. Len(toldOf') = roundNum * N
    <3>1. PICK r \in Nat, k \in Nat, l \in Nat : r = roundNum /\ k = N /\ l = Len(toldOf)
      BY <1>1, <1>2, SeqDomain
    <3>2. l = (r - 1) * k + (k - 1) /\ Len(toldOf') = l + 1
      BY <1>2, <1>4, <1>8, <3>1
    <3>3. (r - 1) * k + (k - 1) + 1 = r * k
      BY Rows
    <3>4. Len(toldOf') = r * k
      BY <3>2, <3>3
    <3> QED
      BY <3>1, <3>4
  <2>5. CASE c.topology = Chain
    <3>1. seat \in 1 .. seat /\ sofar'[Key(c, seat)].by \in seat .. seat
      BY <1>2, <1>6 DEF Keyed
    <3>2. agreed'.by = seat
      BY <1>2, <2>1, <2>5, <3>1
    <3>3. roundNum = 1 /\ 1 * N = N
      BY <1>1, <1>2, <2>5
    <3>4. Len(toldOf') = N
      BY <2>4, <3>3
    <3>5. Concluded(c, toldOf)'
      BY <1>1, <1>5, <2>5, <3>2, <3>4 DEF Concluded
    <3> QED
      BY <1>1, <1>4, <2>1, <2>3, <2>5, <3>5 DEF CouncilInv
  <2>6. CASE c.topology # Chain /\ roundNum = c.rounds
    <3>1. InSession(c, spoken, toldOf)'
      BY <1>1, <1>2, <2>1, <2>3, <2>4, <2>6 DEF InSession
    <3> QED
      BY <1>1, <1>4, <2>1, <2>3, <2>6, <3>1 DEF CouncilInv
  <2>7. CASE c.topology # Chain /\ roundNum # c.rounds
    <3>1. roundNum' \in 1 .. c.rounds /\ Len(spoken') = roundNum' - 1 /\ ~(seat' > 1) /\ seat' \in 1 .. N
      BY <1>1, <1>2, <2>1, <2>3, <2>7
    <3>2. Len(toldOf') = (roundNum' - 1) * N + (seat' - 1)
      BY <1>1, <1>2, <2>1, <2>4, <2>7, Rows
    <3>3. InSession(c, spoken, toldOf)'
      BY <1>1, <1>2, <2>1, <2>3, <2>7, <3>1, <3>2 DEF InSession, Seats
    <3> QED
      BY <1>1, <1>4, <2>1, <2>3, <2>7, <3>3 DEF CouncilInv
  <2> QED
    BY <2>5, <2>6, <2>7
<1> QED
  BY <1>1, <1>2, <1>7, <1>8

LEMMA ConsolidateKeeps ==
  ASSUME CouncilInv, Consolidate
  PROVE  CouncilInv'
<1> DEFINE c == sitting.council
           told == [who |-> Consolidator, round |-> roundNum, shown |-> Discussion(spoken)]
<1>1. /\ sitting \in CouncilTasks /\ CouncilAccepted(sitting) /\ turn = "consolidating" /\ sitting' = sitting
      /\ turn' = "over" /\ spoken' = spoken /\ IsSeq(spoken) /\ IsSeq(toldOf) /\ InSession(c, spoken, toldOf)
      /\ \A n \in 1 .. Len(toldOf) : HeardIn(c, toldOf[n])
      /\ Len(c.participants) \in Nat /\ toldOf' = Append(toldOf, told)
  BY PanelSeats DEF CouncilInv, Consolidate, BuildConsolidationPrompt
<1>2. HeardIn(c, told)
  BY <1>1, SynthesisHeard
<1>3. /\ IsSeq(toldOf') /\ Len(toldOf') = Len(toldOf) + 1 /\ Last(toldOf') = told
      /\ \A n \in 1 .. Len(toldOf') : HeardIn(c, toldOf'[n])
  <2> HIDE DEF told, c
  <2> QED
    BY <1>1, <1>2, CallsRecorded, ZenonT(40)
<1>4. agreed'.by = Consolidator
  BY DEF Consolidate, CallParticipant
<1>5. /\ ToCouncilSpec(c) /\ c.topology # Chain /\ Len(toldOf) = c.rounds * Len(c.participants)
  BY <1>1 DEF InSession
<1>6. c.rounds \in Nat
  BY <1>5 DEF ToCouncilSpec
<1>7. Len(toldOf') = Len(c.participants) * c.rounds + 1
  BY <1>1, <1>3, <1>5, <1>6, Rows
<1>8. Concluded(c, toldOf)'
  BY <1>1, <1>3, <1>4, <1>5, <1>7 DEF Concluded
<1> QED
  BY <1>1, <1>3, <1>8 DEF CouncilInv

LEMMA NextCouncil == CouncilInv /\ [CouncilNext]_councilVars => CouncilInv'
<1> SUFFICES ASSUME CouncilInv, [CouncilNext]_councilVars PROVE CouncilInv'
  OBVIOUS
<1>1. CASE Convene
  <2> DEFINE c == sitting.council
  <2>1. /\ sitting \in CouncilTasks /\ CouncilAccepted(sitting) /\ c # NoCouncil
        /\ turn' = "asking" /\ sitting' = sitting /\ roundNum' = 1 /\ seat' = 1 /\ spoken' = <<>> /\ toldOf' = <<>>
        /\ Len(c.participants) \in Nat
    BY <1>1, PanelSeats DEF CouncilInv, Convene
  <2>2. ToCouncilSpec(c)
    BY <2>1 DEF CouncilAccepted
  <2>3. 1 \in 1 .. c.rounds /\ 1 \in Seats(c)
    BY <2>1, <2>2 DEF ToCouncilSpec, Seats
  <2>4. (1 - 1) * Len(c.participants) + (1 - 1) = 0
    BY <2>1
  <2>5. InSession(c, spoken, toldOf)'
    BY <2>1, <2>2, <2>3, <2>4, EmptyIsSeq DEF InSession
  <2> QED
    BY <2>1, <2>5, EmptyIsSeq DEF CouncilInv
<1>2. CASE GoWithout
  BY <1>2 DEF GoWithout, CouncilInv, Concluded
<1>3. CASE AskParticipant
  BY <1>3, AskKeeps
<1>4. CASE Consolidate
  BY <1>4, ConsolidateKeeps
<1>5. CASE UNCHANGED councilVars
  BY <1>5 DEF councilVars, CouncilInv, InSession, Concluded
<1> QED
  BY <1>1, <1>2, <1>3, <1>4, <1>5 DEF CouncilNext

LEMMA CouncilInvariant == CouncilSpec => []CouncilInv
BY InitCouncil, NextCouncil, PTL DEF CouncilSpec

\* In every council, of whatever topology, size and number of rounds, a call is
\* told one response of each voice it may hear and of no other, and the
\* synthesis is the last call's (run_council and its prompt builders).
THEOREM VoicesAreHeard == CouncilSpec => []VoicesHeard
<1>1. CouncilInv => VoicesHeard
  <2> SUFFICES ASSUME CouncilInv PROVE VoicesHeard
    OBVIOUS
  <2> DEFINE c == sitting.council
  <2>1. /\ DOMAIN Panel = Seats(c) /\ IsSeq(toldOf) /\ DOMAIN toldOf = 1 .. Len(toldOf)
        /\ \A n \in 1 .. Len(toldOf) : HeardIn(c, toldOf[n])
        /\ turn = "over" => Concluded(c, toldOf)
    BY PanelSeats, SeqDomain DEF CouncilInv, Panel
  <2>2. \A i \in Seats(c) : Voice(i) <=> KeptVoice(c, i)
    BY <2>1 DEF Voice, Namesakes, KeptVoice, Key, Panel
  <2>3. \A who, i : MayHear(who, i) <=> HearsOf(c, who, i)
    BY DEF MayHear, HearsOf, Topology, Panel
  <2>4. ASSUME NEW n \in 1 .. Len(toldOf)
        PROVE  LET told == toldOf[n]
                   earlier == IF Topology = Chain THEN {told.round} ELSE
                              IF told.who = Consolidator THEN 1 .. told.round ELSE 1 .. told.round - 1
               IN {<<s.by, s.round>> : s \in told.shown} =
                    {v \in (DOMAIN Panel) \X earlier :
                       MayHear(told.who, v[1]) /\ (Voice(v[1]) \/ Topology = Chain)}
    <3> DEFINE told == toldOf[n]
    <3>1. HeardIn(c, told)
      BY <2>1
    <3>2. \A v \in Seats(c) \X Earlier(c, told) :
            HearsOf(c, told.who, v[1]) /\ (KeptVoice(c, v[1]) \/ c.topology = Chain) <=>
              MayHear(told.who, v[1]) /\ (Voice(v[1]) \/ Topology = Chain)
      BY <2>2, <2>3 DEF Topology
    <3> HIDE DEF told
    <3>3. Attributed(told.shown) =
            {v \in Seats(c) \X Earlier(c, told) :
               MayHear(told.who, v[1]) /\ (Voice(v[1]) \/ Topology = Chain)}
      BY <3>1, <3>2 DEF HeardIn
    <3>4. Earlier(c, told) = IF Topology = Chain THEN {told.round} ELSE
                              IF told.who = Consolidator THEN 1 .. told.round ELSE 1 .. told.round - 1
      BY DEF Earlier, Topology
    <3> QED
      BY <2>1, <3>3, <3>4 DEF told, Attributed
  <2>5. turn = "over" /\ agreed # Nobody =>
          /\ agreed.by = Last(toldOf).who
          /\ Len(toldOf) = IF Topology = Chain THEN Len(Panel) ELSE Len(Panel) * sitting.council.rounds + 1
    BY <2>1 DEF Concluded, Topology, Panel
  <2> QED
    BY <2>1, <2>4, <2>5 DEF VoicesHeard
<1> QED
  BY <1>1, CouncilInvariant, PTL

-----------------------------------------------------------------------------
(***************************************************************************)
(* The judge of an output                                                  *)
(***************************************************************************)
NeedsAnswer(j) ==
  /\ ~(j.llm = 0 /\ j.rubric = <<>> /\ j.checks = <<>>)
  /\ j.checks = <<>> /\ j.threshold > Half

\* What may be scored before a call is answered with a number: nothing where the
\* criteria are asked for, at most a half where a text without a score is one.
Zeros == Seq([score : {0}, weight : Int])
Halves == Seq([score : 0 .. Half, weight : Int])
AskedCriteria == {"rubric", "steps", "score", "sum"}
AskedOverall == {"bull", "bear", "critique", "fallback", "calibrate"}

Unanswered ==
  /\ \A i \in DOMAIN votes : votes[i].verdict # "pass"
  /\ final.verdict # "pass"
  /\ call \in AskedCriteria => scored \in Zeros
  /\ call \in AskedOverall => scored \in Halves
  /\ call = "bear" => scored # <<>>

JudgeInv ==
  /\ judge \in Judges /\ IsSeq(votes) /\ heard \in BOOLEAN
  /\ call = "tally" => votes # <<>>
  /\ NeedsAnswer(judge) /\ ~heard => Unanswered
  /\ previous # 0 => previous = judged.evaluation /\ judged.verdict = "fail"

LEMMA ScaleHalves == Half \in Nat /\ Scale \in Nat /\ Half <= Scale
BY JudgingAssumption DEF Half

\* A mean that is not above one half does not reach a threshold that is.
LEMMA BelowThreshold ==
  ASSUME NEW h \in Nat, NEW t \in Nat, t > h, NEW n \in Nat, n > 0, NEW x \in Int, x <= h * n
  PROVE  ~(x >= t * n)
<1>1. PICK d \in Nat : t = h + d /\ d >= 1
  <2>1. t - h \in Nat /\ t = h + (t - h) /\ t - h >= 1
    OBVIOUS
  <2> QED
    BY <2>1
<1>2. t * n = h * n + d * n /\ h * n \in Int
  BY <1>1
<1>3. d * n \in Int /\ d * n >= n
  BY <1>1
<1> QED
  BY <1>2, <1>3

LEMMA MeanFails ==
  ASSUME judge \in Judges, judge.threshold > Half, NEW s \in Halves, s # <<>>
  PROVE  Verdict(ScoresMean(s), FALSE) # "pass"
<1> DEFINE f == [i \in DOMAIN s |-> s[i].score]
           n == Len(s)
<1>1. n \in Nat /\ DOMAIN s = 1 .. n /\ n > 0
  BY EmptySeq DEF Halves
<1>2. \A i \in 1 .. n : f[i] \in 0 .. Half
  <2>1. ASSUME NEW i \in 1 .. n PROVE f[i] \in 0 .. Half
    <3>1. s[i] \in [score : 0 .. Half, weight : Int]
      BY ElementOfSeq DEF Halves
    <3> QED
      BY <1>1, <3>1
  <2> QED
    BY <2>1
<1>3. DOMAIN f = 1 .. n
  BY <1>1
<1> HIDE DEF f
<1>4. SumFunctionOnSet(f, 1 .. n) \in Int /\ SumFunctionOnSet(f, 1 .. n) <= Half * n
  BY <1>1, <1>2, ScaleHalves, SumAtMost
<1>5. judge.threshold \in Nat
  BY JudgingAssumption
<1>6. ~(SumFunctionOnSet(f, 1 .. n) >= judge.threshold * n)
  BY <1>1, <1>4, <1>5, ScaleHalves, BelowThreshold
<1>7. ScoresMean(s) = [sum |-> SumFunctionOnSet(f, 1 .. n), of |-> n]
  BY <1>3 DEF ScoresMean, Total, f
<1>8. ScoresMean(s).sum = SumFunctionOnSet(f, 1 .. n) /\ ScoresMean(s).of = n
  BY <1>7
<1> QED
  BY <1>6, <1>8 DEF Verdict

LEMMA ZerosFail ==
  ASSUME judge \in Judges, judge.threshold > Half, scored \in Zeros
  PROVE  Verdict(AggregateScores, TRUE) # "pass"
<1> DEFINE n == Len(scored)
           o == AggregateScores
<1>1. n \in Nat /\ DOMAIN scored = 1 .. n /\ IsFiniteSet(1 .. n)
  BY FS_Interval DEF Zeros
<1>2. \A i \in 1 .. n : scored[i].score = 0 /\ scored[i].weight \in Int
  <2>1. ASSUME NEW i \in 1 .. n PROVE scored[i].score = 0 /\ scored[i].weight \in Int
    <3>1. scored[i] \in [score : {0}, weight : Int]
      BY ElementOfSeq DEF Zeros
    <3> QED
      BY <3>1
  <2> QED
    BY <2>1
<1>3. \A i \in 1 .. n : Weights[i] \in Int /\ Products[i] = 0
  BY <1>1, <1>2 DEF Weights, Products
<1>4. DOMAIN Weights = 1 .. n /\ DOMAIN Products = 1 .. n
  BY <1>1 DEF Weights, Products
<1>5. Total(Weights) \in Int
  BY <1>1, <1>3, <1>4, SumInt DEF Total
<1>6. Total(Products) = 0
  <2>1. SumFunctionOnSet(Products, 1 .. n) = SumFunctionOnSet(Products, {})
    <3>1. \A x \in 1 .. n : Products[x] \in Int
      BY <1>3
    <3>2. {} \in SUBSET (1 .. n) /\ \A x \in (1 .. n) \ {} : Products[x] = 0
      BY <1>3
    <3> QED
      BY <1>1, <3>1, <3>2, SumOfRest
  <2> QED
    BY <1>4, <2>1, SumEmpty DEF Total
<1>7. scored # <<>> => Min({scored[i].score : i \in DOMAIN scored}) = 0
  <2> SUFFICES ASSUME scored # <<>> PROVE Min({scored[i].score : i \in DOMAIN scored}) = 0
    OBVIOUS
  <2>1. 1 \in DOMAIN scored
    BY <1>1, EmptySeq DEF Zeros
  <2>2. {scored[i].score : i \in DOMAIN scored} = {0}
    BY <1>1, <1>2, <2>1
  <2>3. Min({0}) = 0
    BY DEF Min
  <2> QED
    BY <2>2, <2>3
<1>8. o.sum = 0 /\ o.of \in Nat /\ o.of > 0
  <2>1. CASE scored = <<>>
    BY <2>1 DEF AggregateScores
  <2>2. CASE scored # <<>> /\ judge.aggregation = "min"
    BY <1>7, <2>2 DEF AggregateScores
  <2>3. CASE scored # <<>> /\ judge.aggregation # "min" /\ Total(Weights) <= 0
    BY <2>3 DEF AggregateScores
  <2>4. CASE scored # <<>> /\ judge.aggregation # "min" /\ ~(Total(Weights) <= 0)
    <3>1. o = [sum |-> Total(Products), of |-> Total(Weights)]
      BY <2>4 DEF AggregateScores
    <3>2. o.sum = Total(Products) /\ o.of = Total(Weights)
      BY <3>1
    <3> QED
      BY <1>5, <1>6, <2>4, <3>2
  <2> QED
    BY <2>1, <2>2, <2>3, <2>4
<1> HIDE DEF o
<1>9. judge.threshold \in Nat /\ Half * o.of \in Int /\ 0 <= Half * o.of
  BY <1>8, ScaleHalves, JudgingAssumption
<1>10. ~(o.sum >= judge.threshold * o.of)
  BY <1>8, <1>9, ScaleHalves, BelowThreshold
<1> QED
  BY <1>10 DEF Verdict, o

LEMMA InitJudge == JudgeInit => JudgeInv
<1> SUFFICES ASSUME JudgeInit PROVE JudgeInv
  OBVIOUS
<1>1. judge \in Judges /\ call = "start" /\ votes = <<>> /\ heard = FALSE /\ previous = 0 /\ final.verdict = "none"
  BY DEF JudgeInit, NoFinal
<1>2. IsSeq(votes) /\ DOMAIN votes = {}
  BY <1>1, EmptyIsSeq
<1>3. Unanswered
  BY <1>1, <1>2 DEF Unanswered, AskedCriteria, AskedOverall
<1> QED
  BY <1>1, <1>2, <1>3 DEF JudgeInv

\* An evaluation ends with a vote.
LEMMA CastKeeps ==
  ASSUME JudgeInv, NEW ballot, Cast(ballot), heard' \in BOOLEAN, heard => heard',
         NeedsAnswer(judge) /\ ~heard' => ballot.verdict # "pass"
  PROVE  JudgeInv'
<1>1. /\ votes' = Append(votes, ballot) /\ call' \in {"start", "tally"}
      /\ judge' = judge /\ final' = final /\ previous' = previous /\ judged' = judged
  BY DEF Cast
<1>2. /\ IsSeq(votes') /\ DOMAIN votes = 1 .. Len(votes) /\ DOMAIN votes' = 1 .. Len(votes) + 1 /\ Len(votes) \in Nat
      /\ \A i \in 1 .. Len(votes) : votes'[i] = votes[i]
      /\ votes'[Len(votes) + 1] = ballot
  BY <1>1, SeqDomain, AppendSeq DEF JudgeInv
<1>3. votes' # <<>>
  BY <1>2, EmptyIsSeq
<1>4. ASSUME NeedsAnswer(judge), ~heard' PROVE Unanswered'
  <2>1. Unanswered /\ ballot.verdict # "pass"
    BY <1>4 DEF JudgeInv
  <2>2. ASSUME NEW i \in DOMAIN votes' PROVE votes'[i].verdict # "pass"
    <3>1. CASE i = Len(votes) + 1
      BY <1>2, <2>1, <3>1
    <3>2. CASE i # Len(votes) + 1
      BY <1>2, <2>1, <3>2 DEF Unanswered
    <3> QED
      BY <3>1, <3>2
  <2> QED
    BY <1>1, <2>1, <2>2 DEF Unanswered, AskedCriteria, AskedOverall
<1> QED
  BY <1>1, <1>2, <1>3, <1>4 DEF JudgeInv

\* An evaluation goes on.
LEMMA GoesOn ==
  ASSUME JudgeInv, NEW next, next # "tally", NEW scores, Ask(next, scores), heard' \in BOOLEAN, heard => heard',
         NeedsAnswer(judge) /\ ~heard' => /\ next \in AskedCriteria => scores \in Zeros
                                          /\ next \in AskedOverall => scores \in Halves
                                          /\ next = "bear" => scores # <<>>
  PROVE  JudgeInv'
<1>1. /\ votes' = votes /\ call' = next /\ scored' = scores
      /\ judge' = judge /\ final' = final /\ previous' = previous /\ judged' = judged
  BY DEF Ask
<1>2. ASSUME NeedsAnswer(judge), ~heard' PROVE Unanswered'
  <2>1. Unanswered
    BY <1>2 DEF JudgeInv
  <2> QED
    BY <1>1, <1>2, <2>1 DEF Unanswered
<1>3. judge' \in Judges /\ IsSeq(votes') /\ call' # "tally" /\ heard' \in BOOLEAN
  BY <1>1 DEF JudgeInv
<1>4. previous' # 0 => previous' = judged'.evaluation /\ judged'.verdict = "fail"
  BY <1>1 DEF JudgeInv
<1> QED
  BY <1>1, <1>2, <1>3, <1>4 DEF JudgeInv

\* A reply in which no number is heard has no score.
LEMMA NothingHeard ==
  ASSUME NEW r \in Replies, Hear(r), ~heard'
  PROVE  ~heard /\ (r.text = "json" => r.each = <<>> /\ r.score \in {Missing, NotANumber})
<1>1. ~heard /\ ~(r.text = "json" /\ (r.score >= 0 \/ r.each # <<>>))
  BY DEF Hear
<1>2. r.text = "json" => r.score \in {NotANumber, Missing, 0, Half, Scale + 1}
  BY DEF Replies
<1>3. r.text = "json" => r.each = <<>> /\ r.score \in {NotANumber, Missing}
  BY <1>1, <1>2, ScaleHalves
<1> QED
  BY <1>1, <1>3

LEMMA StartKeeps == JudgeInv /\ Start => JudgeInv'
<1> SUFFICES ASSUME JudgeInv, Start PROVE JudgeInv'
  OBVIOUS
<1>1. heard' = heard
  BY DEF Start
<1>0. heard' \in BOOLEAN /\ (heard => heard')
  BY <1>1 DEF JudgeInv
<1>2. CASE NoCriteria
  <2>1. Cast(Ballot("pass", [sum |-> Scale, of |-> 1])) /\ ~NeedsAnswer(judge)
    BY <1>2 DEF Start, NoCriteria, NeedsAnswer
  <2> QED
    BY <1>0, <2>1, CastKeeps
<1>3. CASE ~NoCriteria
  <2>1. PICK next \in {"bull", "critique", "rubric", "sum", "steps", "score"} :
          \/ next \in {"bull", "critique"} /\ Ask(next, <<>>)
          \/ next \in {"rubric", "sum", "steps", "score"} /\ Ask(next, Checked)
    BY <1>3 DEF Start, AfterRubric
  <2>2. NeedsAnswer(judge) => Checked = <<>>
    BY DEF NeedsAnswer, Checked
  <2>3. <<>> \in Zeros /\ <<>> \in Halves
    BY DEF Zeros, Halves
  <2>4. CASE next \in {"bull", "critique"} /\ Ask(next, <<>>)
    <3>1. next # "tally" /\ next # "bear" /\ next \notin AskedCriteria
      BY <2>4 DEF AskedCriteria
    <3> QED
      BY <1>0, <2>3, <2>4, <3>1, GoesOn
  <2>5. CASE next \in {"rubric", "sum", "steps", "score"} /\ Ask(next, Checked)
    <3>1. next # "tally" /\ next # "bear" /\ next \notin AskedOverall
      BY <2>5 DEF AskedOverall
    <3>2. PICK scores : scores = Checked
      OBVIOUS
    <3> QED
      BY <1>0, <2>2, <2>3, <2>5, <3>1, <3>2, GoesOn
  <2> QED
    BY <2>1, <2>4, <2>5
<1> QED
  BY <1>2, <1>3

\* What the calls of an evaluation find, as long as no number was heard.
LEMMA StillUnanswered ==
  ASSUME JudgeInv, NeedsAnswer(judge), ~heard
  PROVE  /\ Unanswered /\ judge \in Judges /\ judge.threshold > Half
         /\ call \in AskedCriteria => scored \in Zeros
         /\ call \in AskedOverall => scored \in Halves
         /\ call = "bear" => scored # <<>>
BY DEF JudgeInv, Unanswered, NeedsAnswer

LEMMA RubricKeeps ==
  ASSUME JudgeInv, NEW r \in Replies, EvaluateRubricCriteria(r)
  PROVE  JudgeInv'
<1> DEFINE more == RubricScores(r)
<1>1. call = "rubric" /\ Hear(r) /\ Ask(AfterRubric, scored \o more) /\ heard' \in BOOLEAN /\ (heard => heard')
  BY DEF EvaluateRubricCriteria, Hear, JudgeInv
<1>2. PICK next \in {"sum", "steps", "score"} : next = AfterRubric
  BY DEF AfterRubric
<1>3. ASSUME NeedsAnswer(judge), ~heard' PROVE scored \o more \in Zeros
  <2>1. ~heard /\ (r.text = "json" => r.each = <<>>)
    BY <1>1, <1>3, NothingHeard
  <2>2. scored \in Zeros
    BY <1>1, <1>3, <2>1, StillUnanswered DEF AskedCriteria
  <2>3. judge.rubric \in Seq(Int)
    BY JudgingAssumption DEF JudgeInv
  <2>4. PICK n \in Nat : DOMAIN judge.rubric = 1 .. n /\ judge.rubric \in [1 .. n -> Int]
    BY <2>3
  <2>5. more \in [1 .. n -> [score : {0}, weight : Int]]
    <3>1. DOMAIN judge.rubric = 1 .. n /\ \A i \in 1 .. n : judge.rubric[i] \in Int
      BY <2>4
    <3>2. \A i \in 1 .. n : ~(r.text = "json" /\ r.ok /\ i <= Len(r.each))
      BY <2>1, EmptyIsSeq
    <3> QED
      BY <3>1, <3>2 DEF RubricScores
  <2>6. more \in Zeros
    <3> HIDE DEF more
    <3> QED
      BY <2>4, <2>5, FunctionIsSeq DEF Zeros
  <2> HIDE DEF more
  <2> QED
    BY <2>2, <2>6 DEF Zeros
<1>4. PICK scores : scores = scored \o more
  OBVIOUS
<1>5. next # "tally" /\ next # "bear" /\ next \notin AskedOverall
  BY DEF AskedOverall
<1>6. Ask(next, scores) /\ (NeedsAnswer(judge) /\ ~heard' => scores \in Zeros)
  BY <1>1, <1>2, <1>3, <1>4
<1> HIDE DEF more
<1> QED
  BY <1>1, <1>5, <1>6, GoesOn

LEMMA StepsKeep ==
  ASSUME JudgeInv, GenerateEvalSteps
  PROVE  JudgeInv'
<1>1. call = "steps" /\ Ask("score", scored) /\ heard' = heard /\ heard \in BOOLEAN
  BY DEF GenerateEvalSteps, JudgeInv
<1>2. PICK scores : scores = scored
  OBVIOUS
<1>3. NeedsAnswer(judge) /\ ~heard' => scores \in Zeros
  BY <1>1, <1>2, StillUnanswered DEF AskedCriteria
<1>4. PICK next : next = "score"
  OBVIOUS
<1>5. next # "tally" /\ next # "bear" /\ next \notin AskedOverall /\ Ask(next, scores)
  BY <1>1, <1>2, <1>4 DEF AskedOverall
<1> QED
  BY <1>1, <1>3, <1>5, GoesOn

LEMMA ScoreKeeps ==
  ASSUME JudgeInv, NEW r \in Replies, ScoreCall(r)
  PROVE  JudgeInv'
<1>1. call = "score"
  BY DEF ScoreCall
<1>2. CASE r.text = "json" /\ r.ok
  <2> DEFINE more == ModelScores(r)
  <2>1. Hear(r) /\ Ask("sum", scored \o more) /\ heard' \in BOOLEAN /\ (heard => heard')
    BY <1>2 DEF ScoreCall, Hear, JudgeInv
  <2>2. ASSUME NeedsAnswer(judge), ~heard' PROVE scored \o more \in Zeros
    <3>1. ~heard /\ r.each = <<>> /\ r.score < 0
      BY <1>2, <2>1, <2>2, NothingHeard DEF Missing, NotANumber
    <3>2. scored \in Zeros
      BY <1>1, <2>2, <3>1, StillUnanswered DEF AskedCriteria
    <3>3. judge.llm \in Nat
      BY JudgingAssumption DEF JudgeInv
    <3>4. CASE judge.aggregation = "mean"
      <4>1. more = [i \in 1 .. judge.llm |-> [score |-> 0, weight |-> 1]]
        BY <3>1, <3>4 DEF ModelScores, Repeat
      <4>2. more \in [1 .. judge.llm -> [score : {0}, weight : Int]]
        BY <4>1
      <4> HIDE DEF more
      <4>3. more \in Seq([score : {0}, weight : Int])
        BY <3>3, <4>2, FunctionIsSeq
      <4> QED
        BY <3>2, <4>3 DEF Zeros
    <3>5. CASE judge.aggregation # "mean"
      <4>1. more \in [1 .. 0 -> [score : {0}, weight : Int]]
        BY <3>1, <3>5, EmptyIsSeq DEF ModelScores
      <4> QED
        BY <3>2, <4>1 DEF Zeros
    <3> QED
      BY <3>4, <3>5
  <2>3. PICK scores : scores = scored \o more
    OBVIOUS
  <2>4. PICK next : next = "sum"
    OBVIOUS
  <2>5. NeedsAnswer(judge) /\ ~heard' => scores \in Zeros
    BY <2>2, <2>3
  <2>6. next # "tally" /\ next # "bear" /\ next \notin AskedOverall /\ Ask(next, scores)
    BY <2>1, <2>3, <2>4 DEF AskedOverall
  <2> HIDE DEF more
  <2> QED
    BY <2>1, <2>5, <2>6, GoesOn
<1>3. CASE ~(r.text = "json" /\ r.ok)
  <2>1. Cast(Ballot("error", Nothing)) /\ heard' = heard /\ heard \in BOOLEAN
    BY <1>3 DEF ScoreCall, JudgeInv
  <2>2. Ballot("error", Nothing).verdict # "pass"
    BY DEF Ballot
  <2> QED
    BY <2>1, <2>2, CastKeeps
<1> QED
  BY <1>2, <1>3

LEMMA SumKeeps ==
  ASSUME JudgeInv, SumUp
  PROVE  JudgeInv'
<1>1. PICK ballot : ballot = Ballot(Verdict(AggregateScores, TRUE), AggregateScores)
  OBVIOUS
<1>2. call = "sum" /\ Cast(ballot) /\ heard' = heard /\ heard \in BOOLEAN
  BY <1>1 DEF SumUp, JudgeInv
<1>3. ballot.verdict = Verdict(AggregateScores, TRUE)
  BY <1>1 DEF Ballot
<1>4. NeedsAnswer(judge) /\ ~heard' => ballot.verdict # "pass"
  BY <1>2, <1>3, StillUnanswered, ZerosFail DEF AskedCriteria
<1> QED
  BY <1>2, <1>4, CastKeeps

\* Scores that are at most a half do not make a pass.
LEMMA MeanKeeps ==
  ASSUME JudgeInv, NEW scores, CastMean(scores), heard' \in BOOLEAN, heard => heard',
         NeedsAnswer(judge) /\ ~heard' => scores \in Halves /\ scores # <<>>
  PROVE  JudgeInv'
<1>1. PICK ballot : ballot = Ballot(Verdict(ScoresMean(scores), FALSE), ScoresMean(scores))
  OBVIOUS
<1>2. Cast(ballot) /\ ballot.verdict = Verdict(ScoresMean(scores), FALSE)
  BY <1>1 DEF CastMean, Ballot
<1>3. NeedsAnswer(judge) /\ ~heard' => ballot.verdict # "pass"
  BY <1>2, MeanFails DEF JudgeInv, NeedsAnswer
<1> QED
  BY <1>2, <1>3, CastKeeps

\* A text without a score counts as one half.
LEMMA SaidHalf ==
  ASSUME JudgeInv, NEW r \in Replies, ~Raises(r), Hear(r), call \in AskedOverall,
         NeedsAnswer(judge), ~heard'
  PROVE  Said(r) \in Halves /\ Said(r) # <<>>
<1>1. ~heard /\ (r.text = "json" => r.score \in {Missing, NotANumber})
  BY NothingHeard
<1>2. r.score # NotANumber /\ r.text \notin {"raises", "broken"}
  BY DEF Raises
<1>3. r.score = Missing
  <2>1. r.text = "none" => r.score = Missing
    BY DEF Replies
  <2>2. r.text \in {"raises", "none", "broken", "json"}
    BY DEF Replies
  <2> QED
    BY <1>1, <1>2, <2>1, <2>2
<1>4. SaidScore(r) = Half
  BY <1>3 DEF SaidScore
<1>5. scored \in Halves
  BY <1>1, StillUnanswered
<1>6. [score |-> SaidScore(r), weight |-> 1] \in [score : 0 .. Half, weight : Int]
  BY <1>4, ScaleHalves
<1>7. Said(r) = Append(scored, [score |-> SaidScore(r), weight |-> 1])
  BY DEF Said
<1> QED
  BY <1>5, <1>6, <1>7 DEF Halves

LEMMA BullKeeps ==
  ASSUME JudgeInv, NEW r \in Replies, Bull(r)
  PROVE  JudgeInv'
<1>1. call = "bull" /\ heard \in BOOLEAN /\ call \in AskedOverall
  BY DEF Bull, JudgeInv, AskedOverall
<1>2. CASE Raises(r) /\ scored # <<>>
  <2>1. CastMean(scored) /\ heard' = heard
    BY <1>2 DEF Bull
  <2>2. PICK scores : scores = scored
    OBVIOUS
  <2>3. CastMean(scores) /\ (NeedsAnswer(judge) /\ ~heard' => scores \in Halves /\ scores # <<>>)
    BY <1>1, <1>2, <2>1, <2>2, StillUnanswered
  <2> QED
    BY <1>1, <2>1, <2>3, MeanKeeps
<1>3. CASE Raises(r) /\ scored = <<>>
  <2>1. Cast(Ballot("error", Nothing)) /\ heard' = heard
    BY <1>3 DEF Bull
  <2>2. Ballot("error", Nothing).verdict # "pass"
    BY DEF Ballot
  <2> QED
    BY <1>1, <2>1, <2>2, CastKeeps
<1>4. CASE ~Raises(r)
  <2>1. Hear(r) /\ Ask("bear", Said(r))
    BY <1>4 DEF Bull
  <2>2. heard' \in BOOLEAN /\ (heard => heard')
    BY <1>1, <2>1 DEF Hear
  <2>3. PICK next, scores : next = "bear" /\ scores = Said(r)
    OBVIOUS
  <2>4. NeedsAnswer(judge) /\ ~heard' => scores \in Halves /\ scores # <<>>
    BY <1>1, <1>4, <2>1, <2>3, SaidHalf
  <2>5. next # "tally" /\ next \notin AskedCriteria /\ Ask(next, scores)
    BY <2>1, <2>3 DEF AskedCriteria
  <2> QED
    BY <2>2, <2>4, <2>5, GoesOn
<1> QED
  BY <1>2, <1>3, <1>4

LEMMA BearKeeps ==
  ASSUME JudgeInv, NEW r \in Replies, Bear(r)
  PROVE  JudgeInv'
<1>1. call = "bear" /\ heard \in BOOLEAN /\ call \in AskedOverall
  BY DEF Bear, JudgeInv, AskedOverall
<1>2. CASE Raises(r)
  <2>1. CastMean(scored) /\ heard' = heard
    BY <1>2 DEF Bear
  <2>2. PICK scores : scores = scored
    OBVIOUS
  <2>3. CastMean(scores) /\ (NeedsAnswer(judge) /\ ~heard' => scores \in Halves /\ scores # <<>>)
    BY <1>1, <2>1, <2>2, StillUnanswered
  <2> QED
    BY <1>1, <2>1, <2>3, MeanKeeps
<1>3. CASE ~Raises(r)
  <2>1. Hear(r) /\ (Ask("bull", Said(r)) \/ CastMean(Said(r)))
    BY <1>3 DEF Bear
  <2>2. heard' \in BOOLEAN /\ (heard => heard')
    BY <1>1, <2>1 DEF Hear
  <2>3. PICK next, scores : next = "bull" /\ scores = Said(r)
    OBVIOUS
  <2>4. NeedsAnswer(judge) /\ ~heard' => scores \in Halves /\ scores # <<>>
    BY <1>1, <1>3, <2>1, <2>3, SaidHalf
  <2>5. next # "tally" /\ next \notin AskedCriteria /\ (Ask(next, scores) \/ CastMean(scores))
    BY <2>1, <2>3 DEF AskedCriteria
  <2> QED
    BY <2>2, <2>4, <2>5, GoesOn, MeanKeeps
<1> QED
  BY <1>2, <1>3

LEMMA CritiqueKeeps ==
  ASSUME JudgeInv, NEW r \in Replies, Critique(r)
  PROVE  JudgeInv'
<1>1. PICK next \in {"calibrate", "fallback"} : call = "critique" /\ heard' = heard /\ Ask(next, scored)
  BY DEF Critique
<1>2. PICK scores : scores = scored
  OBVIOUS
<1>3. heard \in BOOLEAN /\ call \in AskedOverall
  BY <1>1 DEF JudgeInv, AskedOverall
<1>4. NeedsAnswer(judge) /\ ~heard' => scores \in Halves
  BY <1>1, <1>2, <1>3, StillUnanswered
<1>5. next # "tally" /\ next # "bear" /\ next \notin AskedCriteria /\ Ask(next, scores)
  BY <1>1, <1>2 DEF AskedCriteria
<1> QED
  BY <1>1, <1>3, <1>4, <1>5, GoesOn

LEMMA CalibrateKeeps ==
  ASSUME JudgeInv, NEW r \in Replies, Calibrate(r)
  PROVE  JudgeInv'
<1>1. heard \in BOOLEAN /\ call \in AskedOverall
  BY DEF Calibrate, JudgeInv, AskedOverall
<1>2. CASE Raises(r)
  <2>1. Cast(Ballot("error", Nothing)) /\ heard' = heard
    BY <1>2 DEF Calibrate
  <2>2. Ballot("error", Nothing).verdict # "pass"
    BY DEF Ballot
  <2> QED
    BY <1>1, <2>1, <2>2, CastKeeps
<1>3. CASE ~Raises(r)
  <2>1. Hear(r) /\ CastMean(Said(r))
    BY <1>3 DEF Calibrate
  <2>2. heard' \in BOOLEAN /\ (heard => heard')
    BY <1>1, <2>1 DEF Hear
  <2>3. PICK scores : scores = Said(r)
    OBVIOUS
  <2>4. NeedsAnswer(judge) /\ ~heard' => scores \in Halves /\ scores # <<>>
    BY <1>1, <1>3, <2>1, <2>3, SaidHalf
  <2>5. CastMean(scores)
    BY <2>1, <2>3
  <2> QED
    BY <2>2, <2>4, <2>5, MeanKeeps
<1> QED
  BY <1>2, <1>3

\* Whatever the strategy, a quorum that passes an output has a vote that does.
LEMMA QuorumNeedsAPass ==
  ASSUME IsSeq(votes), QuorumVerdict = "pass"
  PROVE  \E i \in DOMAIN votes : votes[i].verdict = "pass"
<1> DEFINE P == With("pass")
           passes == Cardinality(P)
<1>1. IsFiniteSet(DOMAIN votes)
  BY SeqDomain, FS_Interval
<1>2. /\ IsFiniteSet(P) /\ IsFiniteSet(Valid)
  BY <1>1, FS_Subset DEF With, Valid
<1>3. passes \in Nat /\ Cardinality(Valid) \in Nat /\ (Cardinality(Valid) = 0 <=> Valid = {})
  BY <1>2, FS_CardinalityType, FS_EmptySet
<1>4. /\ Valid # {}
      /\ passes = Cardinality(Valid) \/ passes > 0 \/ 2 * passes > Cardinality(Valid)
  BY DEF QuorumVerdict
<1> HIDE DEF P, passes
<1>5. passes > 0
  BY <1>3, <1>4
<1>6. P # {}
  BY <1>5, FS_EmptySet DEF passes
<1> QED
  BY <1>6 DEF P, With

LEMMA QuorumKeeps ==
  ASSUME JudgeInv, RunJudgeQuorum
  PROVE  JudgeInv'
<1>1. /\ call = "tally" /\ call' = "compare" /\ votes' = votes /\ heard' = heard /\ scored' = scored
      /\ judge' = judge /\ previous' = previous /\ judged' = judged
  BY DEF RunJudgeQuorum
<1>2. IsSeq(votes) /\ votes # <<>> /\ judge \in Judges /\ heard \in BOOLEAN
  BY <1>1 DEF JudgeInv
<1>3. 1 \in DOMAIN votes
  BY <1>2, SeqDomain, EmptyDomain
<1>4. final'.verdict = "pass" => \E i \in DOMAIN votes : votes[i].verdict = "pass"
  <2> SUFFICES ASSUME final'.verdict = "pass" PROVE \E i \in DOMAIN votes : votes[i].verdict = "pass"
    OBVIOUS
  <2>1. CASE judge.quorum < 2
    <3>1. final' = [vote |-> 1, verdict |-> votes[1].verdict, sum |-> votes[1].sum, of |-> votes[1].of]
      BY <2>1 DEF RunJudgeQuorum
    <3> QED
      BY <1>3, <3>1
  <2>2. CASE ~(judge.quorum < 2)
    <3>1. PICK v, n, m : final' = [vote |-> v, verdict |-> QuorumVerdict, sum |-> n, of |-> m]
      BY <2>2 DEF RunJudgeQuorum
    <3>2. QuorumVerdict = "pass"
      BY <3>1
    <3> QED
      BY <1>2, <3>2, QuorumNeedsAPass
  <2> QED
    BY <2>1, <2>2
<1>5. ASSUME NeedsAnswer(judge), ~heard' PROVE Unanswered'
  <2>1. Unanswered
    BY <1>1, <1>5 DEF JudgeInv
  <2>2. final'.verdict # "pass"
    BY <1>4, <2>1 DEF Unanswered
  <2> QED
    BY <1>1, <2>1, <2>2 DEF Unanswered, AskedCriteria, AskedOverall
<1>6. previous' # 0 => previous' = judged'.evaluation /\ judged'.verdict = "fail"
  BY <1>1 DEF JudgeInv
<1>7. judge' \in Judges /\ IsSeq(votes') /\ heard' \in BOOLEAN /\ call' # "tally"
  BY <1>1, <1>2
<1> QED
  BY <1>1, <1>5, <1>6, <1>7 DEF JudgeInv

LEMMA ApplyKeeps ==
  ASSUME JudgeInv, ApplyVerdict
  PROVE  JudgeInv'
<1>1. /\ call' \in {"next", "over"} /\ votes' = votes /\ heard' = heard /\ scored' = scored /\ final' = final
      /\ judge' = judge /\ judged' = [evaluation |-> evaluation, verdict |-> final.verdict]
      /\ previous' # 0 => previous' = evaluation /\ final.verdict = "fail"
  BY DEF ApplyVerdict
<1>2. judge' \in Judges /\ IsSeq(votes') /\ heard' \in BOOLEAN /\ call' # "tally"
  BY <1>1 DEF JudgeInv
<1>3. ASSUME NeedsAnswer(judge), ~heard' PROVE Unanswered'
  <2>1. Unanswered
    BY <1>1, <1>3 DEF JudgeInv
  <2> QED
    BY <1>1, <2>1 DEF Unanswered, AskedCriteria, AskedOverall
<1>4. previous' # 0 => previous' = judged'.evaluation /\ judged'.verdict = "fail"
  BY <1>1
<1> QED
  BY <1>1, <1>2, <1>3, <1>4 DEF JudgeInv

LEMMA NextAttemptKeeps ==
  ASSUME JudgeInv, NEW o \in JudgedOutputs, NEW reached \in BOOLEAN, NextAttempt(o, reached)
  PROVE  JudgeInv'
<1>1. /\ call' \in {"start", "next", "over"} /\ votes' = <<>> /\ heard' = FALSE /\ final'.verdict = "none"
      /\ judge' = judge /\ judged' = judged /\ previous' = previous
  BY DEF NextAttempt, NoFinal
<1>2. IsSeq(votes') /\ DOMAIN votes' = {}
  BY <1>1, EmptyIsSeq
<1>3. Unanswered'
  BY <1>1, <1>2 DEF Unanswered, AskedCriteria, AskedOverall
<1>4. judge' \in Judges /\ (previous' # 0 => previous' = judged'.evaluation /\ judged'.verdict = "fail")
  BY <1>1 DEF JudgeInv
<1> QED
  BY <1>1, <1>2, <1>3, <1>4 DEF JudgeInv

LEMMA NextJudge == JudgeInv /\ [JudgeNext]_judgeVars => JudgeInv'
<1> SUFFICES ASSUME JudgeInv, [JudgeNext]_judgeVars PROVE JudgeInv'
  OBVIOUS
<1>1. CASE UNCHANGED judgeVars
  <2>1. /\ judge' = judge /\ call' = call /\ scored' = scored /\ votes' = votes /\ final' = final
        /\ previous' = previous /\ heard' = heard /\ judged' = judged
    BY <1>1 DEF judgeVars
  <2>2. ASSUME NeedsAnswer(judge), ~heard' PROVE Unanswered'
    <3>1. Unanswered
      BY <2>1, <2>2 DEF JudgeInv
    <3> QED
      BY <2>1, <3>1 DEF Unanswered
  <2>3. judge' \in Judges /\ IsSeq(votes') /\ heard' \in BOOLEAN /\ (call' = "tally" => votes' # <<>>)
    BY <2>1 DEF JudgeInv
  <2>4. previous' # 0 => previous' = judged'.evaluation /\ judged'.verdict = "fail"
    BY <2>1 DEF JudgeInv
  <2> QED
    BY <2>1, <2>2, <2>3, <2>4 DEF JudgeInv
<1>2. CASE Start \/ GenerateEvalSteps \/ SumUp \/ RunJudgeQuorum \/ ApplyVerdict
  BY <1>2, StartKeeps, StepsKeep, SumKeeps, QuorumKeeps, ApplyKeeps
<1>3. ASSUME NEW r \in Replies,
             EvaluateRubricCriteria(r) \/ ScoreCall(r) \/ Bull(r) \/ Bear(r) \/ Critique(r) \/ Calibrate(r)
      PROVE  JudgeInv'
  BY <1>3, RubricKeeps, ScoreKeeps, BullKeeps, BearKeeps, CritiqueKeeps, CalibrateKeeps
<1>4. ASSUME NEW o \in JudgedOutputs, NEW reached \in BOOLEAN, NextAttempt(o, reached)
      PROVE  JudgeInv'
  BY <1>4, NextAttemptKeeps
<1> QED
  BY <1>1, <1>2, <1>3, <1>4 DEF JudgeNext

LEMMA JudgeInvariant == JudgeSpec => []JudgeInv
BY InitJudge, NextJudge, PTL DEF JudgeSpec

\* For every judge, whatever its models say or fail to say: no output passes on
\* their criteria without an answer with a number, and one is compared only with
\* the attempt that was judged last, and failed (_run_judge_evaluation and the
\* judge's part of execute_task).
THEOREM VerdictsAreGrounded == JudgeSpec => VerdictGrounded
<1>1. JudgeInv => PassTakesAnAnswer
  BY DEF JudgeInv, Unanswered, NeedsAnswer, PassTakesAnAnswer, NoCriteria
<1>2. JudgeInv /\ [JudgeNext]_judgeVars /\ compared' # compared
        => compared'.with = judged.evaluation /\ judged.verdict = "fail"
  <2> SUFFICES ASSUME JudgeInv, [JudgeNext]_judgeVars, compared' # compared
               PROVE  compared'.with = judged.evaluation /\ judged.verdict = "fail"
    OBVIOUS
  <2>1. ApplyVerdict
    BY DEF JudgeNext, judgeVars, Start, GenerateEvalSteps, SumUp, RunJudgeQuorum, EvaluateRubricCriteria, ScoreCall,
           Bull, Bear, Critique, Calibrate, CastMean, NextAttempt, Cast, Ask
  <2>2. previous # 0 /\ compared' = [evaluation |-> evaluation, with |-> previous]
    BY <2>1 DEF ApplyVerdict
  <2> QED
    BY <2>2 DEF JudgeInv
<1>3. JudgeInv' => PassTakesAnAnswer'
  BY <1>1, PTL
<1>4. JudgeInv /\ JudgeInv' /\ [JudgeNext]_judgeVars =>
        [/\ PassTakesAnAnswer'
         /\ compared' # compared => compared'.with = judged.evaluation /\ judged.verdict = "fail"]_judgeVars
  BY <1>2, <1>3
<1> QED
  BY <1>4, JudgeInvariant, PTL DEF JudgeSpec, VerdictGrounded

-----------------------------------------------------------------------------
(***************************************************************************)
(* The context of a task                                                   *)
(***************************************************************************)

\* Texts are sequences of sections, and nothing else is.
LEMMA TextIsSeq ==
  ASSUME NEW text \in Texts
  PROVE  /\ IsSeq(text) /\ Len(text) \in Nat /\ DOMAIN text = 1 .. Len(text)
         /\ \A i \in DOMAIN text : text[i] \in Sections
BY DEF Texts, IsSeq

LEMMA IsText ==
  ASSUME NEW n \in Nat, NEW text, text = [i \in 1 .. n |-> text[i]], \A i \in 1 .. n : text[i] \in Sections
  PROVE  text \in Texts /\ Len(text) = n /\ DOMAIN text = 1 .. n
<1>1. text \in [1 .. n -> Sections]
  OBVIOUS
<1>2. text \in Seq(Sections)
  BY <1>1, FunctionIsSeq
<1> QED
  BY <1>2, DomainIsSeq DEF Texts

LEMMA EmptyText == <<>> \in Texts
BY DEF Texts

LEMMA SizesUpTo ==
  ASSUME NEW text \in Texts
  PROVE  /\ SizeTo(text, 0) = 0
         /\ \A i \in 0 .. Len(text) : SizeTo(text, i) \in Nat
         /\ \A i \in 1 .. Len(text) : SizeTo(text, i) = text[i].n + SizeTo(text, i - 1)
         /\ \A i, j \in 0 .. Len(text) : i <= j => SizeTo(text, i) <= SizeTo(text, j)
         /\ Size(text) \in Nat
<1> DEFINE f == [j \in DOMAIN text |-> text[j].n]
<1>1. Len(text) \in Nat /\ \A i \in 1 .. Len(text) : f[i] = text[i].n /\ f[i] \in Nat
  BY TextIsSeq DEF Sections
<1>2. \A i : SizeTo(text, i) = SumFunctionOnSet(f, 1 .. i)
  BY DEF SizeTo
<1>3. PICK n \in Nat : n = Len(text)
  BY <1>1
<1> HIDE DEF f
<1>4. /\ SumFunctionOnSet(f, 1 .. 0) = 0
      /\ \A i \in 0 .. n : SumFunctionOnSet(f, 1 .. i) \in Nat
      /\ \A i \in 1 .. n : SumFunctionOnSet(f, 1 .. i) = f[i] + SumFunctionOnSet(f, 1 .. i - 1)
      /\ \A i, j \in 0 .. n : i <= j => SumFunctionOnSet(f, 1 .. i) <= SumFunctionOnSet(f, 1 .. j)
  BY <1>1, <1>3, SumsUpTo
<1>5. n \in 0 .. n
  OBVIOUS
<1> QED
  BY <1>1, <1>2, <1>3, <1>4, <1>5 DEF Size

\* A cut text is a text, no longer than it was nor than it may be.
LEMMA CutFits ==
  ASSUME NEW text \in Texts, NEW k \in Int
  PROVE  /\ Cut(text, k) \in Texts
         /\ Size(Cut(text, k)) <= Size(text)
         /\ k >= 0 => Size(Cut(text, k)) <= k
         /\ k <= 0 => Cut(text, k) = <<>>
<1>1. PICK n \in Nat : n = Len(text) /\ DOMAIN text = 1 .. n
  BY TextIsSeq
<1>2. PICK kept : kept = {j \in 1 .. n : k - SizeTo(text, j - 1) > 0}
  OBVIOUS
<1>3. /\ SizeTo(text, 0) = 0
      /\ \A i \in 0 .. n : SizeTo(text, i) \in Nat
      /\ \A i, j \in 0 .. n : i <= j => SizeTo(text, i) <= SizeTo(text, j)
      /\ Size(text) = SizeTo(text, n) /\ Size(text) \in Nat
  BY <1>1, SizesUpTo DEF Size
<1>4. PICK m \in 0 .. n : kept = 1 .. m
  <2>1. \A i \in kept : \A j \in 1 .. n : j <= i => j \in kept
    <3> SUFFICES ASSUME NEW i \in kept, NEW j \in 1 .. n, j <= i PROVE k - SizeTo(text, j - 1) > 0
      BY <1>2
    <3>1. i - 1 \in 0 .. n /\ j - 1 \in 0 .. n /\ j - 1 <= i - 1 /\ k - SizeTo(text, i - 1) > 0
      BY <1>2
    <3>2. /\ SizeTo(text, i - 1) \in Nat /\ SizeTo(text, j - 1) \in Nat
          /\ SizeTo(text, j - 1) <= SizeTo(text, i - 1)
      BY <1>3, <3>1
    <3> QED
      BY <3>1, <3>2
  <2>2. kept \subseteq 1 .. n
    BY <1>2
  <2> QED
    BY <2>1, <2>2, PrefixIsInterval
<1>5. \A i \in 1 .. m : /\ i \in 1 .. n /\ text[i] \in Sections
                        /\ k - SizeTo(text, i - 1) \in Nat /\ k - SizeTo(text, i - 1) > 0
  <2> SUFFICES ASSUME NEW i \in 1 .. m
               PROVE  /\ i \in 1 .. n /\ text[i] \in Sections
                      /\ k - SizeTo(text, i - 1) \in Nat /\ k - SizeTo(text, i - 1) > 0
    OBVIOUS
  <2>0. i \in kept
    BY <1>4
  <2>1. i \in 1 .. n /\ i - 1 \in 0 .. n /\ k - SizeTo(text, i - 1) > 0
    BY <1>2, <2>0
  <2>2. SizeTo(text, i - 1) \in Nat
    BY <1>3, <2>1
  <2> QED
    BY <1>1, <2>1, <2>2, TextIsSeq
<1> DEFINE cut == [i \in 1 .. m |-> [text[i] EXCEPT !.n = IF @ < k - SizeTo(text, i - 1) THEN @
                                                           ELSE k - SizeTo(text, i - 1)]]
<1>6. Cut(text, k) = cut
  BY <1>1, <1>2, <1>4 DEF Cut
<1>7. \A i \in 1 .. m : /\ cut[i] \in Sections /\ cut[i].n \in Nat
                        /\ cut[i].n <= text[i].n /\ cut[i].n <= k - SizeTo(text, i - 1)
  BY <1>5 DEF Sections
<1>8. cut = [i \in 1 .. m |-> cut[i]] /\ m \in Nat
  OBVIOUS
<1> HIDE DEF cut
<1>9. cut \in Texts /\ Len(cut) = m /\ DOMAIN cut = 1 .. m
  BY <1>7, <1>8, IsText
<1> DEFINE f == [j \in 1 .. n |-> text[j].n]
           g == [j \in 1 .. m |-> cut[j].n]
<1>10. \A i : SizeTo(text, i) = SumFunctionOnSet(f, 1 .. i)
  BY <1>1 DEF SizeTo
<1>11. Size(cut) = SumFunctionOnSet(g, 1 .. m)
  BY <1>9 DEF Size, SizeTo
<1>12. \A i \in 1 .. n : f[i] \in Nat /\ f[i] = text[i].n
  BY <1>1, TextIsSeq DEF Sections
<1>13. \A i \in 1 .. m : /\ g[i] \in Nat /\ g[i] <= f[i] /\ i \in 1 .. n
                         /\ g[i] <= k - SumFunctionOnSet(f, 1 .. i - 1)
  BY <1>5, <1>7, <1>10, <1>12
<1> HIDE DEF f, g
<1>14. Size(cut) <= Size(text)
  <2>0. IsFiniteSet(1 .. m)
    BY FS_Interval
  <2>1. \A i \in 1 .. m : g[i] \in Int /\ f[i] \in Int /\ g[i] <= f[i]
    <3> SUFFICES ASSUME NEW i \in 1 .. m PROVE g[i] \in Int /\ f[i] \in Int /\ g[i] <= f[i]
      OBVIOUS
    <3>1. g[i] \in Nat /\ g[i] <= f[i] /\ i \in 1 .. n
      BY <1>13, Zenon
    <3>2. f[i] \in Nat
      BY <1>12, <3>1, Zenon
    <3> QED
      BY <3>1, <3>2
  <2>2. SumFunctionOnSet(g, 1 .. m) <= SumFunctionOnSet(f, 1 .. m)
    BY <2>0, <2>1, SumBelow
  <2>3. SizeTo(text, m) <= SizeTo(text, n) /\ SizeTo(text, m) \in Nat
    BY <1>3
  <2>4. Size(cut) \in Nat
    BY <1>9, SizesUpTo
  <2> QED
    BY <1>3, <1>10, <1>11, <2>2, <2>3, <2>4
<1>15. k >= 0 => Size(cut) <= k
  <2> SUFFICES ASSUME k >= 0 PROVE Size(cut) <= k
    OBVIOUS
  <2>1. k \in Nat
    OBVIOUS
  <2>2. (\A i \in 1 .. n : f[i] \in Nat) /\ \A i \in 1 .. m : g[i] \in Nat /\ g[i] <= f[i] /\ g[i] <= k - SumFunctionOnSet(f, 1 .. i - 1)
    BY <1>12, <1>13
  <2>3. SumFunctionOnSet(g, 1 .. m) <= k
    BY <2>1, <2>2, SharesFit, Zenon
  <2> QED
    BY <1>11, <2>3
<1>16. k <= 0 => cut = <<>>
  <2>1. k <= 0 => 1 \notin 1 .. m
    <3>1. 1 \in 1 .. m => k - SizeTo(text, 0) > 0
      BY <1>5
    <3> QED
      BY <1>3, <3>1
  <2>2. k <= 0 => m = 0
    BY <2>1
  <2>3. cut # <<>> => m # 0
    BY <1>9, TextIsSeq, EmptyDomain
  <2> QED
    BY <2>2, <2>3
<1> QED
  BY <1>6, <1>9, <1>14, <1>15, <1>16

\* Whatever is taken of a text in order is a text.
LEMMA ThoseElements ==
  ASSUME NEW s, IsSeq(s), NEW S
  PROVE  IsSeq(Those(s, S)) /\ ToSet(Those(s, S)) = ToSet(s) \cap S
<1> DEFINE seqs == [i \in DOMAIN s |-> IF s[i] \in S THEN <<s[i]>> ELSE <<>>]
<1>1. Those(s, S) = FlattenSeq(seqs)
  BY DEF Those
<1>2. DOMAIN seqs = DOMAIN s /\ \A i \in DOMAIN s : seqs[i] = IF s[i] \in S THEN <<s[i]>> ELSE <<>>
  OBVIOUS
<1>3. IsSeq(seqs)
  <2>1. Len(s) \in Nat /\ DOMAIN s = 1 .. Len(s)
    BY SeqDomain
  <2>2. seqs = [i \in 1 .. Len(s) |-> seqs[i]]
    BY <2>1
  <2> HIDE DEF seqs
  <2> QED
    BY <2>1, <2>2, DomainIsSeq
<1> HIDE DEF seqs
<1>4. ASSUME NEW x PROVE IsSeq(<<x>>) /\ ToSet(<<x>>) = {x}
  <2>1. <<x>> \in Seq({x})
    OBVIOUS
  <2>2. DOMAIN <<x>> = {1} /\ <<x>>[1] = x
    OBVIOUS
  <2> QED
    BY <2>1, <2>2 DEF IsSeq, ToSet
<1>5. IsSeq(<<>>) /\ ToSet(<<>>) = {}
  BY EmptyIsSeq DEF ToSet
<1>6. \A i \in DOMAIN seqs : IsSeq(seqs[i]) /\ ToSet(seqs[i]) = {s[i]} \cap S
  <2> SUFFICES ASSUME NEW i \in DOMAIN s PROVE IsSeq(seqs[i]) /\ ToSet(seqs[i]) = {s[i]} \cap S
    BY <1>2
  <2>1. CASE s[i] \in S
    BY <1>2, <1>4, <2>1
  <2>2. CASE s[i] \notin S
    BY <1>2, <1>5, <2>2
  <2> QED
    BY <2>1, <2>2
<1>7. IsSeq(FlattenSeq(seqs)) /\ ToSet(FlattenSeq(seqs)) = UNION {ToSet(seqs[i]) : i \in DOMAIN seqs}
  BY <1>3, <1>6, FlattenElements
<1>8. UNION {ToSet(seqs[i]) : i \in DOMAIN seqs} = UNION {{s[i]} \cap S : i \in DOMAIN s}
  BY <1>2, <1>6
<1>9. UNION {{s[i]} \cap S : i \in DOMAIN s} = ToSet(s) \cap S
  BY DEF ToSet
<1> QED
  BY <1>1, <1>7, <1>8, <1>9

LEMMA SeqIsText ==
  ASSUME NEW s, IsSeq(s), ToSet(s) \subseteq Sections
  PROVE  s \in Texts
<1>1. PICK n \in Nat : n = Len(s) /\ DOMAIN s = 1 .. n
  BY SeqDomain
<1>2. \A i \in 1 .. n : s[i] \in Sections
  BY <1>1 DEF ToSet
<1>3. s = [i \in 1 .. n |-> s[i]]
  BY <1>1 DEF IsSeq
<1> QED
  BY <1>2, <1>3, IsText

LEMMA ThoseIsText ==
  ASSUME NEW text \in Texts, NEW S
  PROVE  Those(text, S) \in Texts
<1>1. IsSeq(text) /\ ToSet(text) \subseteq Sections
  BY TextIsSeq DEF ToSet
<1>2. IsSeq(Those(text, S)) /\ ToSet(Those(text, S)) = ToSet(text) \cap S
  BY <1>1, ThoseElements
<1> QED
  BY <1>1, <1>2, SeqIsText

LEMMA FittingIsText ==
  ASSUME NEW text \in Texts, NEW k \in Int
  PROVE  Fitting(text, k) \in Texts
<1>1. PICK n \in Nat : n = Len(text) /\ DOMAIN text = 1 .. n
  BY TextIsSeq
<1>2. PICK kept : kept = {j \in 1 .. n : SizeTo(text, j) <= k}
  OBVIOUS
<1>3. /\ \A i \in 0 .. n : SizeTo(text, i) \in Nat
      /\ \A i, j \in 0 .. n : i <= j => SizeTo(text, i) <= SizeTo(text, j)
  BY <1>1, SizesUpTo
<1>4. PICK m \in 0 .. n : kept = 1 .. m
  <2>1. \A i \in kept : \A j \in 1 .. n : j <= i => j \in kept
    <3> SUFFICES ASSUME NEW i \in kept, NEW j \in 1 .. n, j <= i PROVE SizeTo(text, j) <= k
      BY <1>2
    <3>1. i \in 0 .. n /\ j \in 0 .. n /\ SizeTo(text, i) <= k
      BY <1>2
    <3>2. SizeTo(text, i) \in Nat /\ SizeTo(text, j) \in Nat /\ SizeTo(text, j) <= SizeTo(text, i)
      BY <1>3, <3>1
    <3> QED
      BY <3>1, <3>2
  <2>2. kept \subseteq 1 .. n
    BY <1>2
  <2> QED
    BY <2>1, <2>2, PrefixIsInterval
<1> DEFINE fit == [i \in 1 .. m |-> text[i]]
<1>5. Fitting(text, k) = fit
  BY <1>1, <1>2, <1>4 DEF Fitting
<1>6. \A i \in 1 .. m : fit[i] \in Sections
  <2>1. \A i \in 1 .. m : i \in 1 .. n
    OBVIOUS
  <2> QED
    BY <1>1, <2>1, TextIsSeq
<1>7. fit = [i \in 1 .. m |-> fit[i]] /\ m \in Nat
  OBVIOUS
<1> HIDE DEF fit
<1> QED
  BY <1>5, <1>6, <1>7, IsText

LEMMA ExtractsAreTexts ==
  ASSUME NEW text \in Texts
  PROVE  ExtractL0(text) \in Texts /\ \A k \in Int : ExtractL1(text, k) \in Texts
<1>1. Title \in Int
  BY ContextAssumption
<1>2. SubSeq(text, 1, IF text = <<>> THEN 0 ELSE 1) \in Texts
  <2>1. CASE text = <<>>
    BY <2>1 DEF Texts
  <2>2. CASE text # <<>>
    BY <2>2 DEF Texts
  <2> QED
    BY <2>1, <2>2
<1>3. ExtractL0(text) \in Texts
  BY <1>1, <1>2, CutFits DEF ExtractL0
<1>4. ASSUME NEW k \in Int
      PROVE  ExtractL1(text, k) \in Texts
  <2>1. Keys(text) \in Texts
    BY ThoseIsText DEF Keys
  <2>2. Fitting(Keys(text), k) \in Texts /\ Cut(text, k) \in Texts
    BY <2>1, FittingIsText, CutFits
  <2> QED
    BY <2>2 DEF ExtractL1
<1> QED
  BY <1>3, <1>4

LEMMA FilteredIsText ==
  ASSUME NEW text \in Texts
  PROVE  FilterByIntent(text) \in Texts
BY ThoseIsText DEF FilterByIntent, Hits

LEMMA EstimateFits ==
  ASSUME NEW text \in Texts
  PROVE  Size(text) \in Nat /\ Estimate(text) \in Nat /\ Estimate(text) >= 1 /\ Size(text) <= Estimate(text)
BY SizesUpTo DEF Estimate

\* A task stands at least one step behind each of its upstreams, and what it
\* sees of one is a text.
LEMMA DistanceIsPositive ==
  ASSUME NEW u
  PROVE  HopDistance(u) \in Nat \ {0}
<1>1. PICK n \in Nat : n = Cardinality(Upstream)
  BY FS_CardinalityType, ContextAssumption
<1>2. CASE \A k \in 1 .. n : u \notin Layer[k]
  BY <1>1, <1>2 DEF HopDistance
<1>3. CASE \E k \in 1 .. n : u \in Layer[k]
  <2> DEFINE S == {k \in 1 .. n : u \in Layer[k]}
  <2>1. S \subseteq Nat /\ S # {}
    BY <1>3
  <2>2. PICK m \in S : \A k \in S : m <= k
    BY <2>1, LeastNumber
  <2>3. m \in 1 .. n /\ u \in Layer[m] /\ \A l \in 1 .. m - 1 : u \notin Layer[l]
    <3>1. m \in 1 .. n /\ u \in Layer[m]
      BY <2>2
    <3>2. \A l \in 1 .. m - 1 : l \in 1 .. n /\ ~ (m <= l)
      BY <3>1
    <3>3. \A l \in 1 .. m - 1 : l \notin S
      BY <2>2, <3>2, Zenon
    <3> QED
      BY <3>1, <3>2, <3>3, Zenon
  <2>4. HopDistance(u) = CHOOSE k \in 1 .. n : u \in Layer[k] /\ \A l \in 1 .. k - 1 : u \notin Layer[l]
    BY <1>1, <1>3 DEF HopDistance
  <2>5. HopDistance(u) \in 1 .. n
    BY <2>3, <2>4
  <2> QED
    BY <2>5
<1> QED
  BY <1>2, <1>3

DecayFits(g, n) ==
  g = [k \in 0 .. n |-> IF k = 0 THEN [num |-> 1, den |-> 1]
                        ELSE [num |-> 4 * g[k - 1].num, den |-> 5 * g[k - 1].den]]

LEMMA DecayExists == ASSUME NEW n \in Nat PROVE \E g : DecayFits(g, n)
<1> DEFINE Less(d) == [num |-> 4 * d.num, den |-> 5 * d.den]
           One == [num |-> 1, den |-> 1]
           Upto == {m \in Nat : \E g : g = [k \in 0 .. m |-> IF k = 0 THEN One ELSE Less(g[k - 1])]}
<1> HIDE DEF Less, One
<1>1. 0 \in Upto
  <2> DEFINE g == [m \in 0 .. 0 |-> One]
  <2>1. g = [k \in 0 .. 0 |-> IF k = 0 THEN One ELSE Less(g[k - 1])]
    OBVIOUS
  <2> HIDE DEF g
  <2> QED
    BY <2>1
<1>2. ASSUME NEW m \in Nat, m \in Upto PROVE m + 1 \in Upto
  <2>1. PICK g : g = [k \in 0 .. m |-> IF k = 0 THEN One ELSE Less(g[k - 1])]
    BY <1>2
  <2> DEFINE h == [k \in 0 .. m + 1 |-> IF k = 0 THEN One ELSE Less(g[k - 1])]
  <2>2. \A k \in 0 .. m : h[k] = g[k]
    BY <2>1
  <2>3. \A k \in 0 .. m + 1 : k # 0 => h[k - 1] = g[k - 1]
    <3> HIDE DEF h
    <3>1. \A k \in 0 .. m + 1 : k # 0 => k - 1 \in 0 .. m
      OBVIOUS
    <3> QED
      BY <2>2, <3>1
  <2>4. h = [k \in 0 .. m + 1 |-> IF k = 0 THEN One ELSE Less(h[k - 1])]
    BY <2>3
  <2> HIDE DEF h
  <2> QED
    BY <2>4
<1>3. Nat \subseteq Upto
  <2> HIDE DEF Upto
  <2> QED
    BY <1>1, <1>2, SetInduction
<1>4. PICK g : g = [k \in 0 .. n |-> IF k = 0 THEN One ELSE Less(g[k - 1])]
  BY <1>3
<1>5. DecayFits(g, n)
  BY <1>4 DEF DecayFits, Less, One
<1> QED
  BY <1>5

LEMMA DecayIsRatio ==
  ASSUME NEW h \in Nat
  PROVE  Decay(h).num \in Nat /\ Decay(h).den \in Nat \ {0}
<1> DEFINE d == CHOOSE d : DecayFits(d, h)
           Ratios == [num : Nat, den : Nat \ {0}]
           Upto == {k \in Nat : k <= h => d[k] \in Ratios}
<1>1. DecayFits(d, h)
  BY DecayExists
<1>2. Decay(h) = d[h]
  BY DEF Decay, DecayFits
<1> HIDE DEF d
<1>3. \A k \in 0 .. h : d[k] = IF k = 0 THEN [num |-> 1, den |-> 1]
                                ELSE [num |-> 4 * d[k - 1].num, den |-> 5 * d[k - 1].den]
  BY <1>1 DEF DecayFits
<1>4. 0 \in Upto
  <2>1. 0 \in 0 .. h
    OBVIOUS
  <2>2. d[0] = [num |-> 1, den |-> 1]
    BY <1>3, <2>1
  <2> QED
    BY <2>2
<1>5. ASSUME NEW k \in Nat, k \in Upto PROVE k + 1 \in Upto
  <2> SUFFICES ASSUME k + 1 <= h PROVE d[k + 1] \in Ratios
    OBVIOUS
  <2>1. k + 1 \in 0 .. h /\ k + 1 # 0 /\ (k + 1) - 1 = k /\ k <= h
    OBVIOUS
  <2>2. d[k + 1] = [num |-> 4 * d[k].num, den |-> 5 * d[k].den]
    BY <1>3, <2>1
  <2>3. d[k] \in Ratios
    BY <1>5, <2>1
  <2>4. PICK a \in Nat, b \in Nat \ {0} : d[k] = [num |-> a, den |-> b]
    BY <2>3
  <2>5. d[k + 1] = [num |-> 4 * a, den |-> 5 * b]
    BY <2>2, <2>4
  <2>6. 4 * a \in Nat /\ 5 * b \in Nat \ {0}
    OBVIOUS
  <2> QED
    BY <2>5, <2>6
<1>6. Nat \subseteq Upto
  <2> HIDE DEF Upto
  <2> QED
    BY <1>4, <1>5, SetInduction
<1>7. d[h] \in Ratios
  BY <1>6
<1> QED
  BY <1>2, <1>7

LEMMA DecayedIsText ==
  ASSUME NEW u, output[u] \in Texts
  PROVE  HopDecay(u) \in Texts
<1> DEFINE h == HopDistance(u) - 1
           d == Decay(h)
           k == (Size(output[u]) * d.num) \div d.den
<1>1. h \in Nat
  BY DistanceIsPositive
<1>2. d.num \in Nat /\ d.den \in Nat \ {0}
  BY <1>1, DecayIsRatio
<1>3. Size(output[u]) \in Nat
  BY SizesUpTo
<1>4. k \in Int
  <2>1. PICK s \in Nat, a \in Nat, b \in Nat \ {0} : s = Size(output[u]) /\ a = d.num /\ b = d.den
    BY <1>2, <1>3
  <2>2. PICK p \in Nat : p = s * a
    OBVIOUS
  <2>3. p \div b \in Int
    OBVIOUS
  <2> QED
    BY <2>1, <2>2, <2>3
<1>5. HopDecay(u) = Cut(output[u], k)
  BY DEF HopDecay
<1> QED
  BY <1>4, <1>5, CutFits

-----------------------------------------------------------------------------
(***************************************************************************)
(* Orders                                                                  *)
(***************************************************************************)

IsOrder(q, D) ==
  /\ IsSeq(q) /\ ToSet(q) = D
  /\ \A i, j \in DOMAIN q : q[i] = q[j] => i = j

\* An order of a finite set runs through all of it, each of it once.
LEMMA OrdersRunThrough ==
  ASSUME NEW D, IsFiniteSet(D), NEW q \in SetToSeqs(D)
  PROVE  IsOrder(q, D) /\ Len(q) = Cardinality(D)
<1>1. PICK n \in Nat : n = Cardinality(D)
  BY FS_CardinalityType
<1>2. q \in [1 .. n -> D] /\ \A i, j \in 1 .. n : i # j => q[i] # q[j]
  BY <1>1 DEF SetToSeqs
<1>3. q \in Seq(D)
  BY <1>1, <1>2, FunctionIsSeq
<1>4. IsSeq(q) /\ DOMAIN q = 1 .. n /\ Len(q) = n
  BY <1>2, <1>3 DEF IsSeq
<1>5. \A i, j \in DOMAIN q : q[i] = q[j] => i = j
  BY <1>2, <1>4
<1> DEFINE R == {q[i] : i \in 1 .. n}
<1>6. R \subseteq D /\ IsFiniteSet(R)
  <2>1. R \subseteq D
    BY <1>2
  <2> QED
    BY <2>1, FS_Subset
<1>7. Cardinality(R) = n
  <2>1. q \in Bijection(1 .. n, R)
    BY <1>2 DEF Bijection, Injection, Surjection, IsInjective
  <2>2. ExistsBijection(1 .. n, R)
    BY <2>1 DEF ExistsBijection
  <2> QED
    BY <2>2, FS_CountingElements
<1>8. R = D
  BY <1>1, <1>6, <1>7, FS_Subset
<1>9. ToSet(q) = D
  BY <1>4, <1>8 DEF ToSet
<1> QED
  BY <1>1, <1>4, <1>5, <1>9 DEF IsOrder

LEMMA RankFound ==
  ASSUME NEW D, NEW q, IsOrder(q, D)
  PROVE  /\ \A i \in DOMAIN q : Rank(q, q[i]) = i
         /\ \A u \in D : Rank(q, u) \in 1 .. Len(q) /\ q[Rank(q, u)] = u
<1>1. DOMAIN q = 1 .. Len(q)
  BY SeqDomain DEF IsOrder
<1>2. \A u \in D : Rank(q, u) \in DOMAIN q /\ q[Rank(q, u)] = u
  BY DEF IsOrder, ToSet, Rank
<1>3. \A i \in DOMAIN q : q[i] \in D
  BY DEF IsOrder, ToSet
<1> QED
  BY <1>1, <1>2, <1>3 DEF IsOrder

\* The least relevant come first.
LEMMA LeastFirstOrders ==
  ASSUME IsFiniteSet(DOMAIN view), NEW q \in LeastFirst
  PROVE  /\ IsOrder(q, DOMAIN view)
         /\ \A u, w \in DOMAIN view : relevance[w] < relevance[u] => Rank(q, w) < Rank(q, u)
<1>1. q \in SetToSeqs(DOMAIN view) /\ \A i, j \in DOMAIN q : relevance[q[i]] < relevance[q[j]] => i < j
  BY DEF LeastFirst, Rankings
<1>2. IsOrder(q, DOMAIN view)
  BY <1>1, OrdersRunThrough
<1>3. DOMAIN q = 1 .. Len(q)
  BY <1>2, SeqDomain DEF IsOrder
<1> QED
  BY <1>1, <1>2, <1>3, RankFound

-----------------------------------------------------------------------------
(***************************************************************************)
(* The budget of the tails                                                 *)
(***************************************************************************)

IsView(v) ==
  /\ v = [u \in DOMAIN v |-> v[u]] /\ DOMAIN v \subseteq Upstream
  /\ \A u \in DOMAIN v : v[u] \in Texts

LEMMA ViewIsFinite ==
  ASSUME NEW v, IsView(v)
  PROVE  IsFiniteSet(DOMAIN v)
BY FS_Subset, ContextAssumption DEF IsView

\* The sizes come to no more than the estimates.
LEMMA TotalsFit ==
  ASSUME NEW v, IsView(v)
  PROVE  TotalOf(v, Size) \in Nat /\ TotalOf(v, Estimate) \in Nat /\ TotalOf(v, Size) <= TotalOf(v, Estimate)
<1> DEFINE D == DOMAIN v
           f == [u \in D |-> Size(v[u])]
           g == [u \in D |-> Estimate(v[u])]
<1>1. IsFiniteSet(D)
  BY ViewIsFinite
<1>2. \A u \in D : f[u] = Size(v[u]) /\ g[u] = Estimate(v[u]) /\ v[u] \in Texts
  BY DEF IsView
<1>3. TotalOf(v, Size) = SumFunctionOnSet(f, D) /\ TotalOf(v, Estimate) = SumFunctionOnSet(g, D)
  BY DEF TotalOf
<1> HIDE DEF f, g
<1>4. \A u \in D : f[u] \in Nat /\ g[u] \in Nat /\ f[u] <= g[u]
  BY <1>2, EstimateFits
<1> HIDE DEF D
<1>5. SumFunctionOnSet(f, D) \in Nat /\ SumFunctionOnSet(g, D) \in Nat
  BY <1>1, <1>4, SumGrows
<1>6. \A u \in D : f[u] \in Int /\ g[u] \in Int /\ f[u] <= g[u]
  BY <1>4
<1>7. SumFunctionOnSet(f, D) <= SumFunctionOnSet(g, D)
  BY <1>1, <1>6, SumBelow
<1> QED
  BY <1>3, <1>5, <1>7

\* Shares of b in proportion to e come to no more than b.
LEMMA ShareOfOne ==
  ASSUME NEW e \in Nat, NEW b \in Nat, NEW t \in Nat \ {0}
  PROVE  (e * b) \div t \in Nat /\ t * ((e * b) \div t) <= e * b
<1>1. PICK p \in Nat : p = e * b
  OBVIOUS
<1>2. p \div t \in Nat /\ t * (p \div t) <= p
  OBVIOUS
<1> QED
  BY <1>1, <1>2

LEMMA Together ==
  ASSUME NEW t \in Nat, NEW b \in Nat, NEW q \in Nat, NEW r \in Nat, NEW e \in Nat, NEW f \in Nat,
         t * q <= e * b, t * r <= f * b
  PROVE  t * (q + r) <= (e + f) * b
<1>1. t * (q + r) = t * q + t * r /\ (e + f) * b = e * b + f * b
  OBVIOUS
<1>2. t * q \in Nat /\ t * r \in Nat /\ e * b \in Nat /\ f * b \in Nat
  OBVIOUS
<1> QED
  BY <1>1, <1>2

LEMMA ShareOfAll ==
  ASSUME NEW t \in Nat \ {0}, NEW b \in Nat, NEW q \in Nat, t * q <= t * b
  PROVE  q <= b
OBVIOUS

InProportion(S, e, q, b, t) ==
  /\ \A x \in S : e[x] \in Nat /\ q[x] = (e[x] * b) \div t
  /\ t = SumFunctionOnSet(e, S)

LEMMA SharesInProportion ==
  ASSUME NEW S, IsFiniteSet(S), NEW e, NEW q, NEW b \in Nat, NEW t \in Nat \ {0},
         InProportion(S, e, q, b, t)
  PROVE  SumFunctionOnSet(q, S) <= b
<1> DEFINE Fits(T) == t * SumFunctionOnSet(q, T) <= SumFunctionOnSet(e, T) * b
           Upto == {n \in Nat : \A T \in SUBSET S : Cardinality(T) = n => Fits(T)}
<1>1. \A T \in SUBSET S : IsFiniteSet(T) /\ Cardinality(T) \in Nat
  BY FS_Subset, FS_CardinalityType
<1>2. \A x \in S : q[x] \in Nat /\ e[x] \in Nat /\ t * q[x] <= e[x] * b
  BY ShareOfOne DEF InProportion
<1>3. \A T \in SUBSET S : SumFunctionOnSet(q, T) \in Nat /\ SumFunctionOnSet(e, T) \in Nat
  <2> SUFFICES ASSUME NEW T \in SUBSET S
               PROVE  SumFunctionOnSet(q, T) \in Nat /\ SumFunctionOnSet(e, T) \in Nat
    OBVIOUS
  <2>1. IsFiniteSet(T) /\ \A x \in T : q[x] \in Nat /\ e[x] \in Nat
    BY <1>1, <1>2
  <2> QED
    BY <2>1, SumGrows
<1>4. 0 \in Upto
  <2>1. \A T \in SUBSET S : Cardinality(T) = 0 => T = {}
    BY <1>1, FS_EmptySet
  <2>2. Fits({})
    BY SumEmpty
  <2> QED
    BY <2>1, <2>2
<1>5. ASSUME NEW n \in Nat, n \in Upto
      PROVE  n + 1 \in Upto
  <2> SUFFICES ASSUME NEW T \in SUBSET S, Cardinality(T) = n + 1
               PROVE  Fits(T)
    OBVIOUS
  <2>1. T # {} /\ IsFiniteSet(T)
    BY <1>1, FS_EmptySet
  <2>2. PICK x \in T : TRUE
    BY <2>1
  <2>3. T \ {x} \in SUBSET S /\ Cardinality(T \ {x}) = n
    <3>1. Cardinality(T \ {x}) = IF x \in T THEN Cardinality(T) - 1 ELSE Cardinality(T)
      BY <2>1, FS_RemoveElement, Zenon
    <3> QED
      BY <2>2, <3>1
  <2>4. Fits(T \ {x})
    BY <1>5, <2>3
  <2>5. \A y \in T : q[y] \in Int
    BY <1>2
  <2>6. \A y \in T : e[y] \in Int
    BY <1>2
  <2>7. IsFiniteSet(T)
    BY <2>1
  <2>8. SumFunctionOnSet(q, T) = q[x] + SumFunctionOnSet(q, T \ {x})
    BY <2>5, <2>7, SumSplits
  <2>9. SumFunctionOnSet(e, T) = e[x] + SumFunctionOnSet(e, T \ {x})
    BY <2>6, <2>7, SumSplits
  <2>10. q[x] \in Nat /\ e[x] \in Nat /\ t * q[x] <= e[x] * b
    BY <1>2
  <2>11. PICK qx \in Nat, ex \in Nat, qr \in Nat, er \in Nat :
          /\ qx = q[x] /\ ex = e[x] /\ qr = SumFunctionOnSet(q, T \ {x}) /\ er = SumFunctionOnSet(e, T \ {x})
    BY <1>3, <2>3, <2>10
  <2>12. t * qx <= ex * b /\ t * qr <= er * b
    BY <2>4, <2>10, <2>11
  <2>13. t * (qx + qr) <= (ex + er) * b
    BY <2>12, Together
  <2> QED
    BY <2>8, <2>9, <2>11, <2>13
<1>6. Nat \subseteq Upto
  <2> HIDE DEF Upto
  <2> QED
    BY <1>4, <1>5, SetInduction
<1>7. Fits(S)
  BY <1>1, <1>6
<1>8. PICK r \in Nat : r = SumFunctionOnSet(q, S)
  BY <1>3
<1>9. t * r <= t * b
  BY <1>7, <1>8 DEF InProportion
<1> QED
  BY <1>8, <1>9, ShareOfAll

Ahead(q, i) == {q[j] : j \in 1 .. i - 1}

LEMMA AheadGrows ==
  ASSUME NEW D, IsFiniteSet(D), NEW q, IsOrder(q, D)
  PROVE  /\ Ahead(q, 1) = {} /\ Ahead(q, Len(q) + 1) = D
         /\ \A i \in 1 .. Len(q) + 1 : Ahead(q, i) \subseteq D /\ IsFiniteSet(Ahead(q, i))
         /\ \A i \in 1 .. Len(q) : /\ q[i] \in D /\ q[i] \notin Ahead(q, i)
                                   /\ Ahead(q, i + 1) = Ahead(q, i) \cup {q[i]}
         /\ \A i, j \in 1 .. Len(q) : i < j => Ahead(q, i) \cup {q[i]} \subseteq Ahead(q, j)
<1>1. PICK n \in Nat : n = Len(q) /\ DOMAIN q = 1 .. n
  BY SeqDomain DEF IsOrder
<1>2. D = {q[i] : i \in 1 .. n} /\ \A i, j \in 1 .. n : q[i] = q[j] => i = j
  BY <1>1 DEF IsOrder, ToSet
<1>3. Ahead(q, 1) = {} /\ Ahead(q, n + 1) = D
  <2>1. 1 .. 1 - 1 = {} /\ 1 .. (n + 1) - 1 = 1 .. n
    OBVIOUS
  <2> QED
    BY <1>2, <2>1 DEF Ahead
<1>4. \A i \in 1 .. n + 1 : Ahead(q, i) \subseteq D
  <2>1. \A i \in 1 .. n + 1 : \A j \in 1 .. i - 1 : j \in 1 .. n
    OBVIOUS
  <2> QED
    BY <1>2, <2>1 DEF Ahead
<1>5. \A i \in 1 .. n + 1 : IsFiniteSet(Ahead(q, i))
  BY <1>4, FS_Subset
<1>6. ASSUME NEW i \in 1 .. n
      PROVE  q[i] \in D /\ q[i] \notin Ahead(q, i) /\ Ahead(q, i + 1) = Ahead(q, i) \cup {q[i]}
  <2>1. q[i] \in D
    BY <1>2
  <2>2. q[i] \notin Ahead(q, i)
    <3>1. \A j \in 1 .. i - 1 : j \in 1 .. n /\ j # i
      OBVIOUS
    <3> QED
      BY <1>2, <3>1 DEF Ahead
  <2>3. 1 .. (i + 1) - 1 = (1 .. i - 1) \cup {i}
    OBVIOUS
  <2>4. Ahead(q, i + 1) = Ahead(q, i) \cup {q[i]}
    BY <2>3 DEF Ahead
  <2> QED
    BY <2>1, <2>2, <2>4
<1>7. ASSUME NEW i \in 1 .. n, NEW j \in 1 .. n, i < j
      PROVE  Ahead(q, i) \cup {q[i]} \subseteq Ahead(q, j)
  <2>1. (1 .. i - 1) \cup {i} \subseteq 1 .. j - 1
    BY <1>7
  <2> QED
    BY <2>1 DEF Ahead
<1> QED
  BY <1>1, <1>3, <1>4, <1>5, <1>6, <1>7

\* What is over is taken from the first as far as they have it, and then from
\* the next: what is left is what was there less what was over.
LEMMA EvictionFits ==
  ASSUME NEW D, IsFiniteSet(D), NEW q, IsOrder(q, D), NEW had, NEW kept, NEW over \in Nat,
         \A u \in D : had[u] \in Nat /\ kept[u] \in Nat /\ kept[u] <= had[u],
         \A i \in 1 .. Len(q) :
           over - SumFunctionOnSet(had, Ahead(q, i)) > 0 =>
             \/ kept[q[i]] = 0
             \/ kept[q[i]] <= had[q[i]] - (over - SumFunctionOnSet(had, Ahead(q, i)))
  PROVE  \/ SumFunctionOnSet(kept, D) = 0
         \/ SumFunctionOnSet(kept, D) <= SumFunctionOnSet(had, D) - over
<1>1. PICK n \in Nat : n = Len(q)
  BY SeqDomain DEF IsOrder
<1> DEFINE Fits(k) == \/ SumFunctionOnSet(kept, Ahead(q, k + 1)) = 0
                      \/ SumFunctionOnSet(kept, Ahead(q, k + 1)) <= SumFunctionOnSet(had, Ahead(q, k + 1)) - over
           Upto == {k \in Nat : k <= n => Fits(k)}
<1>2. /\ Ahead(q, 1) = {} /\ Ahead(q, n + 1) = D
      /\ \A i \in 1 .. n + 1 : Ahead(q, i) \subseteq D /\ IsFiniteSet(Ahead(q, i))
      /\ \A i \in 1 .. n : /\ q[i] \in D /\ q[i] \notin Ahead(q, i)
                           /\ Ahead(q, i + 1) = Ahead(q, i) \cup {q[i]}
  BY <1>1, AheadGrows
<1>3. 0 \in Upto
  <2>1. Ahead(q, 0 + 1) = {}
    BY <1>2
  <2>2. SumFunctionOnSet(kept, Ahead(q, 0 + 1)) = 0
    BY <2>1, SumEmpty
  <2> QED
    BY <2>2
<1>4. \A i \in 1 .. n + 1 : /\ SumFunctionOnSet(had, Ahead(q, i)) \in Nat
                            /\ SumFunctionOnSet(kept, Ahead(q, i)) \in Nat
  <2> SUFFICES ASSUME NEW i \in 1 .. n + 1
               PROVE  /\ SumFunctionOnSet(had, Ahead(q, i)) \in Nat
                      /\ SumFunctionOnSet(kept, Ahead(q, i)) \in Nat
    OBVIOUS
  <2>1. IsFiniteSet(Ahead(q, i)) /\ \A u \in Ahead(q, i) : had[u] \in Nat /\ kept[u] \in Nat
    BY <1>2
  <2> QED
    BY <2>1, SumGrows
<1>5. ASSUME NEW k \in Nat, k \in Upto
      PROVE  k + 1 \in Upto
  <2> SUFFICES ASSUME k + 1 <= n PROVE Fits(k + 1)
    OBVIOUS
  <2>1. k + 1 \in 1 .. n /\ k + 1 \in 1 .. n + 1 /\ (k + 1) + 1 \in 1 .. n + 1 /\ k <= n
    OBVIOUS
  <2>2. PICK i \in 1 .. n : i = k + 1
    BY <2>1
  <2> DEFINE E == Ahead(q, i)
  <2>3. /\ q[i] \in D /\ q[i] \notin E /\ Ahead(q, i + 1) = E \cup {q[i]}
        /\ IsFiniteSet(E) /\ E \subseteq D
    <3>1. i \in 1 .. n + 1
      BY <2>1, <2>2
    <3> QED
      BY <1>2, <3>1
  <2>4. \A u \in E \cup {q[i]} : had[u] \in Int /\ kept[u] \in Int
    BY <2>3
  <2> HIDE DEF E
  <2>5. SumFunctionOnSet(had, E \cup {q[i]}) = had[q[i]] + SumFunctionOnSet(had, E)
    BY <2>3, <2>4, SumAdds
  <2>6. SumFunctionOnSet(kept, E \cup {q[i]}) = kept[q[i]] + SumFunctionOnSet(kept, E)
    BY <2>3, <2>4, SumAdds
  <2>7. PICK h \in Nat, l \in Nat, hs \in Nat, ls \in Nat :
          /\ h = had[q[i]] /\ l = kept[q[i]]
          /\ hs = SumFunctionOnSet(had, E) /\ ls = SumFunctionOnSet(kept, E)
    BY <1>4, <2>1, <2>2, <2>3 DEF E
  <2>8. ls = 0 \/ ls <= hs - over
    BY <1>5, <2>1, <2>2, <2>7 DEF E
  <2>9. l <= h /\ (over - hs > 0 => l = 0 \/ l <= h - (over - hs))
    BY <1>1, <2>2, <2>3, <2>7 DEF E
  <2>10. l + ls = 0 \/ l + ls <= (h + hs) - over
    BY <2>8, <2>9
  <2>11. Ahead(q, (k + 1) + 1) = E \cup {q[i]}
    BY <2>2, <2>3
  <2> QED
    BY <2>5, <2>6, <2>7, <2>10, <2>11
<1>6. Nat \subseteq Upto
  <2> HIDE DEF Upto
  <2> QED
    BY <1>3, <1>5, SetInduction
<1>7. Fits(n)
  BY <1>6
<1> QED
  BY <1>2, <1>7

Had(v) == [w \in DOMAIN v |-> IF v[w] = <<>> THEN 0 ELSE Estimate(v[w])]

LEMMA HadFits ==
  ASSUME NEW v, IsView(v)
  PROVE  /\ \A u \in DOMAIN v : /\ Had(v)[u] \in Nat /\ (v[u] # <<>> => Had(v)[u] = Estimate(v[u]))
                                /\ Had(v)[u] = 0 \/ v[u] # <<>>
         /\ SumFunctionOnSet(Had(v), DOMAIN v) \in Nat
         /\ SumFunctionOnSet(Had(v), DOMAIN v) <= TotalOf(v, Estimate)
<1> DEFINE D == DOMAIN v
           g == [u \in D |-> Estimate(v[u])]
<1>1. IsFiniteSet(D)
  BY ViewIsFinite
<1>2. \A u \in D : v[u] \in Texts /\ Estimate(v[u]) \in Nat
  BY EstimateFits DEF IsView
<1>3. \A u \in D : Had(v)[u] = IF v[u] = <<>> THEN 0 ELSE Estimate(v[u])
  BY DEF Had
<1>4. TotalOf(v, Estimate) = SumFunctionOnSet(g, D)
  BY DEF TotalOf
<1>5. \A u \in D : g[u] = Estimate(v[u])
  OBVIOUS
<1> HIDE DEF g, D
<1>6. \A u \in D : Had(v)[u] \in Nat /\ g[u] \in Nat /\ Had(v)[u] <= g[u]
  BY <1>2, <1>3, <1>5
<1>7. \A u \in D : Had(v)[u] \in Int /\ g[u] \in Int /\ Had(v)[u] <= g[u]
  BY <1>6
<1>8. SumFunctionOnSet(Had(v), D) <= SumFunctionOnSet(g, D)
  BY <1>1, <1>7, SumBelow
<1>9. \A u \in D : Had(v)[u] \in Nat
  BY <1>6
<1>10. SumFunctionOnSet(Had(v), D) \in Nat
  BY <1>1, <1>9, SumGrows
<1> QED
  BY <1>3, <1>4, <1>6, <1>8, <1>10 DEF D

LEMMA EvictedOneFits ==
  ASSUME NEW text \in Texts, NEW over \in Int
  PROVE  /\ EvictOne(text, over) \in Texts
         /\ over <= 0 => EvictOne(text, over) = text
         /\ text = <<>> => EvictOne(text, over) = <<>>
         /\ over >= Estimate(text) => EvictOne(text, over) = <<>>
         /\ Size(EvictOne(text, over)) \in Nat /\ Size(EvictOne(text, over)) <= Estimate(text)
         /\ over > 0 => \/ Size(EvictOne(text, over)) = 0
                        \/ Size(EvictOne(text, over)) <= Estimate(text) - over
<1>1. PICK e \in Nat : e = Estimate(text)
  BY EstimateFits
<1> DEFINE k == IF over > e THEN 0 ELSE e - over
           cut == Cut(text, k)
<1>2. k \in Int /\ k >= 0 /\ (over > 0 => k = 0 \/ k <= e - over) /\ (over >= e => k <= 0)
  OBVIOUS
<1>3. EvictOne(text, over) = IF over <= 0 \/ text = <<>> THEN text ELSE cut
  BY <1>1 DEF EvictOne
<1> HIDE DEF k
<1>4. cut \in Texts /\ Size(cut) <= Size(text) /\ Size(cut) <= k /\ (k <= 0 => cut = <<>>)
  BY <1>2, CutFits
<1> HIDE DEF cut
<1>5. Size(cut) \in Nat /\ Size(text) \in Nat /\ Size(text) <= e /\ e >= 1
  BY <1>1, <1>4, EstimateFits
<1>6. Size(<<>>) = 0
  <2>1. Len(<<>>) = 0 /\ (<<>>) \in Texts
    BY EmptyText
  <2> QED
    BY <2>1, SizesUpTo DEF Size
<1>7. CASE over <= 0
  <2>1. EvictOne(text, over) = text
    BY <1>3, <1>7
  <2> QED
    BY <1>1, <1>5, <1>7, <2>1
<1>8. CASE over > 0 /\ text = <<>>
  <2>1. EvictOne(text, over) = <<>>
    BY <1>3, <1>8
  <2> QED
    BY <1>1, <1>5, <1>6, <1>8, <2>1
<1>9. CASE over > 0 /\ text # <<>>
  <2>1. EvictOne(text, over) = cut
    BY <1>3, <1>9
  <2>2. Size(cut) = 0 \/ Size(cut) <= e - over
    <3>1. PICK c \in Nat, l \in Nat : c = Size(cut) /\ l = k
      BY <1>2, <1>5
    <3>2. c <= l /\ (l = 0 \/ l <= e - over)
      BY <1>2, <1>4, <1>9, <3>1
    <3>3. c = 0 \/ c <= e - over
      BY <3>2
    <3> QED
      BY <3>1, <3>3
  <2>3. Size(cut) <= e
    BY <1>4, <1>5
  <2>4. over >= e => cut = <<>>
    BY <1>2, <1>4
  <2> QED
    BY <1>1, <1>4, <1>5, <1>9, <2>1, <2>2, <2>3, <2>4
<1> QED
  BY <1>7, <1>8, <1>9

\* What is evicted is gone from the least relevant on, until the whole fits.
LEMMA Evicted ==
  ASSUME NEW v, IsView(v), NEW q, IsOrder(q, DOMAIN v),
         Budget \in Nat, TotalOf(v, Estimate) > Budget
  PROVE  /\ IsView(Evict(v, q)) /\ DOMAIN Evict(v, q) = DOMAIN v
         /\ TotalOf(Evict(v, q), Size) <= Budget
         /\ \A u, w \in DOMAIN v :
              Evict(v, q)[u] # v[u] /\ Rank(q, w) < Rank(q, u) => Evict(v, q)[w] = <<>>
<1>0. PICK total \in Nat, b \in Nat : total = TotalOf(v, Estimate) /\ b = Budget
  BY TotalsFit
<1>1. PICK over \in Nat : over = total - b /\ over > 0
  BY <1>0
<1> DEFINE D == DOMAIN v
           E == Evict(v, q)
           had == Had(v)
           excess == [u \in D |-> over - SumFunctionOnSet(had, Ahead(q, Rank(q, u)))]
           kept == [u \in DOMAIN E |-> Size(E[u])]
<1>2. IsFiniteSet(D) /\ \A u \in D : v[u] \in Texts
  BY ViewIsFinite DEF IsView
<1>3. \A u \in D : Excess(v, q, u) = excess[u]
  BY <1>0, <1>1 DEF Excess, Had, Ahead
<1>4. DOMAIN E = D /\ E = [u \in D |-> E[u]] /\ \A u \in D : E[u] = EvictOne(v[u], excess[u])
  BY <1>3 DEF Evict
<1>5. /\ \A u \in D : had[u] \in Nat /\ (v[u] # <<>> => had[u] = Estimate(v[u]))
                      /\ (had[u] = 0 \/ v[u] # <<>>)
      /\ SumFunctionOnSet(had, D) \in Nat /\ SumFunctionOnSet(had, D) <= TotalOf(v, Estimate)
  BY HadFits
<1>6. TotalOf(E, Size) = SumFunctionOnSet(kept, D) /\ \A u \in D : kept[u] = Size(E[u])
  BY <1>4 DEF TotalOf
<1>7. DOMAIN E \subseteq Upstream
  BY <1>4 DEF IsView
<1>8. \A u \in D : excess[u] = over - SumFunctionOnSet(had, Ahead(q, Rank(q, u)))
  OBVIOUS
<1>9. IsOrder(q, D)
  OBVIOUS
<1> HIDE DEF E, had, excess, kept, D
<1>10. /\ \A i \in DOMAIN q : Rank(q, q[i]) = i
       /\ \A u \in D : Rank(q, u) \in 1 .. Len(q) /\ q[Rank(q, u)] = u
  BY <1>9, RankFound
<1>11. Len(q) \in Nat /\ DOMAIN q = 1 .. Len(q)
  BY SeqDomain DEF IsOrder
<1>12. /\ \A i \in 1 .. Len(q) : Ahead(q, i) \subseteq D /\ IsFiniteSet(Ahead(q, i)) /\ q[i] \in D
       /\ \A i \in 1 .. Len(q) : q[i] \notin Ahead(q, i)
       /\ \A i, j \in 1 .. Len(q) : i < j => Ahead(q, i) \cup {q[i]} \subseteq Ahead(q, j)
  <2>1. \A i \in 1 .. Len(q) : i \in 1 .. Len(q) + 1
    BY <1>11
  <2> QED
    BY <1>2, <1>9, <2>1, AheadGrows
<1>13. \A i \in 1 .. Len(q) : SumFunctionOnSet(had, Ahead(q, i)) \in Nat
  <2> SUFFICES ASSUME NEW i \in 1 .. Len(q) PROVE SumFunctionOnSet(had, Ahead(q, i)) \in Nat
    OBVIOUS
  <2>1. IsFiniteSet(Ahead(q, i)) /\ \A u \in Ahead(q, i) : had[u] \in Nat
    BY <1>5, <1>12
  <2> QED
    BY <2>1, SumGrows
<1>14. \A u \in D : excess[u] \in Int
  <2> SUFFICES ASSUME NEW u \in D PROVE excess[u] \in Int
    OBVIOUS
  <2>1. Rank(q, u) \in 1 .. Len(q)
    BY <1>10
  <2>2. PICK h \in Nat : h = SumFunctionOnSet(had, Ahead(q, Rank(q, u)))
    BY <1>13, <2>1
  <2> QED
    BY <1>8, <2>2
<1>15. \A u \in D : E[u] \in Texts
  BY <1>2, <1>4, <1>14, EvictedOneFits
<1>16. IsView(E)
  BY <1>4, <1>15, <1>7 DEF IsView
<1>17. \A u \in D : /\ Size(E[u]) \in Nat /\ Size(E[u]) <= had[u]
                    /\ excess[u] > 0 => Size(E[u]) = 0 \/ Size(E[u]) <= had[u] - excess[u]
  <2> SUFFICES ASSUME NEW u \in D
               PROVE  /\ Size(E[u]) \in Nat /\ Size(E[u]) <= had[u]
                      /\ excess[u] > 0 => Size(E[u]) = 0 \/ Size(E[u]) <= had[u] - excess[u]
    OBVIOUS
  <2>1. PICK o \in Int : o = excess[u]
    BY <1>14
  <2>2. E[u] = EvictOne(v[u], o) /\ v[u] \in Texts
    BY <1>2, <1>4, <2>1
  <2>3. CASE v[u] = <<>>
    <3>1. E[u] = <<>>
      BY <2>2, <2>3, EvictedOneFits
    <3>2. Size(<<>>) = 0
      <4>1. Len(<<>>) = 0 /\ (<<>>) \in Texts
        BY EmptyText
      <4> QED
        BY <4>1, SizesUpTo DEF Size
    <3>3. PICK h \in Nat : h = had[u]
      BY <1>5
    <3> QED
      BY <2>1, <3>1, <3>2, <3>3
  <2>4. CASE v[u] # <<>>
    <3>1. had[u] = Estimate(v[u])
      BY <1>5, <2>4
    <3> QED
      BY <2>1, <2>2, <3>1, EvictedOneFits
  <2> QED
    BY <2>3, <2>4
<1>18. \A u \in D : had[u] \in Nat /\ kept[u] \in Nat /\ kept[u] <= had[u]
  BY <1>5, <1>17, <1>6
<1>19. \A i \in 1 .. Len(q) :
         over - SumFunctionOnSet(had, Ahead(q, i)) > 0 =>
           \/ kept[q[i]] = 0
           \/ kept[q[i]] <= had[q[i]] - (over - SumFunctionOnSet(had, Ahead(q, i)))
  <2> SUFFICES ASSUME NEW i \in 1 .. Len(q)
               PROVE  excess[q[i]] = over - SumFunctionOnSet(had, Ahead(q, i)) /\ q[i] \in D
    BY <1>17, <1>6
  <2> QED
    BY <1>10, <1>11, <1>12, <1>8
<1>20. TotalOf(E, Size) <= Budget
  <2>1. \/ SumFunctionOnSet(kept, D) = 0
        \/ SumFunctionOnSet(kept, D) <= SumFunctionOnSet(had, D) - over
    BY <1>2, <1>18, <1>19, <1>9, EvictionFits
  <2>2. PICK s \in Nat, h \in Nat : s = TotalOf(E, Size) /\ h = SumFunctionOnSet(had, D)
    BY <1>5, <1>16, TotalsFit
  <2>3. h <= total /\ (s = 0 \/ s <= h - over)
    BY <1>0, <1>5, <1>6, <2>1, <2>2
  <2>4. s <= b
    BY <1>1, <2>3
  <2> QED
    BY <1>0, <2>2, <2>4
<1>21. ASSUME NEW u \in D, NEW w \in D, E[u] # v[u], Rank(q, w) < Rank(q, u)
       PROVE  E[w] = <<>>
  <2>1. excess[u] > 0
    <3>1. PICK o \in Int : o = excess[u]
      BY <1>14
    <3>2. E[u] = EvictOne(v[u], o) /\ v[u] \in Texts
      BY <1>2, <1>4, <3>1
    <3>3. o <= 0 => E[u] = v[u]
      BY <3>2, EvictedOneFits
    <3> QED
      BY <1>21, <3>1, <3>3
  <2>2. PICK i \in 1 .. Len(q), j \in 1 .. Len(q) : i = Rank(q, w) /\ j = Rank(q, u)
    BY <1>10
  <2>3. q[i] = w /\ Ahead(q, i) \cup {w} \subseteq Ahead(q, j) /\ w \notin Ahead(q, i) /\ i < j
    <3>1. q[i] = w /\ i < j
      BY <1>10, <1>21, <2>2
    <3> QED
      BY <1>12, <3>1
  <2>4. SumFunctionOnSet(had, Ahead(q, i) \cup {w}) <= SumFunctionOnSet(had, Ahead(q, j))
    <3>1. IsFiniteSet(Ahead(q, j)) /\ \A x \in Ahead(q, j) : had[x] \in Nat
      BY <1>5, <1>12
    <3>2. Ahead(q, i) \cup {w} \in SUBSET Ahead(q, j)
      BY <2>3
    <3> QED
      BY <3>1, <3>2, SumGrows
  <2>5. SumFunctionOnSet(had, Ahead(q, i) \cup {w}) = had[w] + SumFunctionOnSet(had, Ahead(q, i))
    <3>1. IsFiniteSet(Ahead(q, i)) /\ Ahead(q, i) \cup {w} \subseteq D
      BY <1>12
    <3>2. \A x \in Ahead(q, i) \cup {w} : x \in D
      BY <3>1
    <3>3. \A x \in D : had[x] \in Int
      <4>1. \A x \in D : had[x] \in Nat
        BY <1>5, Zenon
      <4> QED
        BY <4>1
    <3>4. \A x \in Ahead(q, i) \cup {w} : had[x] \in Int
      BY <3>2, <3>3
    <3> QED
      BY <2>3, <3>1, <3>4, SumAdds
  <2>6. PICK o \in Int : o = excess[w]
    BY <1>14
  <2>7. PICK h \in Nat : h = had[w] /\ o > h
    <3>1. PICK h \in Nat, si \in Nat, sj \in Nat :
            /\ h = had[w] /\ si = SumFunctionOnSet(had, Ahead(q, i))
            /\ sj = SumFunctionOnSet(had, Ahead(q, j))
      BY <1>5, <1>13
    <3>2. h + si <= sj
      BY <2>4, <2>5, <3>1
    <3>3. over - sj > 0 /\ o = over - si
      BY <1>8, <2>1, <2>2, <2>6, <3>1
    <3>4. o > h
      BY <3>2, <3>3
    <3> QED
      BY <3>1, <3>4
  <2>8. E[w] = EvictOne(v[w], o) /\ v[w] \in Texts
    BY <1>2, <1>4, <2>6
  <2>9. CASE v[w] = <<>>
    BY <2>8, <2>9, EvictedOneFits
  <2>10. CASE v[w] # <<>>
    <3>1. had[w] = Estimate(v[w])
      BY <1>5, <2>10
    <3>2. o >= Estimate(v[w])
      BY <2>7, <3>1
    <3> QED
      BY <2>8, <3>2, EvictedOneFits
  <2> QED
    BY <2>9, <2>10
<1> QED
  BY <1>4, <1>16, <1>20, <1>21 DEF E, D

\* Cut in proportion, they keep to the budget.
LEMMA ShortenedAlike ==
  ASSUME NEW v, IsView(v), NEW b \in Nat, TotalOf(v, Estimate) > b
  PROVE  LET short == [u \in DOMAIN v |-> Cut(v[u], (Estimate(v[u]) * b) \div TotalOf(v, Estimate))] IN
         IsView(short) /\ TotalOf(short, Size) <= b
<1> DEFINE D == DOMAIN v
           e == [u \in D |-> Estimate(v[u])]
           q == [u \in D |-> (e[u] * b) \div TotalOf(v, Estimate)]
           short == [u \in D |-> Cut(v[u], (Estimate(v[u]) * b) \div TotalOf(v, Estimate))]
           size == [u \in DOMAIN short |-> Size(short[u])]
<1>1. PICK t \in Nat \ {0} : t = TotalOf(v, Estimate)
  BY TotalsFit
<1>2. IsFiniteSet(D) /\ \A u \in D : v[u] \in Texts /\ e[u] = Estimate(v[u]) /\ e[u] \in Nat
  BY ViewIsFinite, EstimateFits DEF IsView
<1>3. TotalOf(v, Estimate) = SumFunctionOnSet(e, D)
  BY DEF TotalOf
<1> HIDE DEF e
<1>4. \A u \in D : q[u] = (e[u] * b) \div t
  BY <1>1
<1>5. /\ DOMAIN short = D /\ short = [u \in D |-> short[u]]
      /\ \A u \in D : short[u] = Cut(v[u], q[u])
  BY <1>2
<1>6. TotalOf(short, Size) = SumFunctionOnSet(size, D) /\ \A u \in D : size[u] = Size(short[u])
  BY DEF TotalOf
<1> HIDE DEF q, short, size
<1>7. \A u \in D : q[u] \in Nat
  BY <1>2, <1>4, ShareOfOne
<1>8. \A u \in D : short[u] \in Texts /\ Size(short[u]) <= q[u]
  <2> SUFFICES ASSUME NEW u \in D PROVE short[u] \in Texts /\ Size(short[u]) <= q[u]
    OBVIOUS
  <2>1. PICK k \in Nat : k = q[u]
    BY <1>7
  <2>2. Cut(v[u], k) \in Texts /\ Size(Cut(v[u], k)) <= k
    BY <1>2, CutFits
  <2> QED
    BY <1>5, <2>1, <2>2
<1>9. IsView(short)
  BY <1>5, <1>8 DEF IsView
<1>10. \A u \in D : size[u] \in Int /\ q[u] \in Int /\ size[u] <= q[u]
  BY <1>6, <1>7, <1>8, EstimateFits
<1> HIDE DEF D
<1>11. SumFunctionOnSet(size, D) <= SumFunctionOnSet(q, D)
  BY <1>2, <1>10, SumBelow
<1>12. SumFunctionOnSet(q, D) <= b
  <2>1. InProportion(D, e, q, b, t)
    BY <1>1, <1>2, <1>3, <1>4 DEF InProportion
  <2> QED
    BY <1>2, <2>1, SharesInProportion
<1>13. SumFunctionOnSet(q, D) \in Nat /\ SumFunctionOnSet(size, D) \in Int
  <2>1. (\A u \in D : q[u] \in Nat) /\ \A u \in D : size[u] \in Int
    BY <1>7, <1>10
  <2>2. SumFunctionOnSet(q, D) \in Nat
    BY <1>2, <2>1, SumGrows
  <2>3. SumFunctionOnSet(size, D) \in Int
    BY <1>2, <2>1, SumInt
  <2> QED
    BY <2>2, <2>3
<1>14. TotalOf(short, Size) <= b
  BY <1>6, <1>11, <1>12, <1>13
<1> QED
  BY <1>9, <1>14 DEF short, D

\* The tails that were fitted keep to the budget, and what is taken from one
\* is taken after all that is less relevant.
LEMMA FittedToBudget ==
  ASSUME IsView(view), Task.budget \in Nat, FitToBudget
  PROVE  /\ IsView(view') /\ DOMAIN view' = DOMAIN view
         /\ Task.budget # 0 => TotalOf(view', Size) <= Budget
         /\ Task.keywords =>
              \A u, w \in DOMAIN view :
                view'[u] \notin {view[u], FilterByIntent(view[u])} /\ relevance[w] < relevance[u] => view'[w] = <<>>
<1> DEFINE filtered == [u \in DOMAIN view |-> FilterByIntent(view[u])]
           total == TotalOf(filtered, Estimate)
<1>1. Budget \in Nat
  BY ContextAssumption DEF Budget
<1>2. IsFiniteSet(DOMAIN view)
  BY ViewIsFinite
<1>3. IsView(filtered) /\ DOMAIN filtered = DOMAIN view
  <2>1. DOMAIN filtered = DOMAIN view /\ filtered = [u \in DOMAIN filtered |-> filtered[u]]
    OBVIOUS
  <2>2. \A u \in DOMAIN view : filtered[u] \in Texts
    BY FilteredIsText DEF IsView
  <2> HIDE DEF filtered
  <2> QED
    BY <2>1, <2>2 DEF IsView
<1>4. /\ TotalOf(view, Size) \in Nat /\ TotalOf(view, Estimate) \in Nat
      /\ TotalOf(view, Size) <= TotalOf(view, Estimate)
  BY TotalsFit
<1>5. TotalOf(filtered, Size) \in Nat /\ total \in Nat /\ TotalOf(filtered, Size) <= total
  <2> HIDE DEF filtered
  <2> QED
    BY <1>3, TotalsFit
<1>6. \A u \in DOMAIN view : filtered[u] = FilterByIntent(view[u])
  OBVIOUS
<1> HIDE DEF filtered
<1>7. CASE (Task.budget = 0 \/ TotalOf(view, Estimate) <= Budget) /\ view' = view
  <2>1. Task.budget # 0 => TotalOf(view', Size) <= Budget
    BY <1>1, <1>4, <1>7
  <2> QED
    BY <1>7, <2>1
<1>8. CASE total <= Budget /\ view' = filtered
  <2>1. TotalOf(view', Size) <= Budget
    BY <1>1, <1>5, <1>8
  <2> QED
    BY <1>3, <1>6, <1>8, <2>1
<1>9. CASE /\ ~ (total <= Budget) /\ ~ Task.keywords
           /\ view' = [u \in DOMAIN view |-> Cut(view[u], (Estimate(view[u]) * Budget) \div total)]
  <2>1. \A u \in DOMAIN view : filtered[u] = view[u]
    BY <1>6, <1>9 DEF FilterByIntent
  <2>2. filtered = view
    BY <1>3, <2>1 DEF IsView
  <2>3. PICK b \in Nat : b = Budget
    BY <1>1
  <2>4. TotalOf(view, Estimate) > b
    BY <1>5, <1>9, <2>2, <2>3
  <2> DEFINE short == [u \in DOMAIN view |-> Cut(view[u], (Estimate(view[u]) * b) \div TotalOf(view, Estimate))]
  <2>5. view' = short
    BY <1>9, <2>2, <2>3
  <2>6. IsView(short) /\ TotalOf(short, Size) <= b
    BY <2>4, ShortenedAlike
  <2>7. DOMAIN short = DOMAIN view
    OBVIOUS
  <2> HIDE DEF short
  <2> QED
    BY <1>9, <2>3, <2>5, <2>6, <2>7
<1>10. CASE ~ (total <= Budget) /\ \E order \in LeastFirst : view' = Evict(filtered, order)
  <2>1. PICK order \in LeastFirst : view' = Evict(filtered, order)
    BY <1>10
  <2>2. IsOrder(order, DOMAIN view)
        /\ \A u, w \in DOMAIN view : relevance[w] < relevance[u] => Rank(order, w) < Rank(order, u)
    BY <1>2, LeastFirstOrders
  <2>3. total > Budget
    BY <1>1, <1>5, <1>10
  <2>4. IsOrder(order, DOMAIN filtered)
    BY <1>3, <2>2
  <2>5. /\ IsView(Evict(filtered, order)) /\ DOMAIN Evict(filtered, order) = DOMAIN filtered
        /\ TotalOf(Evict(filtered, order), Size) <= Budget
        /\ \A u, w \in DOMAIN filtered :
             Evict(filtered, order)[u] # filtered[u] /\ Rank(order, w) < Rank(order, u) =>
               Evict(filtered, order)[w] = <<>>
    BY <1>1, <1>3, <2>3, <2>4, Evicted, Zenon
  <2> QED
    BY <1>3, <1>6, <2>1, <2>2, <2>5
<1>11. \/ (Task.budget = 0 \/ TotalOf(view, Estimate) <= Budget) /\ view' = view
       \/ total <= Budget /\ view' = filtered
       \/ /\ ~ (total <= Budget) /\ ~ Task.keywords
          /\ view' = [u \in DOMAIN view |-> Cut(view[u], (Estimate(view[u]) * Budget) \div total)]
       \/ ~ (total <= Budget) /\ \E order \in LeastFirst : view' = Evict(filtered, order)
  BY DEF FitToBudget, filtered
<1> QED
  BY <1>7, <1>8, <1>9, <1>10, <1>11

-----------------------------------------------------------------------------
(***************************************************************************)
(* The budget of the layered text                                          *)
(***************************************************************************)

LEMMA MostFirstElements ==
  ASSUME NEW order, IsSeq(order), ToSet(order) \subseteq DOMAIN view
  PROVE  IsSeq(MostFirst(order)) /\ ToSet(MostFirst(order)) \subseteq DOMAIN view
<1> DEFINE n == Len(order)
           back == Reverse(order)
<1>1. n \in Nat /\ DOMAIN order = 1 .. n
  BY SeqDomain
<1>2. back = [i \in 1 .. n |-> order[(n - i) + 1]]
  BY DEF Reverse
<1>3. back = [i \in 1 .. n |-> back[i]]
  BY <1>2
<1>4. \A i \in 1 .. n : (n - i) + 1 \in 1 .. n
  BY <1>1
<1>5. \A i \in 1 .. n : back[i] \in DOMAIN view
  BY <1>1, <1>2, <1>4 DEF ToSet
<1> HIDE DEF back, n
<1>6. IsSeq(back)
  BY <1>1, <1>3, DomainIsSeq
<1>7. DOMAIN back = 1 .. n
  BY <1>3
<1>8. ToSet(back) \subseteq DOMAIN view
  BY <1>5, <1>7 DEF ToSet
<1>9. MostFirst(order) = Those(back, {u \in DOMAIN view : view[u] # <<>>})
  BY DEF MostFirst, back
<1> QED
  BY <1>6, <1>8, <1>9, ThoseElements

TiersFit(g, first, order, whole, n) ==
  g = [i \in 0 .. n |-> IF i = 0 THEN first ELSE Upgrade(g[i - 1], order[i], whole[order[i]])]

LEMMA TiersExist ==
  ASSUME NEW first, NEW order, NEW whole, NEW n \in Nat
  PROVE  \E g : TiersFit(g, first, order, whole, n)
<1> DEFINE After(tier, i) == Upgrade(tier, order[i], whole[order[i]])
           Upto == {m \in Nat : \E g : g = [i \in 0 .. m |-> IF i = 0 THEN first ELSE After(g[i - 1], i)]}
<1> HIDE DEF After
<1>1. 0 \in Upto
  <2> DEFINE g == [i \in 0 .. 0 |-> first]
  <2>1. g = [i \in 0 .. 0 |-> IF i = 0 THEN first ELSE After(g[i - 1], i)]
    OBVIOUS
  <2> HIDE DEF g
  <2> QED
    BY <2>1
<1>2. ASSUME NEW m \in Nat, m \in Upto PROVE m + 1 \in Upto
  <2>1. PICK g : g = [i \in 0 .. m |-> IF i = 0 THEN first ELSE After(g[i - 1], i)]
    BY <1>2
  <2> DEFINE h == [i \in 0 .. m + 1 |-> IF i = 0 THEN first ELSE After(g[i - 1], i)]
  <2>2. \A i \in 0 .. m : h[i] = g[i]
    BY <2>1
  <2>3. \A i \in 0 .. m + 1 : i # 0 => h[i - 1] = g[i - 1]
    <3> HIDE DEF h
    <3>1. \A i \in 0 .. m + 1 : i # 0 => i - 1 \in 0 .. m
      OBVIOUS
    <3> QED
      BY <2>2, <3>1
  <2>4. h = [i \in 0 .. m + 1 |-> IF i = 0 THEN first ELSE After(h[i - 1], i)]
    BY <2>3
  <2> HIDE DEF h
  <2> QED
    BY <2>4
<1>3. Nat \subseteq Upto
  <2> HIDE DEF Upto
  <2> QED
    BY <1>1, <1>2, SetInduction
<1>4. PICK g : g = [i \in 0 .. n |-> IF i = 0 THEN first ELSE After(g[i - 1], i)]
  BY <1>3
<1>5. TiersFit(g, first, order, whole, n)
  BY <1>4 DEF TiersFit, After
<1> QED
  BY <1>5

\* An upgrade of a text is a text.
LEMMA UpgradedIsText ==
  ASSUME NEW first, first.text \in [Upstream -> Texts], NEW order, IsSeq(order),
         NEW whole, \A i \in DOMAIN order : order[i] \in Upstream /\ whole[order[i]] \in Texts
  PROVE  Upgraded(first, order, whole).text \in [Upstream -> Texts]
<1> DEFINE n == Len(order)
           tier == CHOOSE g : TiersFit(g, first, order, whole, n)
           Upto == {i \in Nat : i <= n => tier[i].text \in [Upstream -> Texts]}
<1>1. n \in Nat /\ DOMAIN order = 1 .. n
  BY SeqDomain
<1>2. TiersFit(tier, first, order, whole, n)
  BY <1>1, TiersExist
<1>3. Upgraded(first, order, whole) = tier[n]
  BY DEF Upgraded, TiersFit
<1> HIDE DEF tier, n
<1>4. \A i \in 0 .. n : tier[i] = IF i = 0 THEN first ELSE Upgrade(tier[i - 1], order[i], whole[order[i]])
  BY <1>2 DEF TiersFit
<1>5. 0 \in Upto
  <2>1. 0 \in 0 .. n
    BY <1>1
  <2>2. tier[0] = first
    BY <1>4, <2>1
  <2> QED
    BY <2>2
<1>6. ASSUME NEW i \in Nat, i \in Upto PROVE i + 1 \in Upto
  <2> SUFFICES ASSUME i + 1 <= n PROVE tier[i + 1].text \in [Upstream -> Texts]
    OBVIOUS
  <2>1. i + 1 \in 0 .. n /\ i + 1 # 0 /\ (i + 1) - 1 = i /\ i <= n /\ i + 1 \in 1 .. n
    BY <1>1
  <2>2. tier[i + 1] = Upgrade(tier[i], order[i + 1], whole[order[i + 1]])
    BY <1>4, <2>1
  <2>3. tier[i].text \in [Upstream -> Texts]
    BY <1>6, <2>1
  <2>4. order[i + 1] \in Upstream /\ whole[order[i + 1]] \in Texts
    BY <1>1, <2>1
  <2>5. ASSUME NEW t, t.text \in [Upstream -> Texts], NEW u \in Upstream, NEW text \in Texts
        PROVE  Upgrade(t, u, text).text \in [Upstream -> Texts]
    <3>1. [t.text EXCEPT ![u] = text] \in [Upstream -> Texts]
      BY <2>5
    <3> QED
      BY <2>5, <3>1 DEF Upgrade
  <2> QED
    BY <2>2, <2>3, <2>4, <2>5
<1>7. Nat \subseteq Upto
  <2> HIDE DEF Upto
  <2> QED
    BY <1>5, <1>6, SetInduction
<1> QED
  BY <1>1, <1>3, <1>7

SizeShown(list) == SumFunctionOnSet([i \in DOMAIN list |-> Header + Size(list[i].text)], DOMAIN list)

\* What is shown of the sections, their headers included, keeps to the budget.
LEMMA SectionsFit ==
  ASSUME Budget \in Nat, NEW list, IsSeq(list), \A i \in DOMAIN list : list[i].text \in Texts,
         NEW id, \A i \in DOMAIN list : list[i] = [id |-> id[i], text |-> list[i].text]
  PROVE  SizeShown(FitSections(list)) <= Budget
<1>0. PICK b \in Nat, head \in Nat : b = Budget /\ head = Header
  BY ContextAssumption
<1>1. PICK n \in Nat : n = Len(list) /\ DOMAIN list = 1 .. n
  BY SeqDomain
<1> DEFINE f == [j \in 1 .. n |-> head + Size(list[j].text)]
           room == [j \in 1 .. n |-> (b - SumFunctionOnSet(f, 1 .. j - 1)) - head]
           shown == FitSections(list)
<1>2. \A j \in 1 .. n : f[j] = head + Size(list[j].text) /\ f[j] \in Nat /\ Size(list[j].text) \in Nat
  BY <1>1, SizesUpTo
<1>3. \A j \in 1 .. n : Room(list, j) = room[j]
  BY <1>0, <1>1 DEF Room
<1> HIDE DEF f
<1>4. /\ \A i \in 0 .. n : SumFunctionOnSet(f, 1 .. i) \in Nat
      /\ \A i, j \in 0 .. n : i <= j => SumFunctionOnSet(f, 1 .. i) <= SumFunctionOnSet(f, 1 .. j)
  BY <1>2, SumsUpTo
<1>5. \A j \in 1 .. n : /\ j - 1 \in 0 .. n /\ room[j] \in Int
                        /\ room[j] = (b - SumFunctionOnSet(f, 1 .. j - 1)) - head
  <2> SUFFICES ASSUME NEW j \in 1 .. n PROVE j - 1 \in 0 .. n /\ room[j] \in Int
    OBVIOUS
  <2>1. j - 1 \in 0 .. n
    OBVIOUS
  <2>2. PICK s \in Nat : s = SumFunctionOnSet(f, 1 .. j - 1)
    BY <1>4, <2>1
  <2> QED
    BY <2>1, <2>2
<1> HIDE DEF room
<1>6. PICK kept : kept = {j \in 1 .. n : room[j] > 0}
  OBVIOUS
<1>7. PICK m \in 0 .. n : kept = 1 .. m
  <2>1. \A i \in kept : \A j \in 1 .. n : j <= i => j \in kept
    <3> SUFFICES ASSUME NEW i \in kept, NEW j \in 1 .. n, j <= i PROVE room[j] > 0
      BY <1>6
    <3>1. i \in 1 .. n /\ room[i] > 0 /\ i - 1 \in 0 .. n /\ j - 1 \in 0 .. n /\ j - 1 <= i - 1
      BY <1>6
    <3>2. PICK si \in Nat, sj \in Nat :
            si = SumFunctionOnSet(f, 1 .. i - 1) /\ sj = SumFunctionOnSet(f, 1 .. j - 1) /\ sj <= si
      BY <1>4, <3>1
    <3>3. room[i] = (b - si) - head /\ room[j] = (b - sj) - head
      BY <1>5, <3>1, <3>2
    <3>4. (b - si) - head > 0 => (b - sj) - head > 0
      BY <3>2
    <3> QED
      BY <3>1, <3>3, <3>4
  <2>2. kept \subseteq 1 .. n
    BY <1>6
  <2> QED
    BY <2>1, <2>2, PrefixIsInterval
<1> DEFINE g == [i \in 1 .. m |-> head + Size(shown[i].text)]
<1>8. shown = [i \in 1 .. m |-> [list[i] EXCEPT !.text = Cut(@, Room(list, i))]]
  <2>1. {j \in DOMAIN list : Room(list, j) > 0} = 1 .. m
    BY <1>1, <1>3, <1>6, <1>7
  <2> QED
    BY <2>1 DEF FitSections
<1>9. \A i \in 1 .. m : i \in 1 .. n /\ room[i] > 0 /\ shown[i].text = Cut(list[i].text, room[i])
  <2> SUFFICES ASSUME NEW i \in 1 .. m
               PROVE  i \in 1 .. n /\ room[i] > 0 /\ shown[i].text = Cut(list[i].text, room[i])
    OBVIOUS
  <2>1. i \in 1 .. n /\ room[i] > 0
    <3>1. i \in kept
      BY <1>7
    <3> QED
      BY <1>6, <3>1
  <2>2. shown[i] = [list[i] EXCEPT !.text = Cut(@, room[i])]
    BY <1>3, <1>8, <2>1
  <2>3. list[i] = [id |-> id[i], text |-> list[i].text]
    BY <1>1, <2>1
  <2> QED
    BY <2>1, <2>2, <2>3
<1>10. DOMAIN shown = 1 .. m
  BY <1>8
<1>11. SizeShown(shown) = SumFunctionOnSet(g, 1 .. m)
  BY <1>0, <1>10 DEF SizeShown
<1>12. \A i \in 1 .. m : g[i] = head + Size(shown[i].text)
  OBVIOUS
<1> HIDE DEF g, shown
<1>13. \A i \in 1 .. m : g[i] \in Nat /\ g[i] <= f[i] /\ g[i] <= b - SumFunctionOnSet(f, 1 .. i - 1)
  <2> SUFFICES ASSUME NEW i \in 1 .. m
               PROVE  g[i] \in Nat /\ g[i] <= f[i] /\ g[i] <= b - SumFunctionOnSet(f, 1 .. i - 1)
    OBVIOUS
  <2>1. i \in 1 .. n /\ list[i].text \in Texts
    BY <1>1, <1>9
  <2>2. PICK r \in Int : r = room[i] /\ r > 0
    BY <1>5, <1>9, <2>1
  <2>3. /\ Cut(list[i].text, r) \in Texts /\ Size(Cut(list[i].text, r)) <= Size(list[i].text)
        /\ Size(Cut(list[i].text, r)) <= r
    BY <2>1, <2>2, CutFits
  <2>4. PICK c \in Nat, s \in Nat, sum \in Nat :
          /\ c = Size(Cut(list[i].text, r)) /\ s = Size(list[i].text)
          /\ sum = SumFunctionOnSet(f, 1 .. i - 1)
    BY <1>2, <1>4, <1>5, <2>1, <2>3, SizesUpTo
  <2>5. g[i] = head + c /\ f[i] = head + s /\ c <= s /\ c <= r
    BY <1>2, <1>9, <1>12, <2>1, <2>2, <2>3, <2>4
  <2>6. r = (b - sum) - head
    BY <1>5, <2>1, <2>2, <2>4
  <2>7. head + c \in Nat /\ head + c <= head + s /\ head + c <= b - sum
    BY <2>5, <2>6
  <2> QED
    BY <2>4, <2>5, <2>7
<1>14. SumFunctionOnSet(g, 1 .. m) <= b
  <2>1. \A i \in 1 .. n : f[i] \in Nat
    BY <1>2
  <2> QED
    BY <1>13, <2>1, SharesFit
<1> QED
  BY <1>0, <1>11, <1>14 DEF shown

LEMMA LayeredFits ==
  ASSUME IsView(view), Budget \in Nat, NEW order, IsSeq(order), ToSet(order) \subseteq DOMAIN view
  PROVE  SizeShown(Layered(order)) <= Budget
<1> DEFINE titles == [u \in Upstream |-> IF u \in DOMAIN view THEN ExtractL0(view[u]) ELSE <<>>]
           total == SumFunctionOnSet([i \in DOMAIN order |-> Header + Size(titles[order[i]])], DOMAIN order)
           findings == [u \in DOMAIN view |-> ExtractL1(view[u], Findings)]
           first == [total |-> total, text |-> titles]
           second == Upgraded(first, order, findings)
           third == Upgraded(second, order, view)
           id == [i \in DOMAIN order |-> order[i]]
           list == [i \in DOMAIN order |-> [id |-> order[i], text |-> third.text[order[i]]]]
<1>1. Len(order) \in Nat /\ DOMAIN order = 1 .. Len(order)
  BY SeqDomain
<1>2. \A i \in DOMAIN order : order[i] \in DOMAIN view /\ order[i] \in Upstream /\ view[order[i]] \in Texts
  BY DEF ToSet, IsView
<1>3. first.text \in [Upstream -> Texts]
  <2>1. \A u \in Upstream : titles[u] \in Texts
    BY ExtractsAreTexts, EmptyText DEF IsView
  <2>2. titles \in [Upstream -> Texts]
    BY <2>1
  <2> HIDE DEF titles, total
  <2> QED
    BY <2>2
<1>4. \A i \in DOMAIN order : findings[order[i]] \in Texts
  <2>1. Findings \in Int
    BY ContextAssumption
  <2> QED
    BY <1>2, <2>1, ExtractsAreTexts
<1>5. Layered(order) = FitSections(list)
  BY DEF Layered
<1> HIDE DEF titles, total, findings, first
<1>6. second.text \in [Upstream -> Texts]
  BY <1>2, <1>3, <1>4, UpgradedIsText
<1> HIDE DEF second
<1>7. third.text \in [Upstream -> Texts]
  BY <1>2, <1>6, UpgradedIsText
<1> HIDE DEF third
<1>8. list = [i \in 1 .. Len(order) |-> list[i]] /\ DOMAIN list = DOMAIN order
  BY <1>1
<1>9. \A i \in DOMAIN order : /\ list[i].text \in Texts
                              /\ list[i] = [id |-> id[i], text |-> list[i].text]
  BY <1>2, <1>7
<1> HIDE DEF list, id
<1>10. IsSeq(list)
  BY <1>1, <1>8, DomainIsSeq
<1>11. SizeShown(FitSections(list)) <= Budget
  BY <1>8, <1>9, <1>10, SectionsFit
<1> QED
  BY <1>5, <1>11

-----------------------------------------------------------------------------
(***************************************************************************)
(* The invariant                                                           *)
(***************************************************************************)

Awaited == UNION {ToSet(c) : c \in Consumers}

\* What there is to tell is text for tasks that wait, a tail is fitted as it
\* was assembled, the contexts are cut to fit, and those that compaction has
\* left keep to the budget from then on.
ContextInv ==
  /\ todo \in Seq(Awaited) /\ todo # <<>> /\ output \in [Upstream -> Texts]
  /\ step = "fit" => IsView(view) /\ view = before
  /\ step \in {"summarize", "dispatch"} /\ Task.compaction = "progressive" /\ stage < 6 => Whole <= Budget
  /\ CutToFit

LEMMA TaskIsAwaited ==
  ASSUME todo \in Seq(Awaited), todo # <<>>
  PROVE  /\ Task.budget \in Nat /\ Task.sources \subseteq Upstream \cup {"*"}
         /\ Task.parents["task"] \subseteq Upstream
<1>1. Task \in Awaited
  BY DEF Task
<1>2. PICK c \in Consumers : Task \in ToSet(c)
  BY <1>1 DEF Awaited
<1>3. PICK i \in DOMAIN c : Task = c[i]
  BY <1>2 DEF ToSet
<1> QED
  BY <1>3, ContextAssumption

LEMMA ContextStarts == ASSUME ContextInit PROVE ContextInv
<1>1. todo \in Seq(Awaited) /\ todo # <<>>
  <2>1. todo \in Seq(ToSet(todo)) /\ todo # <<>> /\ todo \in Consumers
    BY ContextAssumption DEF ContextInit
  <2>2. ToSet(todo) \subseteq Awaited
    BY <2>1 DEF Awaited
  <2> QED
    BY <2>1, <2>2, SeqMonotonic
<1>2. output \in [Upstream -> Texts]
  BY ContextAssumption DEF ContextInit
<1>3. step = "assemble"
  BY DEF ContextInit
<1> QED
  BY <1>1, <1>2, <1>3 DEF ContextInv, CutToFit

LEMMA AssembleKeeps == ASSUME ContextInv, Assemble PROVE ContextInv'
<1>1. ContextIds \subseteq Upstream
  BY TaskIsAwaited DEF ContextInv, ContextIds
<1>2. \A u \in ContextIds : HopDecay(u) \in Texts
  BY <1>1, DecayedIsText DEF ContextInv
<1>3. view' = [u \in ContextIds |-> IF Task.visible THEN HopDecay(u) ELSE <<>>] /\ before' = view'
  BY DEF Assemble
<1>4. IsView(view')
  <2>1. DOMAIN view' = ContextIds /\ view' = [u \in DOMAIN view' |-> view'[u]]
    BY <1>3
  <2>2. \A u \in ContextIds : view'[u] \in Texts
    BY <1>2, <1>3, EmptyText
  <2> QED
    BY <1>1, <2>1, <2>2 DEF IsView
<1>5. step' = "fit" /\ todo' = todo /\ output' = output
  BY DEF Assemble
<1> QED
  BY <1>3, <1>4, <1>5 DEF ContextInv, CutToFit, IsView

LEMMA FitKeeps == ASSUME ContextInv, Fit PROVE ContextInv'
<1>1. Task.budget \in Nat /\ IsView(view) /\ view = before /\ Budget \in Nat
  <2>1. Task.budget \in Nat /\ IsView(view) /\ view = before
    BY TaskIsAwaited DEF ContextInv, Fit
  <2> QED
    BY <2>1, ContextAssumption DEF Budget
<1>2. /\ step' = "compact" /\ todo' = todo /\ output' = output
      /\ relevance' = relevance /\ before' = before
  BY DEF Fit
<1>3. Task' = Task /\ Budget' = Budget
  BY <1>2 DEF Task, Budget
<1>4. IsFiniteSet(DOMAIN view)
  BY <1>1, ViewIsFinite
<1>5. CASE Task.mode \notin Synthesized /\ FitToBudget
  <2>1. /\ DOMAIN view' = DOMAIN view
        /\ Task.budget # 0 => TotalOf(view', Size) <= Budget
        /\ Task.keywords =>
             \A u, w \in DOMAIN view :
               view'[u] \notin {view[u], FilterByIntent(view[u])} /\ relevance[w] < relevance[u] => view'[w] = <<>>
    BY <1>1, <1>5, FittedToBudget
  <2>2. Task.budget # 0 => Whole' <= Budget'
    BY <1>3, <2>1 DEF Whole
  <2>3. Task.mode # "layered"
    BY <1>5 DEF Synthesized
  <2>4. \A t : FilterByIntent(t)' = FilterByIntent(t)
    BY <1>3 DEF FilterByIntent
  <2>5. CutToFit'
    BY <1>1, <1>2, <1>3, <2>1, <2>2, <2>3, <2>4 DEF CutToFit
  <2> QED
    BY <1>2, <2>5 DEF ContextInv
<1>6. CASE Task.mode = "layered" /\ \E order \in LeastFirst : synthesis' = Layered(MostFirst(order))
  <2>1. PICK order \in LeastFirst : synthesis' = Layered(MostFirst(order))
    BY <1>6
  <2>2. IsOrder(order, DOMAIN view)
    BY <1>4, LeastFirstOrders
  <2>3. IsSeq(MostFirst(order)) /\ ToSet(MostFirst(order)) \subseteq DOMAIN view
    BY <2>2, MostFirstElements DEF IsOrder
  <2>4. SizeShown(synthesis') <= Budget
    BY <1>1, <2>1, <2>3, LayeredFits
  <2>5. SynthesisSize' <= Budget'
    BY <1>3, <2>4 DEF SynthesisSize, SizeShown
  <2>6. Task.mode \in Synthesized
    BY <1>6 DEF Synthesized
  <2>7. CutToFit'
    BY <1>2, <1>3, <2>5, <2>6 DEF CutToFit, Synthesized
  <2> QED
    BY <1>2, <2>7 DEF ContextInv
<1>7. CASE Task.mode = "selective"
  <2>1. CutToFit'
    BY <1>2, <1>3, <1>7 DEF CutToFit, Synthesized
  <2> QED
    BY <1>2, <2>1 DEF ContextInv
<1> QED
  BY <1>5, <1>6, <1>7 DEF Fit

LEMMA StartCompactionKeeps == ASSUME ContextInv, StartCompaction PROVE ContextInv'
<1>1. todo' = todo /\ output' = output /\ step' \in {"summarize", "visit"}
  BY DEF StartCompaction
<1>2. Task' = Task /\ Budget' = Budget
  BY <1>1 DEF Task, Budget
<1>3. step' = "summarize" /\ Task.compaction = "progressive" => Whole' <= Budget'
  BY <1>2 DEF StartCompaction, Whole
<1> QED
  BY <1>1, <1>2, <1>3 DEF ContextInv, CutToFit

LEMMA VisitOneKeeps == ASSUME ContextInv, VisitOne PROVE ContextInv'
<1>1. todo' = todo /\ output' = output /\ step' \in {"summarize", "visit"}
  BY DEF VisitOne, Continue
<1>2. Task' = Task /\ Budget' = Budget
  BY <1>1 DEF Task, Budget
<1>3. step' = "summarize" => Whole' <= Budget' \/ stage' = 6
  BY <1>2 DEF VisitOne, Continue, Whole
<1> QED
  BY <1>1, <1>2, <1>3 DEF ContextInv, CutToFit

LEMMA NextConsumerKeeps == ASSUME ContextInv, NextConsumer PROVE ContextInv'
<1>1. todo' \in Seq(Awaited) /\ todo' # <<>>
  <2>1. todo \in Seq(Awaited) /\ Len(todo) \in Nat /\ Len(todo) > 1 /\ todo' = SubSeq(todo, 2, Len(todo))
    BY DEF ContextInv, NextConsumer
  <2>2. 2 \in 1 .. Len(todo) + 1 /\ Len(todo) \in 1 - 1 .. Len(todo)
    BY <2>1
  <2>3. /\ SubSeq(todo, 2, Len(todo)) \in Seq(Awaited)
        /\ Len(SubSeq(todo, 2, Len(todo))) = (Len(todo) - 2) + 1
    BY <2>1, <2>2, SubSeqProperties
  <2>4. Len(todo') \in Nat \ {0}
    BY <2>1, <2>3
  <2>5. Len(<<>>) = 0
    OBVIOUS
  <2> QED
    BY <2>1, <2>3, <2>4, <2>5
<1>2. output' = output /\ step' = "assemble"
  BY DEF NextConsumer
<1> QED
  BY <1>1, <1>2 DEF ContextInv, CutToFit

\* What is done with a context that is ready leaves it as it is.
LEMMA OthersKeep ==
  ASSUME ContextInv, PrepareSummary \/ FinishContext \/ UNCHANGED contextVars
  PROVE  ContextInv'
<1>1. CASE PrepareSummary \/ FinishContext
  <2>1. /\ todo' = todo /\ output' = output /\ view' = view /\ stage' = stage
        /\ step = "summarize" /\ step' \in {"summarize", "dispatch"}
    BY <1>1 DEF PrepareSummary, FinishContext
  <2>2. Task' = Task /\ Budget' = Budget /\ Whole' = Whole
    BY <2>1 DEF Task, Budget, Whole
  <2> QED
    BY <2>1, <2>2 DEF ContextInv, CutToFit
<1>2. CASE UNCHANGED contextVars
  <2>1. /\ todo' = todo /\ output' = output /\ view' = view /\ stage' = stage /\ step' = step
        /\ before' = before /\ relevance' = relevance /\ synthesis' = synthesis
    BY <1>2 DEF contextVars
  <2>2. /\ Task' = Task /\ Budget' = Budget /\ Whole' = Whole /\ SynthesisSize' = SynthesisSize
        /\ \A t : FilterByIntent(t)' = FilterByIntent(t)
    BY <2>1 DEF Task, Budget, Whole, SynthesisSize, FilterByIntent
  <2>3. CutToFit'
    BY <2>1, <2>2 DEF ContextInv, CutToFit
  <2> QED
    BY <2>1, <2>2, <2>3 DEF ContextInv
<1> QED
  BY <1>1, <1>2

\* The contexts are cut to fit, from the first task on.
THEOREM ContextInvariant == ContextSpec => []ContextInv
<1>1. ContextInv /\ [ContextNext]_contextVars => ContextInv'
  <2> SUFFICES ASSUME ContextInv, [ContextNext]_contextVars PROVE ContextInv'
    OBVIOUS
  <2>1. CASE Assemble
    BY <2>1, AssembleKeeps
  <2>2. CASE Fit
    BY <2>2, FitKeeps
  <2>3. CASE StartCompaction
    BY <2>3, StartCompactionKeeps
  <2>4. CASE VisitOne
    BY <2>4, VisitOneKeeps
  <2>5. CASE NextConsumer
    BY <2>5, NextConsumerKeeps
  <2>6. CASE PrepareSummary \/ FinishContext \/ UNCHANGED contextVars
    BY <2>6, OthersKeep
  <2> QED
    BY <2>1, <2>2, <2>3, <2>4, <2>5, <2>6 DEF ContextNext
<1> QED
  BY <1>1, ContextStarts, PTL DEF ContextSpec

\* What a task is told keeps to its budget, its headers included, and the
\* least relevant gives way first (run_plan, _apply_context_budget,
\* _build_layered_context, _apply_progressive_compaction).
THEOREM ContextsAreCutToFit == ContextSpec => []CutToFit
<1>1. ContextInv => CutToFit
  BY DEF ContextInv
<1> QED
  BY <1>1, ContextInvariant, PTL
=============================================================================
