--------------------------- MODULE CodexAdapterProofs ---------------------------
(***************************************************************************)
(* Proofs about CodexAdapter, for every number and kind of lines, size of  *)
(* the pipe and of the queue, and every set of events.                     *)
(*                                                                         *)
(* The argument.  A line is in exactly one of five places: read by nobody  *)
(* yet (the pipe), held by the reader, in the queue, consumed, or lost     *)
(* with a reader that raised or was cut short.  The pipe is an end of what *)
(* was written and what was consumed a beginning.  The queue lies between, *)
(* but the adapter's own events stand between its lines: what relates it   *)
(* to the lines is a numbering of its places (Numbers), which every put    *)
(* extends and every get shifts.  That the child is dead when the stream   *)
(* says so follows from where the coroutines are: nobody gets past         *)
(* _terminate or past the end of the pipe while the child runs.            *)
(*                                                                         *)
(* The second half is about StreamLines, which turns the bytes of the      *)
(* child's pipe into the lines of the first; it has its own variables.     *)
(***************************************************************************)
EXTENDS CodexAdapter, StreamLines, FiniteSetTheorems, WellFoundedInduction, TLAPS

\* Where each coroutine can be.
Places ==
  /\ pc["stdout"] \in {"reading", "putting", "reporting", "terminating", "grace", "done"}
  /\ pc["stderr"] \in {"reading", "reporting", "terminating", "grace", "done"}
  /\ pc["waiter"] \in {"waiting", "terminating", "grace", "marking",
                       "gathering", "closing", "done"}
  /\ pc["consumer"] \in {"getting", "terminating", "grace", "cancelled", "ended", "raised"}

\* A reader is done, and the waiter goes past its wait, only when the child has
\* ended: the pipe came to its end, or _terminate returned.  The stream is closed
\* when both readers are done.
DeathIsKnown ==
  /\ \A r \in Readers : pc[r] = "done" => ~Running
  /\ pc["waiter"] \in {"marking", "gathering", "closing", "done"} => ~Running
  /\ pc["consumer"] = "cancelled" => ~Running
  /\ pc["waiter"] \in {"closing", "done"} => ReadersDone

\* What _read_stdout holds is an event of a line, and a failure of its own is in
\* the stream before it terminates the child.
ReaderReports ==
  /\ pc["stdout"] = "putting" => held \notin Made
  /\ pc["stdout"] \in {"terminating", "grace"} =>
       pc["consumer"] = "raised" \/ ReadFailed \in Range(queue) \cup notices

\* The pipe is the end of what was written, what was consumed its beginning.
TailInThePipe ==
  /\ Len(pipe) <= Len(written)
  /\ \A k \in 1..Len(pipe) : pipe[k] = written[Len(written) - Len(pipe) + k]
TakenAsWritten ==
  /\ Len(received) <= Len(written)
  /\ \A k \in 1..Len(received) : received[k] = Parsed(written[k])

\* n numbers the places of the queue: how many lines were read up to there.
\* Every event of a line is the event of the line with its number, and the
\* numbers go from what was consumed to what the reader goes on with.
Numbers == [0..Len(queue) -> 0..Len(written)]
InOrder(n) ==
  /\ n[0] = Len(received)
  /\ \A i \in 1..Len(queue) :
       IF queue[i] \in Made THEN n[i] = n[i - 1]
       ELSE n[i] = n[i - 1] + 1 /\ queue[i] = Parsed(written[n[i]])
Onward(last) ==
  /\ pc["stdout"] = "reading" => last + Len(pipe) = Len(written)
  /\ pc["stdout"] = "putting" =>
       last + 1 + Len(pipe) = Len(written) /\ held = Parsed(written[last + 1])
  /\ pc["stdout"] = "done" /\ ~cutShort /\ ReadFailed \notin Range(queue) \cup notices =>
       last = Len(written)
Numbered == \E n \in Numbers : InOrder(n) /\ Onward(n[Len(queue)])

StreamInv ==
  /\ TypeOK /\ Places /\ DeathIsKnown /\ CancelledChildIsDead
  /\ EndIsTheEnd /\ (pc["consumer"] = "ended" => queue = <<>>)
  /\ ReaderReports /\ TailInThePipe /\ TakenAsWritten
  /\ (pc["consumer"] # "raised" => Numbered)

-------------------------------------------------------------------------------
\* What an event put into the queue, or taken from it, does to the set of its
\* events.
LEMMA PutIn ==
  ASSUME NEW S, NEW q \in Seq(S), NEW e \in S
  PROVE  /\ Append(q, e) \in Seq(S) /\ Len(Append(q, e)) = Len(q) + 1
         /\ \A i \in 1..Len(q) : Append(q, e)[i] = q[i]
         /\ Append(q, e)[Len(q) + 1] = e
         /\ Range(Append(q, e)) = Range(q) \cup {e}
<1>1. /\ Append(q, e) \in Seq(S) /\ Len(Append(q, e)) = Len(q) + 1
      /\ \A i \in 1..Len(q) : Append(q, e)[i] = q[i]
      /\ Append(q, e)[Len(q) + 1] = e
  OBVIOUS
<1>2. DOMAIN q = 1..Len(q) /\ DOMAIN Append(q, e) = 1..(Len(q) + 1) /\ Len(q) \in Nat
  BY <1>1
<1>3. \A i : i \in 1..(Len(q) + 1) <=> i \in 1..Len(q) \/ i = Len(q) + 1
  BY <1>2
<1>4. Range(Append(q, e)) = Range(q) \cup {e}
  BY <1>1, <1>2, <1>3 DEF Range
<1>5. QED
  BY <1>1, <1>4
LEMMA TakenOut ==
  ASSUME NEW S, NEW q \in Seq(S), q # <<>>
  PROVE  /\ Head(q) = q[1] /\ Head(q) \in S /\ Len(q) \in Nat \ {0}
         /\ Tail(q) \in Seq(S) /\ Len(Tail(q)) = Len(q) - 1
         /\ \A i \in 1..(Len(q) - 1) : Tail(q)[i] = q[i + 1]
         /\ Range(q) = {Head(q)} \cup Range(Tail(q))
<1>1. /\ Head(q) = q[1] /\ Head(q) \in S /\ Len(q) \in Nat \ {0}
      /\ Tail(q) \in Seq(S) /\ Len(Tail(q)) = Len(q) - 1
      /\ \A i \in 1..(Len(q) - 1) : Tail(q)[i] = q[i + 1]
  OBVIOUS
<1>2. DOMAIN q = 1..Len(q) /\ DOMAIN Tail(q) = 1..(Len(q) - 1)
  BY <1>1
<1>3. ASSUME NEW i \in 1..Len(q) PROVE q[i] \in {Head(q)} \cup Range(Tail(q))
  <2>1. CASE i = 1
    BY <1>1, <2>1
  <2>2. CASE i # 1
    <3>1. i - 1 \in 1..(Len(q) - 1) /\ (i - 1) + 1 = i
      BY <1>1, <2>2
    <3>2. QED
      BY <1>1, <1>2, <3>1 DEF Range
  <2>3. QED
    BY <2>1, <2>2
<1>4. ASSUME NEW i \in 1..(Len(q) - 1) PROVE Tail(q)[i] \in Range(q)
  <2>1. i + 1 \in 1..Len(q) /\ Tail(q)[i] = q[i + 1]
    BY <1>1
  <2>2. QED
    BY <1>2, <2>1 DEF Range
<1>5. Head(q) \in Range(q)
  BY <1>1, <1>2 DEF Range
<1>6. QED
  BY <1>1, <1>2, <1>3, <1>4, <1>5 DEF Range

\* A line becomes an event of its own, never one the adapter makes, and only the
\* child's own last word becomes the completion.
LEMMA ParsedIsTheChilds ==
  ASSUME NEW line
  PROVE  /\ Parsed(line) \in EventTypes \ Made
         /\ Parsed(line) = "completed" => line = "turn.completed"
  BY DEF Parsed, EventTypes, Made, Timeout, ReadFailed, End

\* At first nothing is written, read or consumed.
LEMMA StreamInvInit == Init => StreamInv
<1> SUFFICES ASSUME Init PROVE StreamInv
  OBVIOUS
<1>1. /\ pc["stdout"] = "reading" /\ pc["stderr"] = "reading"
      /\ pc["waiter"] = "waiting" /\ pc["consumer"] = "getting"
  BY DEF Init, Actors, Readers
<1>2. /\ queue = <<>> /\ pipe = <<>> /\ received = <<>> /\ written = <<>>
      /\ notices = {} /\ Range(queue) = {} /\ child = "running"
  BY DEF Init, Range
<1>3. TypeOK
  <2>1. helper \in {"none", "group", "detached"}
    BY HelpersAssumption DEF Init
  <2>2. pc \in [Actors -> {"reading", "waiting", "getting"}]
    BY DEF Init, Actors, Readers
  <2>3. QED
    <3>1. /\ pipe \in Seq(Lines) /\ written \in Seq(Lines) /\ Len(pipe) = 0
          /\ queue \in Seq(EventTypes) /\ Len(queue) = 0
          /\ received \in Seq(EventTypes \ Made)
      BY <1>2
    <3>2. held \in EventTypes /\ signalled \in BOOLEAN /\ cutShort \in BOOLEAN
      BY DEF Init, EventTypes, Made
    <3>3. QED
      BY <1>2, <2>1, <2>2, <3>1, <3>2, SizesAssumption DEF TypeOK
<1>4. /\ Places /\ DeathIsKnown /\ CancelledChildIsDead /\ EndIsTheEnd
      /\ ReaderReports /\ TailInThePipe /\ TakenAsWritten
  BY <1>1, <1>2 DEF Places, DeathIsKnown, CancelledChildIsDead, EndIsTheEnd,
                    ReaderReports, TailInThePipe, TakenAsWritten, Readers
<1>5. Numbered
  <2> DEFINE n == [i \in 0..Len(queue) |-> 0]
  <2>1. Len(queue) = 0 /\ Len(written) = 0 /\ Len(received) = 0 /\ Len(pipe) = 0
    BY <1>2
  <2>2. n \in Numbers /\ n[0] = 0
    BY <2>1 DEF Numbers
  <2>3. InOrder(n) /\ Onward(n[Len(queue)])
    BY <1>1, <2>1, <2>2 DEF InOrder, Onward
  <2>4. QED
    BY <2>2, <2>3 DEF Numbered
<1>6. QED
  BY <1>1, <1>3, <1>4, <1>5 DEF StreamInv

-------------------------------------------------------------------------------
\* Every step keeps the types.
LEMMA TypeOKNext == TypeOK /\ [Next]_vars => TypeOK'
<1> SUFFICES ASSUME TypeOK, [Next]_vars PROVE TypeOK'
  OBVIOUS
<1> USE DEF Settle
<1>1. CASE ChildWrites
  <2>1. PICK line \in Lines : pipe' = Append(pipe, line) /\ written' = Append(written, line)
    BY <1>1 DEF ChildWrites
  <2>2. pipe' \in Seq(Lines) /\ Len(pipe') <= PipeSize /\ written' \in Seq(Lines)
    <3>1. pipe \in Seq(Lines) /\ written \in Seq(Lines) /\ Len(pipe) < PipeSize
      BY <1>1 DEF ChildWrites, TypeOK
    <3>2. /\ pipe' \in Seq(Lines) /\ Len(pipe') = Len(pipe) + 1 /\ Len(pipe) \in Nat
          /\ written' \in Seq(Lines)
      BY <2>1, <3>1, PutIn
    <3>3. QED
      BY <3>1, <3>2, SizesAssumption
  <2>3. QED
    BY <1>1, <2>2 DEF ChildWrites, TypeOK
<1>2. CASE ChildExits \/ HelperExits
  BY <1>2 DEF ChildExits, HelperExits, TypeOK
<1>3. ASSUME NEW who \in Actors, Terminating(who) PROVE TypeOK'
  <2>1. AfterTerminate(who) \in {"done", "marking", "cancelled"}
    BY DEF AfterTerminate, Actors, Readers
  <2>2. CASE SendTerm(who)
    BY <2>1, <2>2 DEF SendTerm, TypeOK, Running
  <2>3. CASE AwaitDeath(who)
    BY <2>1, <2>3 DEF AwaitDeath, TypeOK
  <2>4. QED
    BY <1>3, <2>2, <2>3 DEF Terminating
<1>4. CASE ReadLine
  <2>1. Parsed(Head(pipe)) \in EventTypes
    BY ParsedIsTheChilds
  <2>2. Tail(pipe) \in Seq(Lines) /\ Len(Tail(pipe)) <= PipeSize
    <3>1. pipe \in Seq(Lines) /\ pipe # <<>> /\ Len(pipe) <= PipeSize
      BY <1>4 DEF ReadLine, TypeOK
    <3>2. Tail(pipe) \in Seq(Lines) /\ Len(Tail(pipe)) = Len(pipe) - 1 /\ Len(pipe) \in Nat
      BY <3>1, TakenOut
    <3>3. QED
      BY <3>1, <3>2, SizesAssumption
  <2>3. QED
    BY <1>4, <2>1, <2>2 DEF ReadLine, TypeOK
\* Four steps put an event into the queue, if there is room.
<1>5. ASSUME NEW e \in EventTypes, HasRoom, queue' = Append(queue, e)
      PROVE  queue' \in Seq(EventTypes) /\ Len(queue') <= QueueSize
  <2>1. queue \in Seq(EventTypes) /\ Len(queue) < QueueSize
    BY <1>5 DEF TypeOK, HasRoom
  <2>2. /\ queue' \in Seq(EventTypes) /\ Len(queue') = Len(queue) + 1 /\ Len(queue) \in Nat
    BY <1>5, <2>1, PutIn
  <2>3. QED
    BY <2>1, <2>2, SizesAssumption
<1>6. End \in EventTypes /\ Timeout \in EventTypes /\ ReadFailed \in EventTypes
  BY DEF EventTypes, Made
<1>7. CASE PutEvent
  <2>1. queue' \in Seq(EventTypes) /\ Len(queue') <= QueueSize
    BY <1>5, <1>7 DEF PutEvent, TypeOK
  <2>2. QED
    BY <1>6, <1>7, <2>1 DEF PutEvent, TypeOK
<1>8. ASSUME NEW r \in Readers, ReachEof(r) \/ ReadRaises(r) PROVE TypeOK'
  BY <1>8 DEF ReachEof, ReadRaises, TypeOK
<1>9. ASSUME NEW r \in Readers, ReportFailure(r) PROVE TypeOK'
  <2>1. queue' \in Seq(EventTypes) /\ Len(queue') <= QueueSize
    BY <1>5, <1>6, <1>9 DEF ReportFailure
  <2>2. QED
    BY <1>9, <2>1 DEF ReportFailure, TypeOK
<1>10. CASE ChildIsDone \/ TimesOut \/ GatherReaders
  BY <1>10 DEF ChildIsDone, TimesOut, GatherReaders, TypeOK
<1>11. CASE CutReadersShort
  BY <1>6, <1>11 DEF CutReadersShort, TypeOK
<1>12. CASE MarkTimeout
  <2>1. queue' \in Seq(EventTypes) /\ Len(queue') <= QueueSize
    BY <1>5, <1>6, <1>12 DEF MarkTimeout
  <2>2. QED
    BY <1>12, <2>1 DEF MarkTimeout, TypeOK
<1>13. CASE CloseStream
  <2>1. queue' \in Seq(EventTypes) /\ Len(queue') <= QueueSize
    BY <1>5, <1>6, <1>13 DEF CloseStream
  <2>2. QED
    BY <1>13, <2>1 DEF CloseStream, TypeOK
<1>14. CASE Consume
  <2>1. queue \in Seq(EventTypes) /\ queue # <<>>
    BY <1>14 DEF Consume, TypeOK
  <2>2. Head(queue) \in EventTypes /\ Tail(queue) \in Seq(EventTypes)
        /\ Len(Tail(queue)) <= QueueSize
    <3>1. Head(queue) \in EventTypes /\ Tail(queue) \in Seq(EventTypes)
          /\ Len(Tail(queue)) = Len(queue) - 1 /\ Len(queue) \in Nat
      BY <2>1, TakenOut
    <3>2. Len(queue) <= QueueSize
      BY DEF TypeOK
    <3>3. QED
      BY <3>1, <3>2, SizesAssumption
  <2>3. received' \in Seq(EventTypes \ Made)
    <3>1. CASE Head(queue) \in Made
      BY <1>14, <3>1 DEF Consume, TypeOK
    <3>2. CASE Head(queue) \notin Made
      <4>1. Head(queue) \in EventTypes \ Made
        BY <2>2, <3>2
      <4>2. received' = Append(received, Head(queue)) /\ received \in Seq(EventTypes \ Made)
        BY <1>14, <3>2 DEF Consume, TypeOK
      <4>3. QED
        BY <4>1, <4>2, PutIn
    <3>3. QED
      BY <3>1, <3>2
  <2>4. notices' \subseteq {Timeout, ReadFailed}
    BY <1>14 DEF Consume, TypeOK
  <2>5. QED
    BY <1>14, <2>2, <2>3, <2>4 DEF Consume, TypeOK
<1>15. CASE CancelAttempt
  BY <1>15 DEF CancelAttempt, TypeOK
<1>16. CASE IngestRaises
  <2>1. Tail(queue) \in Seq(EventTypes) /\ Len(Tail(queue)) <= QueueSize
    <3>1. queue \in Seq(EventTypes) /\ queue # <<>> /\ Len(queue) <= QueueSize
      BY <1>16 DEF IngestRaises, TypeOK
    <3>2. Tail(queue) \in Seq(EventTypes) /\ Len(Tail(queue)) = Len(queue) - 1
          /\ Len(queue) \in Nat
      BY <3>1, TakenOut
    <3>3. QED
      BY <3>1, <3>2, SizesAssumption
  <2>2. QED
    BY <1>16, <2>1 DEF IngestRaises, TypeOK
<1>17. CASE Settled \/ UNCHANGED vars
  BY <1>17 DEF Settled, vars, TypeOK
<1>18. QED
  BY <1>1, <1>2, <1>3, <1>4, <1>7, <1>8, <1>9, <1>10, <1>11, <1>12, <1>13, <1>14, <1>15,
     <1>16, <1>17 DEF Next, Reading, Waiting

-------------------------------------------------------------------------------
\* What a step does to the queue and to what was consumed: nothing; or it puts
\* one event at the end; or it takes the first one out.
Puts(e) == queue' = Append(queue, e) /\ received' = received /\ notices' = notices
Takes ==
  /\ pc["consumer"] = "getting" /\ queue # <<>> /\ queue' = Tail(queue)
  /\ Head(queue) = End => pc'["consumer"] = "ended"
  /\ \/ /\ pc'["consumer"] # "raised"
        /\ received' = IF Head(queue) \in Made THEN received ELSE Append(received, Head(queue))
        /\ notices' = notices \cup ({Head(queue)} \cap {Timeout, ReadFailed})
     \/ received' = received /\ notices' = notices /\ pc'["consumer"] = "raised"
QueueStep ==
  \/ UNCHANGED <<queue, received, notices>>
  \/ PutEvent /\ pc["stdout"] = "putting" /\ Puts(held)
  \/ \E r \in Readers : pc[r] = "reporting" /\ Puts(ReadFailed) /\ pc' = [pc EXCEPT ![r] = "terminating"]
  \/ pc["waiter"] = "marking" /\ Puts(Timeout)
  \/ pc["waiter"] = "closing" /\ Puts(End) /\ pc' = [pc EXCEPT !["waiter"] = "done"]
  \/ Takes

\* Every step is of one of these kinds.
LEMMA QueueSteps == TypeOK /\ [Next]_vars => QueueStep
<1> SUFFICES ASSUME TypeOK, [Next]_vars PROVE QueueStep
  OBVIOUS
<1>0. pc \in [Actors -> {"reading", "putting", "reporting", "done", "waiting", "marking",
                         "gathering", "closing", "terminating", "grace", "getting",
                         "ended", "cancelled", "raised"}] /\ "consumer" \in Actors
  BY DEF TypeOK, Actors
<1> USE DEF Settle
<1>1. CASE ChildWrites \/ ChildExits \/ HelperExits
  BY <1>1 DEF ChildWrites, ChildExits, HelperExits, QueueStep
<1>2. ASSUME NEW who \in Actors, Terminating(who) PROVE QueueStep
  BY <1>2 DEF Terminating, SendTerm, AwaitDeath, QueueStep
<1>3. CASE ReadLine
  BY <1>3 DEF ReadLine, QueueStep
<1>4. CASE PutEvent
  BY <1>4 DEF PutEvent, QueueStep, Puts
<1>5. ASSUME NEW r \in Readers, ReachEof(r) \/ ReadRaises(r) \/ ReportFailure(r)
      PROVE QueueStep
  BY <1>5 DEF ReachEof, ReadRaises, ReportFailure, QueueStep, Puts
<1>6. CASE ChildIsDone \/ TimesOut \/ GatherReaders \/ CutReadersShort
  BY <1>6 DEF ChildIsDone, TimesOut, GatherReaders, CutReadersShort, QueueStep
<1>7. CASE MarkTimeout \/ CloseStream
  BY <1>7 DEF MarkTimeout, CloseStream, QueueStep, Puts
<1>8. CASE Consume
  <2>1. /\ Head(queue) = End => pc'["consumer"] = "ended"
        /\ pc'["consumer"] # "raised"
    BY <1>0, <1>8 DEF Consume
  <2>2. QED
    BY <1>8, <2>1 DEF Consume, QueueStep, Takes
<1>9. CASE IngestRaises
  <2>1. pc'["consumer"] = "raised"
    BY <1>0, <1>9 DEF IngestRaises
  <2>2. QED
    BY <1>9, <2>1 DEF IngestRaises, QueueStep, Takes
<1>10. CASE CancelAttempt \/ Settled \/ UNCHANGED vars
  BY <1>10 DEF CancelAttempt, Settled, vars, QueueStep
<1>11. QED
  BY <1>1, <1>2, <1>3, <1>4, <1>5, <1>6, <1>7, <1>8, <1>9, <1>10 DEF Next, Reading, Waiting

\* The events in the stream after a step: those before it, and the one put.
LEMMA InTheStream ==
  ASSUME TypeOK, QueueStep
  PROVE  LET before == Range(queue) \cup notices
             after == Range(queue)' \cup notices' IN
         /\ Timeout \in after => Timeout \in before \/ pc["waiter"] = "marking"
                                 \/ (pc["stdout"] = "putting" /\ held = Timeout)
         /\ ReadFailed \in before =>
              ReadFailed \in after \/ pc'["consumer"] = "raised"
         /\ (\E r \in Readers : pc[r] = "reporting" /\ Puts(ReadFailed)) => ReadFailed \in after
<1>0. queue \in Seq(EventTypes) /\ held \in EventTypes /\ notices \subseteq {Timeout, ReadFailed}
      /\ End \in EventTypes /\ Timeout \in EventTypes /\ ReadFailed \in EventTypes
  BY DEF TypeOK, EventTypes, Made
<1>1. ASSUME NEW e \in EventTypes, Puts(e)
      PROVE  Range(queue)' = Range(queue) \cup {e} /\ notices' = notices
  BY <1>0, <1>1, PutIn DEF Puts
<1>2. ASSUME Takes
      PROVE  /\ Range(queue) = {Head(queue)} \cup Range(queue)'
             /\ notices' = notices \cup ({Head(queue)} \cap {Timeout, ReadFailed})
                \/ (notices' = notices /\ pc'["consumer"] = "raised")
  BY <1>0, <1>2, TakenOut DEF Takes
<1>3. Timeout # ReadFailed /\ Timeout # End /\ ReadFailed # End
  BY DEF Timeout, ReadFailed, End
<1>4. CASE UNCHANGED <<queue, received, notices>>
  <2>1. Range(queue)' = Range(queue) /\ notices' = notices
    BY <1>4
  <2>2. ASSUME NEW r \in Readers, Puts(ReadFailed) PROVE ReadFailed \in Range(queue)'
    BY <1>0, <1>1, <2>2
  <2>3. QED
    BY <2>1, <2>2
<1>5. CASE pc["stdout"] = "putting" /\ Puts(held)
  <2>1. Range(queue)' = Range(queue) \cup {held} /\ notices' = notices
    BY <1>0, <1>1, <1>5
  <2>2. Puts(ReadFailed) => ReadFailed \in Range(queue)'
    BY <1>0, <1>1
  <2>3. QED
    BY <1>5, <2>1, <2>2
<1>6. CASE \E r \in Readers : pc[r] = "reporting" /\ Puts(ReadFailed)
  BY <1>0, <1>1, <1>3, <1>6
<1>7. CASE pc["waiter"] \in {"marking", "closing"} /\ (Puts(Timeout) \/ Puts(End))
           /\ (pc["waiter"] = "marking" \/ Puts(End))
  <2>1. Puts(ReadFailed) => ReadFailed \in Range(queue)'
    BY <1>0, <1>1
  <2>2. CASE Puts(Timeout) /\ pc["waiter"] = "marking"
    BY <1>0, <1>1, <2>1, <2>2
  <2>3. CASE Puts(End)
    BY <1>0, <1>1, <1>3, <2>1, <2>3
  <2>4. QED
    BY <1>7, <2>2, <2>3
<1>8. CASE Takes
  <2>1. Puts(ReadFailed) => ReadFailed \in Range(queue)'
    BY <1>0, <1>1
  <2>2. QED
    BY <1>0, <1>2, <1>3, <1>8, <2>1
<1>9. QED
  BY <1>4, <1>5, <1>6, <1>7, <1>8 DEF QueueStep

\* A dead process stays dead.
LEMMA DeadStaysDead == [Next]_vars => (~Running => ~Running')
<1> SUFFICES ASSUME [Next]_vars, ~Running PROVE child' = child
  BY DEF Running
<1>1. ASSUME NEW who \in Actors, Terminating(who) PROVE child' = child
  BY <1>1 DEF Terminating, SendTerm, AwaitDeath
<1>2. ASSUME NEW r \in Readers, ReachEof(r) \/ ReadRaises(r) \/ ReportFailure(r)
      PROVE child' = child
  BY <1>2 DEF ReachEof, ReadRaises, ReportFailure
<1>3. CASE ChildWrites \/ ChildExits \/ HelperExits \/ ReadLine \/ PutEvent
  BY <1>3 DEF ChildWrites, ChildExits, HelperExits, ReadLine, PutEvent
<1>4. CASE Waiting
  BY <1>4 DEF Waiting, ChildIsDone, TimesOut, MarkTimeout, GatherReaders, CutReadersShort,
              CloseStream
<1>5. CASE Consume \/ CancelAttempt \/ IngestRaises \/ Settled \/ UNCHANGED vars
  BY <1>5 DEF Consume, CancelAttempt, IngestRaises, Settled, vars
<1>6. QED
  BY <1>1, <1>2, <1>3, <1>4, <1>5 DEF Next, Reading

-------------------------------------------------------------------------------
\* The coroutines' places: all that a step can do to one of them.
Moved(who, from, to) == pc[who] = from /\ pc' = [pc EXCEPT ![who] = to]
PlaceStep ==
  \/ pc' = pc
  \/ \E who \in Actors : Moved(who, "terminating", "grace")
  \/ \E who \in Actors : pc[who] \in {"terminating", "grace"} /\ ~Running'
                         /\ pc' = [pc EXCEPT ![who] = AfterTerminate(who)]
  \/ Moved("stdout", "reading", "putting") \/ Moved("stdout", "putting", "reading")
  \/ \E r \in Readers : Moved(r, "reading", "done") /\ ~Running'
  \/ \E r \in Readers : Moved(r, "reading", "reporting") \/ Moved(r, "reporting", "terminating")
  \/ Moved("waiter", "waiting", "gathering") /\ ~Running'
  \/ Moved("waiter", "waiting", "terminating") \/ Moved("waiter", "marking", "gathering")
  \/ Moved("waiter", "gathering", "closing") /\ ReadersDone
  \/ /\ pc["waiter"] = "gathering"
     /\ pc' = [pc EXCEPT !["stdout"] = "done", !["stderr"] = "done", !["waiter"] = "closing"]
  \/ Moved("waiter", "closing", "done")
  \/ \E to \in {"ended", "terminating", "raised"} : Moved("consumer", "getting", to)

\* Every step moves a coroutine in one of these ways.
LEMMA PlaceSteps == TypeOK /\ [Next]_vars => PlaceStep
<1> SUFFICES ASSUME TypeOK, [Next]_vars PROVE PlaceStep
  OBVIOUS
<1> USE DEF Settle
<1>1. CASE ChildWrites \/ ChildExits \/ HelperExits
  BY <1>1 DEF ChildWrites, ChildExits, HelperExits, PlaceStep
<1>2. ASSUME NEW who \in Actors, SendTerm(who) PROVE PlaceStep
  <2>1. CASE Running
    BY <1>2, <2>1 DEF SendTerm, PlaceStep, Moved
  <2>2. CASE ~Running
    <3>1. ~Running'
      BY <1>2, <2>2 DEF SendTerm, Running
    <3>2. pc[who] = "terminating" /\ pc' = [pc EXCEPT ![who] = AfterTerminate(who)]
      BY <1>2, <2>2 DEF SendTerm
    <3>3. QED
      BY <3>1, <3>2 DEF PlaceStep
  <2>3. QED
    BY <2>1, <2>2
<1>3. ASSUME NEW who \in Actors, AwaitDeath(who) PROVE PlaceStep
  <2>1. ~Running'
    BY <1>3 DEF AwaitDeath, Running
  <2>2. pc[who] = "grace" /\ pc' = [pc EXCEPT ![who] = AfterTerminate(who)]
    BY <1>3 DEF AwaitDeath
  <2>3. QED
    BY <2>1, <2>2 DEF PlaceStep
<1>4. CASE ReadLine \/ PutEvent
  BY <1>4 DEF ReadLine, PutEvent, PlaceStep, Moved
<1>5. ASSUME NEW r \in Readers, ReachEof(r) PROVE PlaceStep
  <2>1. ~Running' /\ Moved(r, "reading", "done")
    BY <1>5 DEF ReachEof, AtEof, Running, Moved
  <2>2. QED
    BY <2>1 DEF PlaceStep
<1>6. ASSUME NEW r \in Readers, ReadRaises(r) \/ ReportFailure(r) PROVE PlaceStep
  BY <1>6 DEF ReadRaises, ReportFailure, PlaceStep, Moved
<1>7. CASE ChildIsDone
  <2>1. ~Running' /\ Moved("waiter", "waiting", "gathering")
    BY <1>7 DEF ChildIsDone, Running, Moved
  <2>2. QED
    BY <2>1 DEF PlaceStep
<1>8. CASE TimesOut \/ MarkTimeout \/ GatherReaders \/ CloseStream
  BY <1>8 DEF TimesOut, MarkTimeout, GatherReaders, CloseStream, PlaceStep, Moved
<1>9. CASE CutReadersShort
  BY <1>9 DEF CutReadersShort, PlaceStep
<1>10. CASE Consume
  BY <1>10 DEF Consume, PlaceStep, Moved
<1>11. CASE CancelAttempt \/ IngestRaises
  BY <1>11 DEF CancelAttempt, IngestRaises, PlaceStep, Moved
<1>12. CASE Settled \/ UNCHANGED vars
  BY <1>12 DEF Settled, vars, PlaceStep
<1>13. QED
  BY <1>1, <1>2, <1>3, <1>4, <1>5, <1>6, <1>7, <1>8, <1>9, <1>10, <1>11, <1>12
     DEF Next, Terminating, Reading, Waiting

\* Whoever got past the end of the child knows that it is dead.
LEMMA PlacesNext ==
  ASSUME TypeOK, Places, DeathIsKnown, PlaceStep, ~Running => ~Running'
  PROVE  Places' /\ DeathIsKnown'
<1> DEFINE Spots == {"reading", "putting", "reporting", "done", "waiting", "marking",
                     "gathering", "closing", "terminating", "grace", "getting",
                     "ended", "cancelled", "raised"}
<1>0. pc \in [Actors -> Spots]
  BY DEF TypeOK
<1>a. Actors = {"stdout", "stderr", "waiter", "consumer"} /\ Readers = {"stdout", "stderr"}
  BY DEF Actors, Readers
<1> USE DEF Places, DeathIsKnown, ReadersDone
<1>1. CASE pc' = pc
  BY <1>1, <1>a
<1>2. ASSUME NEW who \in Actors, Moved(who, "terminating", "grace") PROVE Places' /\ DeathIsKnown'
  BY <1>0, <1>a, <1>2 DEF Moved
<1>3. ASSUME NEW who \in Actors, pc[who] \in {"terminating", "grace"}, ~Running',
             pc' = [pc EXCEPT ![who] = AfterTerminate(who)]
      PROVE  Places' /\ DeathIsKnown'
  <2>1. CASE who \in Readers
    BY <1>0, <1>a, <1>3, <2>1 DEF AfterTerminate
  <2>2. CASE who = "waiter"
    <3>1. pc' = [pc EXCEPT !["waiter"] = "marking"]
      BY <1>3, <1>a, <2>2 DEF AfterTerminate
    <3>2. QED
      BY <1>0, <1>a, <1>3, <3>1
  <2>3. CASE who = "consumer"
    <3>1. pc' = [pc EXCEPT !["consumer"] = "cancelled"]
      BY <1>3, <1>a, <2>3 DEF AfterTerminate
    <3>2. QED
      BY <1>0, <1>a, <1>3, <3>1
  <2>4. QED
    BY <1>a, <2>1, <2>2, <2>3
<1>4. CASE Moved("stdout", "reading", "putting") \/ Moved("stdout", "putting", "reading")
  BY <1>0, <1>a, <1>4 DEF Moved
<1>5. ASSUME NEW r \in Readers, Moved(r, "reading", "done"), ~Running' PROVE Places' /\ DeathIsKnown'
  BY <1>0, <1>a, <1>5 DEF Moved
<1>6. ASSUME NEW r \in Readers,
             Moved(r, "reading", "reporting") \/ Moved(r, "reporting", "terminating")
      PROVE  Places' /\ DeathIsKnown'
  BY <1>0, <1>a, <1>6 DEF Moved
<1>7. CASE Moved("waiter", "waiting", "gathering") /\ ~Running'
  BY <1>0, <1>a, <1>7 DEF Moved
<1>8. CASE Moved("waiter", "waiting", "terminating") \/ Moved("waiter", "marking", "gathering")
  BY <1>0, <1>a, <1>8 DEF Moved
<1>9. CASE Moved("waiter", "gathering", "closing") /\ ReadersDone
  BY <1>0, <1>a, <1>9 DEF Moved
<1>10. CASE /\ pc["waiter"] = "gathering"
            /\ pc' = [pc EXCEPT !["stdout"] = "done", !["stderr"] = "done",
                                !["waiter"] = "closing"]
  BY <1>0, <1>a, <1>10
<1>11. CASE Moved("waiter", "closing", "done")
  BY <1>0, <1>a, <1>11 DEF Moved
<1>12. ASSUME NEW to \in {"ended", "terminating", "raised"}, Moved("consumer", "getting", to)
       PROVE  Places' /\ DeathIsKnown'
  BY <1>0, <1>a, <1>12 DEF Moved
<1>13. QED
  BY <1>1, <1>2, <1>3, <1>4, <1>5, <1>6, <1>7, <1>8, <1>9, <1>10, <1>11, <1>12 DEF PlaceStep

\* A reader that raised puts its report into the queue before it terminates.
LEMMA ReportedFirst ==
  ASSUME TypeOK, [Next]_vars, pc["stdout"] = "reporting", pc'["stdout"] = "terminating"
  PROVE  Puts(ReadFailed)
<1>0. DOMAIN pc = {"stdout", "stderr", "waiter", "consumer"} /\ Readers = {"stdout", "stderr"}
      /\ Actors = {"stdout", "stderr", "waiter", "consumer"}
  BY DEF TypeOK, Actors, Readers
<1> USE DEF Settle
<1>1. ~(\E who \in Actors : Terminating(who))
  BY <1>0 DEF Terminating, SendTerm, AwaitDeath, AfterTerminate
<1>2. ASSUME NEW r \in Readers, ReachEof(r) \/ ReadRaises(r) PROVE FALSE
  BY <1>0, <1>2 DEF ReachEof, ReadRaises
<1>3. ASSUME NEW r \in Readers, ReportFailure(r) PROVE Puts(ReadFailed)
  BY <1>3 DEF ReportFailure, Puts
<1>4. ~(ChildWrites \/ ChildExits \/ HelperExits \/ ReadLine \/ PutEvent)
  BY <1>0 DEF ChildWrites, ChildExits, HelperExits, ReadLine, PutEvent
<1>5. ~Waiting
  BY <1>0 DEF Waiting, ChildIsDone, TimesOut, MarkTimeout, GatherReaders,
              CutReadersShort, CloseStream
<1>6. ~(Consume \/ CancelAttempt \/ IngestRaises \/ Settled \/ UNCHANGED vars)
  BY <1>0 DEF Consume, CancelAttempt, IngestRaises, Settled, vars
<1>7. QED
  BY <1>1, <1>2, <1>3, <1>4, <1>5, <1>6 DEF Next, Reading

-------------------------------------------------------------------------------
\* What stays as it is: a coroutine that came to its end.
LEMMA EndedStays ==
  ASSUME TypeOK, Places, PlaceStep
  PROVE  /\ pc["waiter"] = "done" => pc'["waiter"] = "done"
         /\ \A r \in Readers : pc[r] = "done" => pc'[r] = "done"
         /\ pc["consumer"] \in {"ended", "raised", "cancelled"} =>
              pc'["consumer"] = pc["consumer"]
         /\ pc'["stdout"] = "terminating" => pc["stdout"] \in {"reporting", "terminating"}
         /\ pc'["stdout"] = "grace" => pc["stdout"] \in {"terminating", "grace"}
<1>0. DOMAIN pc = {"stdout", "stderr", "waiter", "consumer"} /\ Readers = {"stdout", "stderr"}
      /\ Actors = {"stdout", "stderr", "waiter", "consumer"}
  BY DEF TypeOK, Actors, Readers
<1>1. \A who \in Actors : AfterTerminate(who) \notin {"terminating", "grace"}
  BY <1>0 DEF AfterTerminate
<1>2. QED
  BY <1>0, <1>1 DEF Places, PlaceStep, Moved

\* The consumer's loop ends when it takes the end out of the queue.
LEMMA EndedByTheEnd ==
  ASSUME TypeOK, [Next]_vars, pc'["consumer"] = "ended"
  PROVE  pc["consumer"] = "ended" \/ (Takes /\ Head(queue) = End)
<1>0. DOMAIN pc = {"stdout", "stderr", "waiter", "consumer"} /\ Readers = {"stdout", "stderr"}
      /\ Actors = {"stdout", "stderr", "waiter", "consumer"}
  BY DEF TypeOK, Actors, Readers
<1> USE DEF Settle
<1>1. ASSUME NEW who \in Actors, Terminating(who) PROVE pc["consumer"] = "ended"
  BY <1>0, <1>1 DEF Terminating, SendTerm, AwaitDeath, AfterTerminate
<1>2. ASSUME NEW r \in Readers, ReachEof(r) \/ ReadRaises(r) \/ ReportFailure(r)
      PROVE pc["consumer"] = "ended"
  BY <1>0, <1>2 DEF ReachEof, ReadRaises, ReportFailure
<1>3. CASE ChildWrites \/ ChildExits \/ HelperExits \/ ReadLine \/ PutEvent
  BY <1>0, <1>3 DEF ChildWrites, ChildExits, HelperExits, ReadLine, PutEvent
<1>4. CASE Waiting
  BY <1>0, <1>4 DEF Waiting, ChildIsDone, TimesOut, MarkTimeout, GatherReaders,
                    CutReadersShort, CloseStream
<1>5. CASE CancelAttempt \/ IngestRaises \/ Settled \/ UNCHANGED vars
  BY <1>0, <1>5 DEF CancelAttempt, IngestRaises, Settled, vars
<1>6. CASE Consume
  <2>1. CASE Head(queue) = End
    BY <1>6, <2>1 DEF Consume, Takes
  <2>2. CASE Head(queue) # End
    BY <1>6, <2>2 DEF Consume
  <2>3. QED
    BY <2>1, <2>2
<1>7. QED
  BY <1>1, <1>2, <1>3, <1>4, <1>5, <1>6 DEF Next, Reading

\* A timeout's marker in the stream means that the child is dead.
LEMMA CancelledNext ==
  ASSUME StreamInv, [Next]_vars
  PROVE  CancelledChildIsDead'
<1>1. TypeOK /\ Places /\ DeathIsKnown /\ CancelledChildIsDead /\ ReaderReports
  BY DEF StreamInv
<1>2. DeathIsKnown' /\ (~Running => ~Running')
  BY <1>1, PlaceSteps, DeadStaysDead, PlacesNext
<1>3. ASSUME Timeout \in Range(queue)' \cup notices' PROVE ~Running'
  <2>1. \/ Timeout \in Range(queue) \cup notices
        \/ pc["waiter"] = "marking"
        \/ pc["stdout"] = "putting" /\ held = Timeout
    BY <1>1, <1>3, QueueSteps, InTheStream
  <2>2. ~(pc["stdout"] = "putting" /\ held = Timeout)
    BY <1>1 DEF ReaderReports, Made
  <2>3. ~Running
    BY <1>1, <2>1, <2>2 DEF CancelledChildIsDead, DeathIsKnown
  <2>4. QED
    BY <1>2, <2>3
<1>4. QED
  BY <1>2, <1>3 DEF CancelledChildIsDead, DeathIsKnown

\* What the reader holds is an event of a line; its failure is in the stream.
LEMMA ReportsNext ==
  ASSUME StreamInv, [Next]_vars
  PROVE  ReaderReports'
<1>1. TypeOK /\ Places /\ ReaderReports /\ PlaceStep /\ QueueStep
  BY PlaceSteps, QueueSteps DEF StreamInv
<1>a. pc \in [Actors -> {"reading", "putting", "reporting", "done", "waiting", "marking",
                         "gathering", "closing", "terminating", "grace", "getting",
                         "ended", "cancelled", "raised"}]
      /\ Actors = {"stdout", "stderr", "waiter", "consumer"} /\ Readers = {"stdout", "stderr"}
  BY <1>1 DEF TypeOK, Actors, Readers
<1>2. pc'["stdout"] = "putting" =>
        held' \notin Made
  <2> SUFFICES ASSUME pc'["stdout"] = "putting" PROVE held' \notin Made
    OBVIOUS
  <2> USE DEF Settle
  <2>1. CASE ReadLine
    BY <2>1, ParsedIsTheChilds DEF ReadLine
  <2>2. ASSUME pc["stdout"] = "putting", held' = held PROVE held' \notin Made
    BY <1>1, <2>2 DEF ReaderReports
  <2>3. CASE ChildWrites \/ ChildExits \/ HelperExits
    BY <2>2, <2>3 DEF ChildWrites, ChildExits, HelperExits
  <2>4. ASSUME NEW who \in Actors, Terminating(who) PROVE held' \notin Made
    BY <1>a, <2>2, <2>4 DEF Terminating, SendTerm, AwaitDeath, AfterTerminate
  <2>5. CASE PutEvent
    BY <1>a, <2>5 DEF PutEvent
  <2>6. ASSUME NEW r \in Readers, ReachEof(r) \/ ReadRaises(r) \/ ReportFailure(r)
        PROVE held' \notin Made
    BY <1>a, <2>2, <2>6 DEF ReachEof, ReadRaises, ReportFailure
  <2>7. CASE Waiting
    BY <1>a, <2>2, <2>7 DEF Waiting, ChildIsDone, TimesOut, MarkTimeout, GatherReaders,
                            CutReadersShort, CloseStream
  <2>8. CASE Consume \/ CancelAttempt \/ IngestRaises
    BY <1>a, <2>2, <2>8 DEF Consume, CancelAttempt, IngestRaises
  <2>9. CASE Settled \/ UNCHANGED vars
    BY <2>2, <2>9 DEF Settled, vars
  <2>10. QED
    BY <2>1, <2>3, <2>4, <2>5, <2>6, <2>7, <2>8, <2>9 DEF Next, Reading
<1>3. ASSUME pc'["stdout"] \in {"terminating", "grace"}
      PROVE  pc'["consumer"] = "raised" \/ ReadFailed \in Range(queue)' \cup notices'
  <2>1. CASE pc["stdout"] \in {"terminating", "grace"}
    BY <1>1, <2>1, EndedStays, InTheStream DEF ReaderReports
  <2>2. CASE pc["stdout"] = "reporting"
    <3>1. pc'["stdout"] = "terminating"
      BY <1>1, <1>3, <2>2, EndedStays
    <3>2. Puts(ReadFailed)
      BY <1>1, <2>2, <3>1, ReportedFirst
    <3>3. QED
      BY <1>1, <1>a, <2>2, <3>2, InTheStream
  <2>3. QED
    BY <1>1, <1>3, <2>1, <2>2, EndedStays
<1>4. QED
  BY <1>2, <1>3 DEF ReaderReports

\* Nothing follows the end of the stream, and it is the last thing done.
LEMMA ClosedNext ==
  ASSUME StreamInv, [Next]_vars
  PROVE  EndIsTheEnd' /\ (pc'["consumer"] = "ended" => queue' = <<>>)
<1>1. /\ TypeOK /\ Places /\ DeathIsKnown /\ EndIsTheEnd /\ ReaderReports
      /\ pc["consumer"] = "ended" => queue = <<>>
  BY DEF StreamInv
<1>2. PlaceStep /\ QueueStep /\ DeathIsKnown' /\ (~Running => ~Running')
  BY <1>1, PlaceSteps, QueueSteps, DeadStaysDead, PlacesNext
<1>3. queue \in Seq(EventTypes) /\ End \in EventTypes /\ Timeout \in EventTypes
      /\ ReadFailed \in EventTypes /\ held \in EventTypes
      /\ "waiter" \in Actors /\ pc \in [Actors -> {pc[who] : who \in Actors}]
  BY <1>1 DEF TypeOK, EventTypes, Made, Actors
<1>4. Timeout # End /\ ReadFailed # End
  BY DEF Timeout, ReadFailed, End
<1>5. DOMAIN queue = 1..Len(queue)
  BY <1>3
\* Once the stream is closed it stays closed.
<1>6. ASSUME pc["waiter"] = "done" PROVE ~Running' /\ ReadersDone' /\ pc'["waiter"] = "done"
  BY <1>1, <1>2, <1>6, EndedStays DEF DeathIsKnown, ReadersDone
\* While somebody still puts, it is not closed.
<1>7. ASSUME NEW e \in EventTypes, e # End, Puts(e), pc["waiter"] # "done" \/ ~ReadersDone
      PROVE  EndIsTheEnd' /\ (pc'["consumer"] = "ended" => queue' = <<>>)
  <2>1. End \notin Range(queue) /\ pc["consumer"] # "ended"
    BY <1>1, <1>7 DEF EndIsTheEnd
  <2>2. Range(queue)' = Range(queue) \cup {e}
    BY <1>3, <1>7, PutIn DEF Puts
  <2>3. ~Takes
    <3>1. queue' = Append(queue, e)
      BY <1>7 DEF Puts
    <3>2. Len(queue') = Len(queue) + 1 /\ Len(queue) \in Nat
      BY <1>3, <3>1, PutIn
    <3>3. queue # <<>> => Len(Tail(queue)) = Len(queue) - 1
      BY <1>3, TakenOut
    <3>4. QED
      BY <3>2, <3>3 DEF Takes
  <2>4. pc'["consumer"] # "ended"
    BY <1>1, <2>1, <2>3, EndedByTheEnd
  <2>5. QED
    BY <1>7, <2>1, <2>2, <2>4 DEF EndIsTheEnd
<1>8. CASE Takes
  <2>1. /\ queue' = Tail(queue) /\ queue # <<>> /\ pc["consumer"] = "getting"
        /\ Head(queue) = End => pc'["consumer"] = "ended"
    BY <1>8 DEF Takes
  <2>2. /\ Head(queue) = queue[1] /\ Len(queue) \in Nat \ {0} /\ Len(queue') = Len(queue) - 1
        /\ \A i \in 1..(Len(queue) - 1) : queue'[i] = queue[i + 1]
        /\ Range(queue) = {Head(queue)} \cup Range(queue') /\ queue' \in Seq(EventTypes)
    BY <1>3, <2>1, TakenOut
  <2>3. CASE Head(queue) = End
    <3>1. End \in Range(queue) /\ 1 \in DOMAIN queue
      BY <1>5, <2>2, <2>3
    <3>2. 1 = Len(queue) /\ pc["waiter"] = "done"
      BY <1>1, <2>2, <2>3, <3>1 DEF EndIsTheEnd
    <3>3. queue' = <<>>
      <4>1. Len(queue') = Len(queue) - 1 /\ queue' \in Seq(EventTypes)
        BY <2>2
      <4>2. Len(queue') = 0
        BY <3>2, <4>1
      <4>3. QED
        BY <4>1, <4>2
    <3>4. QED
      BY <1>6, <3>2, <3>3 DEF EndIsTheEnd
  <2>4. CASE Head(queue) # End
    <3>1. pc'["consumer"] # "ended"
      BY <1>1, <2>1, <2>4, EndedByTheEnd
    <3>2. End \in Range(queue)' => End \in Range(queue) /\ pc["waiter"] = "done"
      BY <1>1, <2>2 DEF EndIsTheEnd
    <3>3. ASSUME End \in Range(queue)', NEW i \in DOMAIN queue', queue'[i] = End
          PROVE  i = Len(queue')
      <4>1. i \in 1..(Len(queue) - 1)
        BY <2>2, <3>3
      <4>2. i + 1 \in DOMAIN queue /\ queue[i + 1] = End
        BY <1>5, <2>2, <3>3, <4>1
      <4>3. i + 1 = Len(queue)
        BY <1>1, <3>2, <3>3, <4>2 DEF EndIsTheEnd
      <4>4. QED
        BY <2>2, <4>1, <4>3
    <3>4. QED
      BY <1>6, <3>1, <3>2, <3>3 DEF EndIsTheEnd
  <2>5. QED
    BY <2>3, <2>4
<1>9. CASE UNCHANGED <<queue, received, notices>>
  <2>1. CASE Takes
    BY <1>8, <2>1
  <2>2. CASE ~Takes
    <3>1. pc'["consumer"] = "ended" => pc["consumer"] = "ended"
      BY <1>1, <2>2, EndedByTheEnd
    <3>2. queue' = queue
      BY <1>9
    <3>3. QED
      BY <1>1, <1>6, <3>1, <3>2 DEF EndIsTheEnd
  <2>3. QED
    BY <2>1, <2>2
<1>10. CASE pc["stdout"] = "putting" /\ Puts(held)
  <2>1. ~ReadersDone /\ held # End
    BY <1>1, <1>10 DEF ReadersDone, Readers, ReaderReports, Made
  <2>2. QED
    BY <1>3, <1>7, <1>10, <2>1
<1>11. ASSUME NEW r \in Readers, pc[r] = "reporting", Puts(ReadFailed)
       PROVE  EndIsTheEnd' /\ (pc'["consumer"] = "ended" => queue' = <<>>)
  <2>1. ~ReadersDone
    BY <1>11 DEF ReadersDone
  <2>2. QED
    BY <1>3, <1>4, <1>7, <1>11, <2>1
<1>12. CASE pc["waiter"] = "marking" /\ Puts(Timeout)
  BY <1>3, <1>4, <1>7, <1>12
<1>13. CASE pc["waiter"] = "closing" /\ Puts(End) /\ pc' = [pc EXCEPT !["waiter"] = "done"]
  <2>1. End \notin Range(queue) /\ pc["consumer"] # "ended"
    BY <1>1, <1>13 DEF EndIsTheEnd
  <2>2. /\ pc'["waiter"] = "done" /\ pc'["consumer"] = pc["consumer"]
    BY <1>3, <1>13
  <2>3. ~Running' /\ ReadersDone'
    BY <1>2, <2>2 DEF DeathIsKnown
  <2>4. queue' = Append(queue, End)
    BY <1>13 DEF Puts
  <2>5. /\ queue' \in Seq(EventTypes) /\ Len(queue') = Len(queue) + 1 /\ Len(queue) \in Nat
        /\ \A i \in 1..Len(queue) : queue'[i] = queue[i]
    BY <1>3, <2>4, PutIn
  <2>6. ASSUME NEW i \in DOMAIN queue', queue'[i] = End PROVE i = Len(queue')
    <3>1. i \in 1..(Len(queue) + 1)
      BY <2>5
    <3>2. i \notin 1..Len(queue)
      BY <1>5, <2>1, <2>5, <2>6 DEF Range
    <3>3. QED
      BY <2>5, <3>1, <3>2
  <2>7. QED
    BY <2>1, <2>2, <2>3, <2>6 DEF EndIsTheEnd
<1>14. QED
  BY <1>2, <1>8, <1>9, <1>10, <1>11, <1>12, <1>13 DEF QueueStep

-------------------------------------------------------------------------------
\* What a step does to the pipe and to what was written.
PipeStep ==
  \/ UNCHANGED <<pipe, written>>
  \/ /\ \E line \in Lines : pipe' = Append(pipe, line) /\ written' = Append(written, line)
     /\ UNCHANGED <<queue, held, pc, received, notices, cutShort>> /\ Running
  \/ ReadLine
LEMMA PipeSteps == [Next]_vars => PipeStep
<1> SUFFICES ASSUME [Next]_vars PROVE PipeStep
  OBVIOUS
<1>1. CASE ChildWrites
  BY <1>1 DEF ChildWrites, PipeStep
<1>2. CASE ChildExits \/ HelperExits \/ PutEvent
  BY <1>2 DEF ChildExits, HelperExits, PutEvent, PipeStep
<1>3. ASSUME NEW who \in Actors, Terminating(who) PROVE PipeStep
  BY <1>3 DEF Terminating, SendTerm, AwaitDeath, PipeStep
<1>4. ASSUME NEW r \in Readers, ReachEof(r) \/ ReadRaises(r) \/ ReportFailure(r)
      PROVE PipeStep
  BY <1>4 DEF ReachEof, ReadRaises, ReportFailure, PipeStep
<1>5. CASE ReadLine
  BY <1>5 DEF PipeStep
<1>6. CASE Waiting
  BY <1>6 DEF Waiting, ChildIsDone, TimesOut, MarkTimeout, GatherReaders,
              CutReadersShort, CloseStream, PipeStep
<1>7. CASE Consume \/ CancelAttempt \/ IngestRaises \/ Settled \/ UNCHANGED vars
  BY <1>7 DEF Consume, CancelAttempt, IngestRaises, Settled, vars, PipeStep
<1>8. QED
  BY <1>1, <1>2, <1>3, <1>4, <1>5, <1>6, <1>7 DEF Next, Reading

\* The lines written so far stay written, at their places.
LEMMA WrittenStays ==
  ASSUME TypeOK, PipeStep
  PROVE  /\ written' \in Seq(Lines) /\ Len(written) \in Nat /\ Len(written') \in Nat
         /\ Len(written) <= Len(written')
         /\ \A k \in 1..Len(written) : written'[k] = written[k]
<1>1. written \in Seq(Lines)
  BY DEF TypeOK
<1>2. CASE written' = written
  BY <1>1, <1>2
<1>3. ASSUME NEW line \in Lines, written' = Append(written, line)
      PROVE  /\ written' \in Seq(Lines) /\ Len(written) \in Nat /\ Len(written') \in Nat
             /\ Len(written) <= Len(written')
             /\ \A k \in 1..Len(written) : written'[k] = written[k]
  BY <1>1, <1>3
<1>4. QED
  BY <1>2, <1>3 DEF PipeStep, ReadLine

\* The pipe stays the end of what was written.
LEMMA PipeNext ==
  ASSUME TypeOK, TailInThePipe, PipeStep
  PROVE  TailInThePipe'
<1>1. pipe \in Seq(Lines) /\ written \in Seq(Lines) /\ Len(pipe) \in Nat /\ Len(written) \in Nat
  <2>1. pipe \in Seq(Lines) /\ written \in Seq(Lines)
    BY DEF TypeOK
  <2>2. QED
    BY <2>1
<1>2. CASE UNCHANGED <<pipe, written>>
  BY <1>2 DEF TailInThePipe
<1>3. ASSUME NEW line \in Lines, pipe' = Append(pipe, line), written' = Append(written, line)
      PROVE  TailInThePipe'
  <2>1. /\ Len(pipe') = Len(pipe) + 1 /\ Len(written') = Len(written) + 1
        /\ \A k \in 1..Len(pipe) : pipe'[k] = pipe[k]
        /\ \A k \in 1..Len(written) : written'[k] = written[k]
        /\ pipe'[Len(pipe) + 1] = line /\ written'[Len(written) + 1] = line
    BY <1>1, <1>3, PutIn
  <2>2. ASSUME NEW k \in 1..Len(pipe')
        PROVE  pipe'[k] = written'[Len(written') - Len(pipe') + k]
    <3>1. CASE k = Len(pipe) + 1
      <4>1. Len(written') - Len(pipe') + k = Len(written) + 1
        BY <1>1, <2>1, <3>1
      <4>2. QED
        BY <2>1, <3>1, <4>1
    <3>2. CASE k # Len(pipe) + 1
      <4>1. k \in 1..Len(pipe)
        BY <1>1, <2>1, <3>2
      <4>2. /\ Len(written') - Len(pipe') + k = Len(written) - Len(pipe) + k
            /\ Len(written) - Len(pipe) + k \in 1..Len(written)
        BY <1>1, <2>1, <4>1 DEF TailInThePipe
      <4>3. QED
        BY <2>1, <4>1, <4>2 DEF TailInThePipe
    <3>3. QED
      BY <3>1, <3>2
  <2>3. Len(pipe') <= Len(written')
    BY <1>1, <2>1 DEF TailInThePipe
  <2>4. QED
    BY <2>2, <2>3 DEF TailInThePipe
<1>4. CASE ReadLine
  <2>1. pipe # <<>> /\ pipe' = Tail(pipe) /\ written' = written
    BY <1>4 DEF ReadLine
  <2>2. /\ Len(pipe') = Len(pipe) - 1 /\ Len(pipe) \in Nat \ {0}
        /\ \A k \in 1..(Len(pipe) - 1) : pipe'[k] = pipe[k + 1]
    BY <1>1, <2>1, TakenOut
  <2>3. ASSUME NEW k \in 1..Len(pipe')
        PROVE  pipe'[k] = written[Len(written) - Len(pipe') + k]
    <3>1. /\ k \in 1..(Len(pipe) - 1) /\ k + 1 \in 1..Len(pipe)
          /\ Len(written) - Len(pipe') + k = Len(written) - Len(pipe) + (k + 1)
      BY <1>1, <2>2
    <3>2. QED
      BY <2>2, <3>1 DEF TailInThePipe
  <2>4. QED
    BY <1>1, <2>1, <2>2, <2>3 DEF TailInThePipe
<1>5. QED
  BY <1>2, <1>3, <1>4 DEF PipeStep

-------------------------------------------------------------------------------
\* A put extends the numbering.
LEMMA PutNumbered ==
  ASSUME TypeOK, NEW n \in Numbers, InOrder(n), NEW e \in EventTypes, Puts(e),
         written' = written, NEW new \in 0..Len(written),
         IF e \in Made THEN new = n[Len(queue)]
         ELSE new = n[Len(queue)] + 1 /\ e = Parsed(written[new])
  PROVE  \E m \in Numbers' : InOrder(m)' /\ m[Len(queue')] = new
<1>1. queue \in Seq(EventTypes) /\ queue' = Append(queue, e) /\ received' = received
  BY DEF TypeOK, Puts
<1>2. /\ Len(queue) \in Nat /\ Len(queue') = Len(queue) + 1
      /\ \A i \in 1..Len(queue) : queue'[i] = queue[i]
      /\ queue'[Len(queue) + 1] = e
  BY <1>1, PutIn
<1>3. PICK m : m = [i \in 0..(Len(queue) + 1) |-> IF i <= Len(queue) THEN n[i] ELSE new]
  OBVIOUS
<1>4. /\ \A i \in 0..Len(queue) : m[i] = n[i]
      /\ m[Len(queue) + 1] = new
      /\ DOMAIN m = 0..(Len(queue) + 1)
  BY <1>2, <1>3
<1>5. m \in Numbers'
  <2>1. \A i \in 0..(Len(queue) + 1) :
          (IF i <= Len(queue) THEN n[i] ELSE new) \in 0..Len(written)
    BY <1>2 DEF Numbers
  <2>2. QED
    BY <1>2, <1>3, <2>1 DEF Numbers
<1>6. InOrder(m)'
  <2>1. m[0] = Len(received')
    BY <1>1, <1>2, <1>4 DEF InOrder
  <2>2. ASSUME NEW i \in 1..Len(queue')
        PROVE  IF queue'[i] \in Made THEN m[i] = m[i - 1]
               ELSE m[i] = m[i - 1] + 1 /\ queue'[i] = Parsed(written'[m[i]])
    <3>1. CASE i = Len(queue) + 1
      <4>1. i - 1 = Len(queue) /\ i - 1 \in 0..Len(queue)
        BY <1>2, <3>1
      <4>2. QED
        BY <1>2, <1>4, <3>1, <4>1
    <3>2. CASE i # Len(queue) + 1
      <4>1. i \in 1..Len(queue) /\ i \in 0..Len(queue) /\ i - 1 \in 0..Len(queue)
        BY <1>2, <3>2
      <4>2. queue'[i] = queue[i] /\ m[i] = n[i] /\ m[i - 1] = n[i - 1]
        BY <1>2, <1>4, <4>1
      <4>3. QED
        BY <4>1, <4>2 DEF InOrder
    <3>3. QED
      BY <3>1, <3>2
  <2>3. QED
    BY <2>1, <2>2 DEF InOrder
<1>7. QED
  BY <1>2, <1>4, <1>5, <1>6

\* A get shifts it; what was taken is the event of the next line.
LEMMA TakeNumbered ==
  ASSUME TypeOK, NEW n \in Numbers, InOrder(n), Takes, written' = written,
         pc'["consumer"] # "raised"
  PROVE  /\ \E m \in Numbers' : InOrder(m)' /\ m[Len(queue')] = n[Len(queue)]
         /\ Len(received') <= Len(written)
         /\ received' # received =>
              /\ received' = Append(received, Head(queue))
              /\ Head(queue) = Parsed(written[Len(received) + 1])
<1>1. queue \in Seq(EventTypes) /\ received \in Seq(EventTypes \ Made) /\ queue # <<>>
      /\ queue' = Tail(queue)
      /\ received' = IF Head(queue) \in Made THEN received ELSE Append(received, Head(queue))
  BY DEF TypeOK, Takes
<1>2. /\ Head(queue) = queue[1] /\ Head(queue) \in EventTypes
      /\ Len(queue) \in Nat \ {0} /\ Len(queue') = Len(queue) - 1
      /\ \A i \in 1..(Len(queue) - 1) : queue'[i] = queue[i + 1]
  BY <1>1, TakenOut
<1>a. /\ \A i \in 0..Len(queue) : n[i] \in 0..Len(written)
      /\ n[0] = Len(received)
      /\ IF queue[1] \in Made THEN n[1] = n[0]
         ELSE n[1] = n[0] + 1 /\ queue[1] = Parsed(written[n[1]])
  BY <1>2 DEF Numbers, InOrder
<1>3. n[1] = Len(received')
  <2>1. CASE Head(queue) \in Made
    BY <1>1, <1>2, <1>a, <2>1
  <2>2. CASE Head(queue) \notin Made
    <3>1. Len(received') = Len(received) + 1
      BY <1>1, <1>2, <2>2, PutIn
    <3>2. QED
      BY <1>2, <1>a, <2>2, <3>1
  <2>3. QED
    BY <2>1, <2>2
<1>4. PICK m : m = [i \in 0..(Len(queue) - 1) |-> n[i + 1]]
  OBVIOUS
<1>5. \A i \in 0..(Len(queue) - 1) : m[i] = n[i + 1] /\ i + 1 \in 0..Len(queue)
  BY <1>2, <1>4
<1>6. m \in Numbers'
  <2>1. \A i \in 0..(Len(queue) - 1) : n[i + 1] \in 0..Len(written)
    BY <1>5, <1>a
  <2>2. QED
    BY <1>2, <1>4, <2>1 DEF Numbers
<1>7. InOrder(m)'
  <2>1. m[0] = Len(received')
    BY <1>2, <1>3, <1>5
  <2>2. ASSUME NEW i \in 1..Len(queue')
        PROVE  IF queue'[i] \in Made THEN m[i] = m[i - 1]
               ELSE m[i] = m[i - 1] + 1 /\ queue'[i] = Parsed(written'[m[i]])
    <3>1. /\ i \in 1..(Len(queue) - 1) /\ i + 1 \in 1..Len(queue)
          /\ i \in 0..(Len(queue) - 1) /\ i - 1 \in 0..(Len(queue) - 1)
          /\ (i - 1) + 1 = i /\ (i + 1) - 1 = i
      BY <1>2
    <3>2. queue'[i] = queue[i + 1] /\ m[i] = n[i + 1] /\ m[i - 1] = n[(i + 1) - 1]
      BY <1>2, <1>5, <3>1
    <3>3. IF queue[i + 1] \in Made THEN n[i + 1] = n[(i + 1) - 1]
          ELSE n[i + 1] = n[(i + 1) - 1] + 1 /\ queue[i + 1] = Parsed(written[n[i + 1]])
      BY <3>1 DEF InOrder
    <3>4. QED
      BY <3>2, <3>3
  <2>3. QED
    BY <2>1, <2>2 DEF InOrder
<1>8. m[Len(queue')] = n[Len(queue)]
  <2>1. Len(queue') \in 0..(Len(queue) - 1) /\ Len(queue') + 1 = Len(queue)
    BY <1>2
  <2>2. QED
    BY <1>5, <2>1
<1>9. Len(received') <= Len(written)
  <2>1. 1 \in 0..Len(queue)
    BY <1>2
  <2>2. QED
    BY <1>3, <1>a, <2>1
<1>10. received' # received =>
         /\ received' = Append(received, Head(queue))
         /\ Head(queue) = Parsed(written[Len(received) + 1])
  BY <1>1, <1>2, <1>a
<1>11. QED
  BY <1>6, <1>7, <1>8, <1>9, <1>10

\* What was consumed stays a beginning of what was written.
LEMMA TakenNext ==
  ASSUME StreamInv, [Next]_vars
  PROVE  TakenAsWritten'
<1>1. TypeOK /\ TakenAsWritten /\ (pc["consumer"] # "raised" => Numbered)
  BY DEF StreamInv
<1>2. QueueStep /\ PipeStep
  BY <1>1, QueueSteps, PipeSteps
<1>3. /\ written' \in Seq(Lines) /\ Len(written) \in Nat /\ Len(written') \in Nat
      /\ Len(written) <= Len(written')
      /\ \A k \in 1..Len(written) : written'[k] = written[k]
  BY <1>1, <1>2, WrittenStays
<1>4. received \in Seq(EventTypes \ Made) /\ Len(received) \in Nat
  <2>1. received \in Seq(EventTypes \ Made)
    BY <1>1 DEF TypeOK
  <2>2. QED
    BY <2>1
<1>5. CASE received' = received
  BY <1>1, <1>3, <1>4, <1>5 DEF TakenAsWritten
<1>6. CASE received' # received
  <2>1. Takes /\ pc'["consumer"] # "raised"
    BY <1>2, <1>6 DEF QueueStep, Puts, Takes
  <2>2. pc["consumer"] # "raised" /\ queue # <<>> /\ queue' = Tail(queue)
    BY <2>1 DEF Takes
  <2>3. written' = written
    <3>1. queue' # queue
      <4>1. queue \in Seq(EventTypes)
        BY <1>1 DEF TypeOK
      <4>2. Len(Tail(queue)) = Len(queue) - 1 /\ Len(queue) \in Nat
        BY <2>2, <4>1, TakenOut
      <4>3. ASSUME Tail(queue) = queue PROVE FALSE
        <5>1. Len(Tail(queue)) = Len(queue)
          BY <4>3
        <5>2. QED
          BY <4>2, <5>1
      <4>4. QED
        BY <2>2, <4>3
    <3>2. ~ReadLine
      BY <3>1 DEF ReadLine
    <3>3. QED
      BY <1>2, <3>1, <3>2 DEF PipeStep
  <2>4. PICK n \in Numbers : InOrder(n)
    BY <1>1, <2>2 DEF Numbered
  <2>5. /\ Len(received') <= Len(written) /\ received' = Append(received, Head(queue))
        /\ Head(queue) = Parsed(written[Len(received) + 1])
    BY <1>1, <1>6, <2>1, <2>3, <2>4, TakeNumbered
  <2>6. /\ Len(received') = Len(received) + 1
        /\ \A k \in 1..Len(received) : received'[k] = received[k]
        /\ received'[Len(received) + 1] = Head(queue)
    <3>1. Head(queue) \in EventTypes \cup Made
      BY <1>1, <2>2, TakenOut DEF TypeOK
    <3>2. received \in Seq(EventTypes \cup Made)
      BY <1>4
    <3>3. QED
      BY <2>5, <3>1, <3>2, PutIn
  <2>7. ASSUME NEW k \in 1..Len(received') PROVE received'[k] = Parsed(written[k])
    <3>1. CASE k = Len(received) + 1
      BY <2>5, <2>6, <3>1
    <3>2. CASE k # Len(received) + 1
      <4>1. k \in 1..Len(received)
        BY <1>4, <2>6, <3>2
      <4>2. QED
        BY <1>1, <2>6, <4>1 DEF TakenAsWritten
    <3>3. QED
      BY <3>1, <3>2
  <2>8. QED
    BY <2>3, <2>5, <2>7 DEF TakenAsWritten
<1>7. QED
  BY <1>5, <1>6

-------------------------------------------------------------------------------
\* What a step does to the reader of stdout: nothing; or it reads or puts; or it
\* comes to the end of the pipe, raises, terminates, or is cut short.
ReaderStep ==
  \/ pc'["stdout"] = pc["stdout"] /\ held' = held /\ cutShort' = cutShort
  \/ ReadLine \/ PutEvent
  \/ pc'["stdout"] \notin {"reading", "putting", "done"}
  \/ /\ pc'["stdout"] = "done"
     /\ UNCHANGED <<queue, received, notices, pipe, written>>
     /\ \/ pc["stdout"] = "reading" /\ pipe = <<>>
        \/ pc["stdout"] \in {"terminating", "grace"}
        \/ cutShort'
LEMMA ReaderSteps == TypeOK /\ Places /\ [Next]_vars => ReaderStep
<1> SUFFICES ASSUME TypeOK, Places, [Next]_vars PROVE ReaderStep
  OBVIOUS
<1>0. DOMAIN pc = {"stdout", "stderr", "waiter", "consumer"} /\ Readers = {"stdout", "stderr"}
      /\ Actors = {"stdout", "stderr", "waiter", "consumer"}
  BY DEF TypeOK, Actors, Readers
<1> USE DEF Settle
<1>1. CASE ChildWrites \/ ChildExits \/ HelperExits
  BY <1>1 DEF ChildWrites, ChildExits, HelperExits, ReaderStep
<1>2. ASSUME NEW who \in Actors, who # "stdout", Terminating(who) PROVE ReaderStep
  BY <1>0, <1>2 DEF Terminating, SendTerm, AwaitDeath, ReaderStep
<1>3. CASE SendTerm("stdout")
  <2>1. pc["stdout"] = "terminating" /\ pc'["stdout"] \in {"grace", "done"}
        /\ UNCHANGED <<queue, received, notices, pipe, written>>
    BY <1>0, <1>3 DEF SendTerm, AfterTerminate
  <2>2. QED
    BY <2>1 DEF ReaderStep
<1>4. CASE AwaitDeath("stdout")
  <2>1. pc["stdout"] = "grace" /\ pc'["stdout"] = "done"
        /\ UNCHANGED <<queue, received, notices, pipe, written>>
    BY <1>0, <1>4 DEF AwaitDeath, AfterTerminate
  <2>2. QED
    BY <2>1 DEF ReaderStep
<1>5. CASE ReadLine \/ PutEvent
  BY <1>5 DEF ReaderStep
<1>6. ASSUME NEW r \in Readers, ReachEof(r) PROVE ReaderStep
  BY <1>0, <1>6 DEF ReachEof, AtEof, ReaderStep
<1>7. ASSUME NEW r \in Readers, ReadRaises(r) \/ ReportFailure(r) PROVE ReaderStep
  BY <1>0, <1>7 DEF ReadRaises, ReportFailure, ReaderStep
<1>8. CASE ChildIsDone \/ TimesOut \/ MarkTimeout \/ GatherReaders \/ CloseStream
  BY <1>0, <1>8 DEF ChildIsDone, TimesOut, MarkTimeout, GatherReaders, CloseStream, ReaderStep
<1>9. CASE CutReadersShort
  BY <1>0, <1>9 DEF CutReadersShort, ReaderStep
<1>10. CASE Consume \/ CancelAttempt \/ IngestRaises
  BY <1>0, <1>10 DEF Consume, CancelAttempt, IngestRaises, ReaderStep
<1>11. CASE Settled \/ UNCHANGED vars
  BY <1>11 DEF Settled, vars, ReaderStep
<1>12. QED
  BY <1>0, <1>1, <1>2, <1>3, <1>4, <1>5, <1>6, <1>7, <1>8, <1>9, <1>10, <1>11
     DEF Next, Reading, Waiting, Terminating

\* Every step leaves a numbering of the queue, while the consumer has not raised.
LEMMA NumberedNext ==
  ASSUME StreamInv, [Next]_vars, pc'["consumer"] # "raised"
  PROVE  Numbered'
<1>1. /\ TypeOK /\ Places /\ DeathIsKnown /\ ReaderReports /\ TailInThePipe
      /\ pc["consumer"] # "raised" => Numbered
  BY DEF StreamInv
<1>2. QueueStep /\ PipeStep /\ ReaderStep /\ PlaceStep
  BY <1>1, QueueSteps, PipeSteps, ReaderSteps, PlaceSteps
<1>3. pc["consumer"] # "raised"
  BY <1>1, <1>2, EndedStays
<1>4. PICK n \in Numbers : InOrder(n) /\ Onward(n[Len(queue)])
  BY <1>1, <1>3 DEF Numbered
<1>5. /\ written' \in Seq(Lines) /\ Len(written) \in Nat /\ Len(written') \in Nat
      /\ Len(written) <= Len(written')
      /\ \A k \in 1..Len(written) : written'[k] = written[k]
  BY <1>1, <1>2, WrittenStays
<1>6. /\ queue \in Seq(EventTypes) /\ Len(queue) \in Nat /\ pipe \in Seq(Lines)
      /\ Len(pipe) \in Nat /\ held \in EventTypes
  <2>1. queue \in Seq(EventTypes) /\ pipe \in Seq(Lines) /\ held \in EventTypes
    BY <1>1 DEF TypeOK
  <2>2. QED
    BY <2>1
<1>7. PICK last : last = n[Len(queue)]
  OBVIOUS
<1>8. last \in 0..Len(written) /\ Onward(last)
  BY <1>4, <1>6, <1>7 DEF Numbers
<1>d. DOMAIN pc = {"stdout", "stderr", "waiter", "consumer"}
  BY <1>1 DEF TypeOK, Actors, Readers
\* A failed read stays in the stream.
<1>9. ReadFailed \in Range(queue) \cup notices => ReadFailed \in Range(queue)' \cup notices'
  BY <1>1, <1>2, InTheStream
\* The reader puts the event it holds: the next number.
<1>10. CASE PutEvent
  <2>1. /\ pc["stdout"] = "putting" /\ pc'["stdout"] = "reading" /\ Puts(held)
        /\ written' = written /\ pipe' = pipe
    BY <1>10, <1>d DEF PutEvent, Puts, Settle
  <2>2. /\ last + 1 + Len(pipe) = Len(written) /\ held = Parsed(written[last + 1])
        /\ held \notin Made /\ last + 1 \in 0..Len(written)
    BY <1>1, <1>5, <1>6, <1>8, <2>1 DEF Onward, ReaderReports
  <2>3. PICK m \in Numbers' : InOrder(m)' /\ m[Len(queue')] = last + 1
    BY <1>1, <1>4, <1>6, <1>7, <2>1, <2>2, PutNumbered
  <2>4. Onward(m[Len(queue)])'
    BY <2>1, <2>2, <2>3 DEF Onward
  <2>5. QED
    BY <2>3, <2>4 DEF Numbered
\* The other steps leave the events' numbers alone; what the reader goes on with
\* follows from what it does.
<1>11. ASSUME ~PutEvent, ~ReadLine, UNCHANGED <<pipe, written>>,
              UNCHANGED <<queue, received, notices>>
              \/ Takes \/ (\E e \in {ReadFailed, Timeout, End} : Puts(e))
       PROVE  Onward(last)'
  <2>1. CASE pc'["stdout"] = pc["stdout"] /\ held' = held /\ cutShort' = cutShort
    BY <1>8, <1>9, <1>11, <2>1 DEF Onward
  <2>2. CASE pc'["stdout"] \notin {"reading", "putting", "done"}
    BY <2>2 DEF Onward
  <2>3. CASE pc'["stdout"] = "done" /\ pc["stdout"] = "reading" /\ pipe = <<>>
    BY <1>5, <1>8, <1>11, <2>3 DEF Onward
  <2>4. CASE pc'["stdout"] = "done" /\ pc["stdout"] \in {"terminating", "grace"}
    <3>1. ReadFailed \in Range(queue) \cup notices
      BY <1>1, <1>3, <2>4 DEF ReaderReports
    <3>2. QED
      BY <1>9, <2>4, <3>1 DEF Onward
  <2>5. CASE pc'["stdout"] = "done" /\ cutShort'
    BY <2>5 DEF Onward
  <2>6. QED
    BY <1>2, <1>11, <2>1, <2>2, <2>3, <2>4, <2>5 DEF ReaderStep
\* Where the queue stays as it is, so does the numbering.
<1>12. ASSUME UNCHANGED <<queue, received, notices>>, Onward(last)' PROVE Numbered'
  <2>1. n \in Numbers'
    BY <1>4, <1>5, <1>12 DEF Numbers
  <2>2. ASSUME NEW i \in 1..Len(queue)
        PROVE  IF queue[i] \in Made THEN n[i] = n[i - 1]
               ELSE n[i] = n[i - 1] + 1 /\ queue[i] = Parsed(written'[n[i]])
    <3>1. /\ i \in 0..Len(queue) /\ i - 1 \in 0..Len(queue)
          /\ n[i] \in 0..Len(written) /\ n[i - 1] \in 0..Len(written)
      BY <1>4, <1>6 DEF Numbers
    <3>2. IF queue[i] \in Made THEN n[i] = n[i - 1]
          ELSE n[i] = n[i - 1] + 1 /\ queue[i] = Parsed(written[n[i]])
      BY <1>4 DEF InOrder
    <3>3. CASE queue[i] \in Made
      BY <3>2, <3>3
    <3>4. CASE queue[i] \notin Made
      <4>1. n[i] \in 1..Len(written)
        BY <3>1, <3>2, <3>4
      <4>2. QED
        BY <1>5, <3>2, <3>4, <4>1
    <3>5. QED
      BY <3>3, <3>4
  <2>3. InOrder(n)'
    BY <1>4, <1>12, <2>2 DEF InOrder
  <2>4. Onward(n[Len(queue)])'
    BY <1>7, <1>12
  <2>5. QED
    BY <2>1, <2>3, <2>4 DEF Numbered
\* The child writes: the pipe and the lines grow by one.
<1>13. ASSUME NEW line \in Lines, pipe' = Append(pipe, line), written' = Append(written, line),
              UNCHANGED <<queue, held, pc, received, notices, cutShort>>, Running
       PROVE  Numbered'
  <2>1. Len(pipe') = Len(pipe) + 1 /\ Len(written') = Len(written) + 1
    <3>1. written \in Seq(Lines)
      BY <1>1 DEF TypeOK
    <3>2. QED
      BY <1>6, <1>13, <3>1, PutIn
  <2>2. pc["stdout"] # "done"
    BY <1>1, <1>13 DEF DeathIsKnown, Readers
  <2>3. ASSUME pc["stdout"] = "putting"
        PROVE  last + 1 + Len(pipe') = Len(written') /\ held = Parsed(written'[last + 1])
    <3>1. last + 1 + Len(pipe) = Len(written) /\ held = Parsed(written[last + 1])
      BY <1>8, <2>3 DEF Onward
    <3>2. last + 1 \in 1..Len(written)
      BY <1>5, <1>6, <1>8, <3>1
    <3>3. QED
      <4>1. written'[last + 1] = written[last + 1]
        BY <1>5, <3>2
      <4>2. last + 1 + Len(pipe') = Len(written')
        <5>1. last + 1 + Len(pipe) = Len(written) /\ last \in Int
              /\ Len(pipe) \in Nat /\ Len(written) \in Nat
          BY <1>5, <1>6, <1>8, <3>1
        <5>2. QED
          BY <2>1, <5>1
      <4>3. QED
        BY <3>1, <4>1, <4>2
  <2>4. pc["stdout"] = "reading" => last + Len(pipe') = Len(written')
    BY <1>5, <1>6, <1>8, <2>1 DEF Onward
  <2>5. Onward(last)'
    BY <1>13, <2>2, <2>3, <2>4 DEF Onward
  <2>6. QED
    BY <1>12, <1>13, <2>5
\* The reader takes the first line of the pipe: the next one.
<1>14. CASE ReadLine
  <2>1. /\ pc["stdout"] = "reading" /\ pc'["stdout"] = "putting" /\ pipe # <<>>
        /\ held' = Parsed(Head(pipe)) /\ pipe' = Tail(pipe) /\ written' = written
        /\ UNCHANGED <<queue, received, notices>>
    BY <1>14, <1>d DEF ReadLine, Settle
  <2>2. Len(pipe) \in Nat \ {0} /\ Len(pipe') = Len(pipe) - 1 /\ Head(pipe) = pipe[1]
    BY <1>6, <2>1, TakenOut
  <2>3. last + Len(pipe) = Len(written)
    BY <1>8, <2>1 DEF Onward
  <2>4. pipe[1] = written[last + 1]
    <3>1. Len(written) - Len(pipe) + 1 = last + 1 /\ 1 \in 1..Len(pipe)
      BY <1>5, <1>8, <2>2, <2>3
    <3>2. QED
      BY <1>1, <3>1 DEF TailInThePipe
  <2>5. last + 1 + Len(pipe') = Len(written')
    BY <1>5, <1>8, <2>1, <2>2, <2>3
  <2>6. Onward(last)'
    BY <2>1, <2>2, <2>4, <2>5 DEF Onward
  <2>7. QED
    BY <1>12, <2>1, <2>6
\* The adapter puts an event of its own: the same number again.
<1>15. ASSUME NEW e \in {ReadFailed, Timeout, End}, Puts(e), ~PutEvent,
              UNCHANGED <<pipe, written>>, ~ReadLine
       PROVE  Numbered'
  <2>1. e \in Made /\ e \in EventTypes
    BY DEF Made, EventTypes
  <2>2. Onward(last)'
    BY <1>11, <1>15
  <2>3. PICK m \in Numbers' : InOrder(m)' /\ m[Len(queue')] = last
    BY <1>1, <1>4, <1>7, <1>8, <1>15, <2>1, PutNumbered
  <2>4. Onward(m[Len(queue)])'
    BY <2>2, <2>3
  <2>5. QED
    BY <2>3, <2>4 DEF Numbered
\* The consumer takes an event.
<1>16. ASSUME Takes, ~PutEvent, UNCHANGED <<pipe, written>>, ~ReadLine PROVE Numbered'
  <2>1. Onward(last)'
    BY <1>11, <1>16
  <2>2. PICK m \in Numbers' : InOrder(m)' /\ m[Len(queue')] = last
    BY <1>1, <1>4, <1>7, <1>16, TakeNumbered
  <2>3. Onward(m[Len(queue)])'
    BY <2>1, <2>2
  <2>4. QED
    BY <2>2, <2>3 DEF Numbered
<1>17. ASSUME ~PutEvent, ~ReadLine, UNCHANGED <<pipe, written>> PROVE Numbered'
  <2>1. CASE UNCHANGED <<queue, received, notices>>
    BY <1>11, <1>12, <1>17, <2>1
  <2>2. QED
    BY <1>2, <1>15, <1>16, <1>17, <2>1 DEF QueueStep
<1>18. QED
  BY <1>2, <1>10, <1>13, <1>14, <1>17 DEF PipeStep

-------------------------------------------------------------------------------
\* Every step keeps the invariant.
LEMMA StreamInvNext == StreamInv /\ [Next]_vars => StreamInv'
<1> SUFFICES ASSUME StreamInv, [Next]_vars PROVE StreamInv'
  OBVIOUS
<1>1. TypeOK /\ Places /\ DeathIsKnown /\ TailInThePipe
  BY DEF StreamInv
<1>2. TypeOK'
  BY <1>1, TypeOKNext
<1>3. Places' /\ DeathIsKnown'
  BY <1>1, PlaceSteps, DeadStaysDead, PlacesNext
<1>4. TailInThePipe'
  BY <1>1, PipeSteps, PipeNext
<1>5. CancelledChildIsDead' /\ ReaderReports' /\ TakenAsWritten'
  BY CancelledNext, ReportsNext, TakenNext
<1>6. EndIsTheEnd' /\ (pc'["consumer"] = "ended" => queue' = <<>>)
  BY ClosedNext
<1>7. pc'["consumer"] # "raised" => Numbered'
  BY NumberedNext
<1>8. QED
  BY <1>2, <1>3, <1>4, <1>5, <1>6, <1>7 DEF StreamInv

\* The invariant holds in every state of every behaviour of the adapter.
THEOREM StreamInvariant == Spec => []StreamInv
  BY StreamInvInit, StreamInvNext, PTL DEF Spec

\* Whatever is cancelled, raises or times out, the consumer sees the child's
\* lines in order and without a gap, an attempt counts as completed only if the
\* child said so, and the end marker comes last, after the child's death.
THEOREM StreamIsFaithful == Spec => []StreamConsistent
<1>1. StreamInv => StreamConsistent
  <2> SUFFICES ASSUME StreamInv PROVE StreamConsistent
    OBVIOUS
  <2>1. TypeOK /\ EndIsTheEnd /\ TakenAsWritten
    BY DEF StreamInv
  <2>2. /\ received \in Seq(EventTypes \ Made) /\ written \in Seq(Lines)
        /\ Len(received) \in Nat /\ Len(written) \in Nat
    <3>1. received \in Seq(EventTypes \ Made) /\ written \in Seq(Lines)
      BY <2>1 DEF TypeOK
    <3>2. QED
      BY <3>1
  <2>3. Translated \in Seq(EventTypes) /\ Len(Translated) = Len(written)
        /\ \A k \in 1..Len(written) : Translated[k] = Parsed(written[k])
    BY <2>2, ParsedIsTheChilds DEF Translated
  <2>4. IsPrefix(received, Translated)
    BY <2>1, <2>2, <2>3 DEF IsPrefix, TakenAsWritten
  <2>5. Completed => "turn.completed" \in Range(written)
    BY <2>1, <2>2, ParsedIsTheChilds DEF Completed, Range, TakenAsWritten
  <2>6. QED
    BY <2>1, <2>4, <2>5 DEF StreamConsistent, PrefixInOrder
<1>2. QED
  BY <1>1, StreamInvariant, PTL

\* A stream that ended has delivered everything, unless a reader raised or was
\* cut short.
THEOREM EverythingArrives == Spec => []NothingLostInTime
<1>1. StreamInv => NothingLostInTime
  <2> SUFFICES ASSUME StreamInv, pc["consumer"] = "ended", ~cutShort, ReadFailed \notin notices
               PROVE  received = Translated
    BY DEF NothingLostInTime
  <2>1. TypeOK /\ TakenAsWritten /\ queue = <<>> /\ Numbered /\ EndIsTheEnd
    BY DEF StreamInv
  <2>2. pc["stdout"] = "done"
    BY <2>1 DEF EndIsTheEnd, ReadersDone, Readers
  <2>3. Len(queue) = 0 /\ Range(queue) = {}
    BY <2>1 DEF Range
  <2>4. Len(received) = Len(written)
    BY <2>1, <2>2, <2>3 DEF Numbered, InOrder, Onward
  <2>5. received \in Seq(EventTypes \ Made) /\ written \in Seq(Lines)
    BY <2>1 DEF TypeOK
  <2>6. received = [k \in 1..Len(written) |-> received[k]]
        /\ DOMAIN written = 1..Len(written)
    BY <2>4, <2>5
  <2>7. QED
    BY <2>1, <2>4, <2>6 DEF Translated, TakenAsWritten
<1>2. QED
  BY <1>1, StreamInvariant, PTL

\* When an attempt's cancellation returns, and when its stream says that it timed
\* out, its child is dead.
THEOREM CancelledIsDead == Spec => []CancelledChildIsDead
<1>1. StreamInv => CancelledChildIsDead
  BY DEF StreamInv
<1>2. QED
  BY <1>1, StreamInvariant, PTL

-------------------------------------------------------------------------------
(***************************************************************************)
(* StreamLines, for every set of outputs, every limit and every way the    *)
(* pipe cuts an output into chunks.                                        *)
(*                                                                         *)
(* The argument.  What was read is a beginning of the input; the line so   *)
(* far starts at the last cut of the input at or before its end (Start),   *)
(* and as many cuts precede this one as lines were yielded.  So the line   *)
(* that the next newline ends is the next one of the reference, whatever   *)
(* was read in one piece.  The reference names a cut by the number of cuts *)
(* before it; CutsInOrder shows that this number finds it.                 *)
(***************************************************************************)

Bytes == {CR, LF, "x"}
Line == [line : Seq(Bytes) \cup {Dropped}, size : Nat]
Typed ==
  /\ input \in Seq(Bytes) /\ unread \in Seq(Bytes) /\ chunk \in Seq(Bytes)
  /\ buffered \in Seq(Bytes) /\ overflow \in Nat /\ lines \in Seq(Line)

\* How much was taken out of the pipe and the chunk, and what it leaves.
Position == Len(input) - Len(unread) - Len(chunk)
RestIsTheInput ==
  /\ Len(unread) + Len(chunk) <= Len(input)
  /\ \A k \in 1..Len(chunk) : chunk[k] = input[Position + k]
  /\ \A k \in 1..Len(unread) : unread[k] = input[Position + Len(chunk) + k]

\* The line so far starts after the cut s, and what it holds since.
Holds(s) ==
  IF overflow > 0 THEN overflow = Position - s /\ overflow > MaxLine /\ buffered = <<>>
  ELSE /\ Len(buffered) = Position - s /\ Len(buffered) <= MaxLine
       /\ \A k \in 1..Len(buffered) : buffered[k] = input[s + k]
Start(s) ==
  /\ Cardinality(Before(s)) = Len(lines)
  /\ IF s = Len(input) + 1 THEN Done
     ELSE /\ s <= Position /\ Holds(s)
          /\ \A d \in Cuts : d > s => d > Position

\* c is the first cut after s.
Follows(c, s) == s < c /\ \A d \in Cuts : d > s => d >= c

\* What is kept and what is counted of the line between two cuts.
IsLine(kept, counted, s, c) ==
  LET size == c - 1 - s IN
  /\ kept \in Seq(Bytes)
  /\ size > MaxLine => counted = size
  /\ size <= MaxLine => counted = 0 /\ kept = SubSeq(input, s + 1, c - 1)

\* What was yielded.
YieldedInOrder == \A i \in 1..Len(lines) : lines[i] = Whole[i]

LinesInv == Typed /\ RestIsTheInput /\ (\E s \in Cuts : Start(s)) /\ YieldedInOrder
\* A set of naturals has a least element (SmallestNatural takes an operator).
LEMMA NatLeast ==
  ASSUME NEW S, S \subseteq Nat, S # {}
  PROVE  \E n \in S : \A m \in S : n <= m
<1>1. PICK n \in S : \A m \in S : <<m, n>> \notin OpToRel(<, Nat)
  BY NatLessThanWellFounded, WFMin
<1>2. \A m \in S : ~(m < n)
  BY <1>1 DEF OpToRel
<1>3. QED
  BY <1>2


-------------------------------------------------------------------------------
\* Where the cuts are: the start, every newline, and the end of an unfinished
\* last line.
LEMMA CutsTyped ==
  ASSUME Typed
  PROVE  /\ Cuts \subseteq 0..(Len(input) + 1) /\ IsFiniteSet(Cuts) /\ 0 \in Cuts
         /\ Len(input) \in Nat /\ Cardinality(Cuts) \in Nat
         /\ \A c \in Cuts : IsFiniteSet(Before(c)) /\ Cardinality(Before(c)) \in Nat
         /\ \A k \in 1..Len(input) : k \in Cuts <=> input[k] = LF
         /\ Len(input) + 1 \in Cuts <=> Len(input) # 0 /\ input[Len(input)] # LF
<1>1. input \in Seq(Bytes) /\ Len(input) \in Nat /\ DOMAIN input = 1..Len(input)
      /\ (input = <<>> <=> Len(input) = 0)
  BY DEF Typed
<1>2. /\ Cuts \subseteq 0..(Len(input) + 1) /\ 0 \in Cuts
      /\ \A k \in 1..Len(input) : k \in Cuts <=> input[k] = LF
      /\ Len(input) + 1 \in Cuts <=> Len(input) # 0 /\ input[Len(input)] # LF
  BY <1>1 DEF Cuts, Last
<1>3. IsFiniteSet(Cuts)
  <2>1. IsFiniteSet(0..(Len(input) + 1))
    BY <1>1, FS_Interval
  <2>2. QED
    BY <1>2, <2>1, FS_Subset
<1>4. ASSUME NEW c \in Cuts PROVE IsFiniteSet(Before(c)) /\ Cardinality(Before(c)) \in Nat
  BY <1>3, FS_Subset, FS_CardinalityType DEF Before
<1>5. QED
  BY <1>1, <1>2, <1>3, <1>4, FS_CardinalityType

\* The number of cuts before a cut finds it.
LEMMA CutsInOrder ==
  ASSUME Typed, NEW c \in Cuts
  PROVE  Cut(Cardinality(Before(c))) = c
<1>1. ASSUME NEW a \in Cuts, NEW b \in Cuts, a < b
      PROVE  Cardinality(Before(a)) # Cardinality(Before(b))
  <2>1. Before(a) \subseteq Before(b) /\ a \in Before(b) /\ a \notin Before(a)
    BY <1>1, CutsTyped DEF Before
  <2>2. QED
    BY <2>1, CutsTyped, FS_Subset
<1>2. \A d \in Cuts : Cardinality(Before(d)) = Cardinality(Before(c)) => d = c
  BY <1>1, CutsTyped
<1>3. QED
  BY <1>2 DEF Cut

\* From one cut to the next: a line of the reference.
LEMMA NextLine ==
  ASSUME Typed, NEW s \in Cuts, NEW c \in Cuts, Follows(c, s)
  PROVE  LET i == Cardinality(Before(s)) + 1
             text == SubSeq(input, s + 1, c - 1)
             size == c - 1 - s IN
         /\ Cardinality(Before(c)) = i
         /\ Whole[i] = Yield(text, IF size > MaxLine THEN size ELSE 0)
         /\ i \in 1..(Cardinality(Cuts) - 1)
<1> DEFINE i == Cardinality(Before(s)) + 1
           text == SubSeq(input, s + 1, c - 1)
           size == c - 1 - s
<1>1. s \in 0..(Len(input) + 1) /\ c \in 0..(Len(input) + 1) /\ Len(input) \in Nat
      /\ input \in Seq(Bytes) /\ s < c
  BY CutsTyped DEF Typed, Follows
<1>2. Before(c) = Before(s) \cup {s} /\ s \notin Before(s)
  BY CutsTyped DEF Before, Follows
<1>3. Cardinality(Before(c)) = i /\ i \in Nat
  <2>1. IsFiniteSet(Before(s)) /\ Cardinality(Before(s)) \in Nat
    BY CutsTyped
  <2>2. Cardinality(Before(s) \cup {s}) = Cardinality(Before(s)) + 1
    BY <1>2, <2>1, FS_AddElement
  <2>3. QED
    BY <1>2, <2>1, <2>2
<1>4. i <= Cardinality(Cuts) - 1
  <2>1. Before(c) \subseteq Cuts /\ c \in Cuts /\ c \notin Before(c)
    BY <1>1 DEF Before
  <2>2. Cardinality(Before(c)) <= Cardinality(Cuts) /\ Cardinality(Before(c)) # Cardinality(Cuts)
    BY <2>1, CutsTyped, FS_Subset
  <2>3. QED
    BY <1>3, <2>2, CutsTyped
<1>5. Cut(i - 1) = s /\ Cut(i) = c
  <2>1. i - 1 = Cardinality(Before(s))
    BY CutsTyped
  <2>2. QED
    BY <1>3, <2>1, CutsInOrder
<1>6. Text(i) = text
  BY <1>5 DEF Text
<1>7. Len(text) = size
  BY <1>1
<1>8. i \in 1..(Cardinality(Cuts) - 1)
  BY <1>3, <1>4, CutsTyped
<1>9. Whole[i] = Yield(text, IF size > MaxLine THEN size ELSE 0)
  BY <1>6, <1>7, <1>8 DEF Whole, Long
<1>10. QED
  BY <1>3, <1>8, <1>9

\* A line that was yielded is a line or the mark of a dropped one.
LEMMA YieldTyped ==
  ASSUME NEW line \in Seq(Bytes), NEW size \in Nat
  PROVE  Yield(line, size) \in Line
<1>1. WithoutCR(line) \in Seq(Bytes) /\ Len(WithoutCR(line)) \in Nat
  <2>1. CASE line # <<>>
    BY <2>1 DEF WithoutCR, Front
  <2>2. CASE line = <<>>
    BY <2>2 DEF WithoutCR
  <2>3. QED
    BY <2>1, <2>2
<1>2. QED
  BY <1>1 DEF Yield, Line

\* The next newline of the chunk.
LEMMA NewlineTyped ==
  ASSUME Typed
  PROVE  /\ NextNewline \in 1..(Len(chunk) + 1) /\ Len(chunk) \in Nat
         /\ \A j \in 1..(NextNewline - 1) : j \in 1..Len(chunk) /\ chunk[j] # LF
         /\ NextNewline <= Len(chunk) => chunk[NextNewline] = LF
<1>1. chunk \in Seq(Bytes) /\ Len(chunk) \in Nat /\ DOMAIN chunk = 1..Len(chunk)
  BY DEF Typed
<1> DEFINE Is(i) == chunk[i] = LF /\ \A j \in 1..(i - 1) : chunk[j] # LF
<1>2. CASE \E i \in DOMAIN chunk : chunk[i] = LF
  <2> DEFINE Offsets == {i \in 1..Len(chunk) : chunk[i] = LF}
  <2>1. Offsets # {} /\ Offsets \subseteq Nat
    BY <1>1, <1>2
  <2>2. PICK i \in Offsets : \A j \in Offsets : i <= j
    BY <2>1, NatLeast
  <2>3. i \in DOMAIN chunk /\ Is(i)
    BY <1>1, <2>2
  <2>4. NextNewline \in DOMAIN chunk /\ Is(NextNewline)
    BY <1>2, <2>3 DEF NextNewline
  <2>5. QED
    BY <1>1, <2>4
<1>3. CASE ~(\E i \in DOMAIN chunk : chunk[i] = LF)
  BY <1>1, <1>3 DEF NextNewline
<1>4. QED
  BY <1>2, <1>3

\* Sequences of bytes with the same elements are the same.
LEMMA SameBytes ==
  ASSUME NEW a \in Seq(Bytes), NEW b \in Seq(Bytes), Len(a) = Len(b),
         \A k \in 1..Len(a) : a[k] = b[k]
  PROVE  a = b
OBVIOUS

\* Joining two sequences of bytes, and cutting one.
LEMMA ConcatBytes ==
  ASSUME NEW a \in Seq(Bytes), NEW b \in Seq(Bytes)
  PROVE  /\ a \o b \in Seq(Bytes) /\ Len(a \o b) = Len(a) + Len(b)
         /\ \A k \in 1..(Len(a) + Len(b)) :
              (a \o b)[k] = IF k <= Len(a) THEN a[k] ELSE b[k - Len(a)]
OBVIOUS

LEMMA SubBytes ==
  ASSUME NEW a \in Seq(Bytes), NEW m \in Nat \ {0}, NEW n \in Nat, n <= Len(a), m <= n + 1
  PROVE  /\ SubSeq(a, m, n) \in Seq(Bytes) /\ Len(SubSeq(a, m, n)) = n - m + 1
         /\ \A k \in 1..(n - m + 1) : SubSeq(a, m, n)[k] = a[m + k - 1]
OBVIOUS

\* A sequence with the elements of the beginning of another one is its prefix.
LEMMA PrefixByElements ==
  ASSUME NEW S, NEW T, NEW a \in Seq(S), NEW b \in Seq(T), Len(a) <= Len(b),
         \A i \in 1..Len(a) : a[i] = b[i]
  PROVE  IsPrefix(a, b) /\ (Len(a) = Len(b) => a = b)
<1>1. /\ Len(a) \in Nat /\ Len(b) \in Nat
      /\ DOMAIN a = 1..Len(a) /\ DOMAIN b = 1..Len(b)
  OBVIOUS
<1>2. SubSeq(a, 1, Len(a)) = SubSeq(b, 1, Len(a))
  BY <1>1
<1>3. Len(a) = Len(b) => a = b
  BY <1>1
<1>4. QED
  BY <1>2, <1>3 DEF IsPrefix

\* The reference depends on the input alone, which no step changes.
LEMMA ReferenceStays ==
  ASSUME input' = input
  PROVE  Cuts' = Cuts /\ Whole' = Whole /\ \A c : Before(c)' = Before(c)
<1>1. Cuts' = Cuts
  BY DEF Cuts
<1>2. \A c : Before(c)' = Before(c)
  BY <1>1 DEF Before
<1>3. \A i : Cut(i)' = Cut(i)
  BY <1>1, <1>2 DEF Cut
<1>4. \A i : Text(i)' = Text(i)
  BY <1>3 DEF Text
<1>5. \A i : Long(i)' = Long(i)
  BY <1>4 DEF Long
<1>6. Whole' = Whole
  BY <1>1, <1>4, <1>5 DEF Whole
<1>7. QED
  BY <1>1, <1>2, <1>6

\* What was read lies inside the input.
LEMMA PositionTyped ==
  ASSUME Typed, RestIsTheInput
  PROVE  /\ Position \in 0..Len(input) /\ Len(input) \in Nat
         /\ Len(chunk) \in Nat /\ Len(unread) \in Nat /\ Len(buffered) \in Nat
         /\ Len(lines) \in Nat
         /\ Position + Len(chunk) <= Len(input)
         /\ Done => Position = Len(input)
BY DEF Typed, RestIsTheInput, Position, Done

\* The line so far and the next n bytes of the chunk: its length, and what it is
\* unless it is too long.
LEMMA Joined ==
  ASSUME Typed, RestIsTheInput, NEW s \in Cuts, s <= Position, Holds(s),
         NEW n \in 0..Len(chunk)
  PROVE  LET size == (IF overflow > 0 THEN overflow ELSE Len(buffered)) + n
             line == buffered \o SubSeq(chunk, 1, n) IN
         /\ size = Position + n - s
         /\ (overflow > 0 \/ size > MaxLine) <=> size > MaxLine
         /\ size <= MaxLine => /\ line \in Seq(Bytes) /\ Len(line) = size
                              /\ line = SubSeq(input, s + 1, Position + n)
                              /\ \A k \in 1..size : line[k] = input[s + k]
<1> DEFINE size == (IF overflow > 0 THEN overflow ELSE Len(buffered)) + n
           line == buffered \o SubSeq(chunk, 1, n)
           text == SubSeq(input, s + 1, Position + n)
<1>1. /\ Position \in 0..Len(input) /\ Len(input) \in Nat /\ Len(buffered) \in Nat
      /\ Len(chunk) \in Nat /\ Position + Len(chunk) <= Len(input)
      /\ n \in Nat /\ n <= Len(chunk) /\ s \in Nat /\ MaxLine \in Nat \ {0}
      /\ overflow \in Nat
  BY PositionTyped, CutsTyped, MaxLineAssumption DEF Typed
<1>2. size = Position + n - s /\ size \in Nat
  <2>1. CASE overflow > 0
    <3>1. overflow = Position - s
      BY <2>1 DEF Holds
    <3>2. QED
      BY <1>1, <2>1, <3>1
  <2>2. CASE ~(overflow > 0)
    <3>1. Len(buffered) = Position - s
      BY <2>2 DEF Holds
    <3>2. QED
      BY <1>1, <2>2, <3>1
  <2>3. QED
    BY <2>1, <2>2
<1>3. (overflow > 0 \/ size > MaxLine) <=> size > MaxLine
  BY <1>1 DEF Holds
<1>4. ASSUME size <= MaxLine
      PROVE  /\ line \in Seq(Bytes) /\ Len(line) = size /\ line = text
             /\ \A k \in 1..size : line[k] = input[s + k]
  <2> DEFINE more == SubSeq(chunk, 1, n)
  <2>1. /\ overflow = 0 /\ Len(buffered) = Position - s
        /\ \A k \in 1..Len(buffered) : buffered[k] = input[s + k]
    BY <1>1, <1>3, <1>4 DEF Holds
  <2>2. /\ more \in Seq(Bytes) /\ Len(more) = n
        /\ \A k \in 1..n : more[k] = input[Position + k]
    <3>1. chunk \in Seq(Bytes) /\ \A k \in 1..n : chunk[k] = input[Position + k]
      BY <1>1 DEF Typed, RestIsTheInput
    <3>2. QED
      BY <1>1, <3>1, SubBytes
  <2>3. size = Len(buffered) + n /\ buffered \in Seq(Bytes)
    BY <2>1 DEF Typed
  <2> HIDE DEF more, size
  <2>4. /\ line \in Seq(Bytes) /\ Len(line) = size
        /\ \A k \in 1..size :
             line[k] = IF k <= Len(buffered) THEN buffered[k] ELSE more[k - Len(buffered)]
    BY <2>2, <2>3, ConcatBytes DEF more
  <2> HIDE DEF line
  <2>5. ASSUME NEW k \in 1..size PROVE line[k] = input[s + k]
    <3>1. CASE k <= Len(buffered)
      BY <1>1, <1>2, <2>1, <2>4, <3>1
    <3>2. CASE k > Len(buffered)
      <4>1. k - Len(buffered) \in 1..n /\ Position + (k - Len(buffered)) = s + k
        BY <1>1, <2>1, <2>3, <3>2
      <4>2. line[k] = more[k - Len(buffered)]
        BY <1>1, <1>2, <2>4, <3>2
      <4>3. more[k - Len(buffered)] = input[Position + (k - Len(buffered))]
        BY <2>2, <4>1
      <4>4. QED
        BY <4>1, <4>2, <4>3
    <3>3. QED
      BY <1>1, <1>2, <3>1, <3>2
  <2>6. /\ text \in Seq(Bytes) /\ Len(text) = size
        /\ \A k \in 1..size : text[k] = input[s + k]
    <3> DEFINE from == s + 1
               upto == Position + n
    <3>1. /\ from \in Nat \ {0} /\ upto \in Nat /\ upto <= Len(input)
          /\ from <= upto + 1 /\ upto - from + 1 = size
          /\ \A k \in 1..size : from + k - 1 = s + k
      BY <1>1, <1>2
    <3>2. input \in Seq(Bytes) /\ text = SubSeq(input, from, upto)
      BY DEF Typed
    <3> HIDE DEF from, upto, text
    <3>3. QED
      BY <3>1, <3>2, SubBytes
  <2>7. line = text
    BY <2>4, <2>5, <2>6, SameBytes
  <2>8. QED
    BY <2>4, <2>5, <2>7 DEF line, size
<1>5. QED
  BY <1>2, <1>3, <1>4

-------------------------------------------------------------------------------
\* At the start nothing was read, and the line so far starts with the input.
LEMMA LinesInvInit ==
  ASSUME LinesInit
  PROVE  LinesInv
<1>1. Typed
  BY InputsAssumption DEF LinesInit, Typed, Bytes, Line
<1>2. /\ input \in Seq(Bytes) /\ Len(input) \in Nat /\ unread = input /\ chunk = <<>>
      /\ buffered = <<>> /\ overflow = 0 /\ lines = <<>>
  BY <1>1 DEF LinesInit, Typed
<1>3. RestIsTheInput /\ Position = 0
  <2>1. Len(chunk) = 0 /\ Len(unread) = Len(input) /\ Len(input) \in Nat
    BY <1>2
  <2>2. Position = 0
    BY <2>1 DEF Position
  <2>3. QED
    BY <1>2, <2>1, <2>2 DEF RestIsTheInput
<1>4. YieldedInOrder
  BY <1>2 DEF YieldedInOrder
<1>5. Start(0)
  <2>1. Before(0) = {}
    BY <1>1, CutsTyped DEF Before
  <2>2. Cardinality(Before(0)) = Len(lines)
    BY <1>2, <2>1, FS_EmptySet
  <2>3. Holds(0)
    BY <1>2, <1>3, MaxLineAssumption DEF Holds
  <2>4. 0 # Len(input) + 1
    BY <1>2
  <2>5. QED
    BY <1>3, <2>2, <2>3, <2>4 DEF Start
<1>6. QED
  BY <1>1, <1>3, <1>4, <1>5, CutsTyped DEF LinesInv

\* Reading a chunk moves bytes and changes neither the place nor the line.
LEMMA ReadKeeps ==
  ASSUME LinesInv, ReadChunk
  PROVE  LinesInv'
<1>1. PICK n \in DOMAIN unread :
        chunk' = SubSeq(unread, 1, n) /\ unread' = SubSeq(unread, n + 1, Len(unread))
  BY DEF ReadChunk
<1>2. /\ chunk = <<>> /\ unread # <<>> /\ input' = input /\ buffered' = buffered
      /\ overflow' = overflow /\ lines' = lines
  BY DEF ReadChunk
<1>3. /\ input \in Seq(Bytes) /\ unread \in Seq(Bytes) /\ chunk \in Seq(Bytes)
      /\ n \in 1..Len(unread) /\ Len(unread) \in Nat /\ Len(input) \in Nat /\ Len(chunk) = 0
  BY <1>2 DEF LinesInv, Typed
<1>4. /\ chunk' \in Seq(Bytes) /\ Len(chunk') = n
      /\ \A k \in 1..n : chunk'[k] = unread[k]
  BY <1>1, <1>3, SubBytes
<1>5. /\ unread' \in Seq(Bytes) /\ Len(unread') = Len(unread) - n
      /\ \A k \in 1..(Len(unread) - n) : unread'[k] = unread[n + k]
  <2> DEFINE from == n + 1
             upto == Len(unread)
  <2>1. /\ from \in Nat \ {0} /\ upto \in Nat /\ upto <= Len(unread) /\ from <= upto + 1
        /\ upto - from + 1 = Len(unread) - n
        /\ \A k \in 1..(Len(unread) - n) : from + k - 1 = n + k
    BY <1>3
  <2>2. unread' = SubSeq(unread, from, upto)
    BY <1>1
  <2> HIDE DEF from, upto
  <2>3. QED
    BY <1>3, <2>1, <2>2, SubBytes
<1>6. Typed'
  BY <1>2, <1>4, <1>5 DEF LinesInv, Typed
<1>7. Position' = Position /\ Position \in Nat
  <2>1. Position' = Len(input) - Len(unread') - Len(chunk')
    BY <1>2 DEF Position
  <2>2. Position = Len(input) - Len(unread) - Len(chunk)
    BY DEF Position
  <2>3. Position \in Nat
    BY PositionTyped DEF LinesInv
  <2>4. /\ Len(chunk) = 0 /\ Len(chunk') = n /\ Len(unread') = Len(unread) - n
        /\ n \in Nat /\ Len(unread) \in Nat /\ Len(input) \in Nat
    BY <1>3, <1>4, <1>5
  <2>5. Position = Len(input) - Len(unread)
    BY <2>2, <2>4
  <2>6. Position' = Len(input) - (Len(unread) - n) - n
    BY <2>1, <2>4
  <2>7. QED
    BY <2>3, <2>4, <2>5, <2>6
<1>8. RestIsTheInput'
  <2>1. \A k \in 1..Len(unread) : unread[k] = input[Position + k]
    BY <1>3, <1>7 DEF LinesInv, RestIsTheInput
  <2>2. Len(unread') + Len(chunk') <= Len(input')
    BY <1>2, <1>3, <1>4, <1>5 DEF LinesInv, RestIsTheInput
  <2>3. \A k \in 1..Len(chunk') : chunk'[k] = input'[Position' + k]
    BY <1>2, <1>3, <1>4, <1>7, <2>1
  <2>4. ASSUME NEW k \in 1..Len(unread') PROVE unread'[k] = input'[Position' + Len(chunk') + k]
    <3>1. unread'[k] = unread[n + k] /\ n + k \in 1..Len(unread)
      BY <1>3, <1>5
    <3>2. Position + Len(chunk') + k = Position + (n + k)
      BY <1>3, <1>4, <1>5, <1>7
    <3>3. QED
      BY <1>2, <1>7, <2>1, <3>1, <3>2
  <2>5. QED
    BY <2>2, <2>3, <2>4 DEF RestIsTheInput
<1>9. (\E s \in Cuts : Start(s))'
  <2>1. PICK s \in Cuts : Start(s)
    BY DEF LinesInv
  <2>2. ~Done /\ s # Len(input) + 1
    BY <1>2, <2>1 DEF Start, Done
  <2>3. Holds(s)'
    BY <1>2, <1>7, <2>1, <2>2 DEF Start, Holds
  <2>4. Start(s)'
    BY <1>2, <1>7, <2>1, <2>2, <2>3, ReferenceStays DEF Start
  <2>5. QED
    BY <1>2, <2>4, ReferenceStays
<1>10. YieldedInOrder'
  BY <1>2, ReferenceStays DEF LinesInv, YieldedInOrder
<1>11. QED
  BY <1>6, <1>8, <1>9, <1>10 DEF LinesInv

\* What taking the chunk up to its next newline, or all of it, does to the rest.
LEMMA TakeAdvances ==
  ASSUME LinesInv, TakeSegment
  PROVE  LET n == NextNewline IN
         /\ input' = input /\ unread' = unread /\ chunk # <<>>
         /\ chunk' \in Seq(Bytes) /\ RestIsTheInput'
         /\ IF n > Len(chunk) THEN Position' = Position + Len(chunk)
            ELSE Position' = Position + n
<1> DEFINE n == NextNewline
<1>1. /\ input' = input /\ unread' = unread /\ chunk # <<>>
      /\ chunk' = SubSeq(chunk, n + 1, Len(chunk))
  BY DEF TakeSegment, Take
<1>2. /\ Len(input) \in Nat /\ Len(chunk) \in Nat /\ Len(unread) \in Nat
      /\ n \in 1..(Len(chunk) + 1) /\ chunk \in Seq(Bytes) /\ Position \in Nat
  BY NewlineTyped, PositionTyped DEF LinesInv, Typed
<1>3. /\ Position = Len(input) - Len(unread) - Len(chunk)
      /\ Position' = Len(input) - Len(unread) - Len(chunk')
      /\ Len(unread) + Len(chunk) <= Len(input)
  BY <1>1 DEF Position, LinesInv, RestIsTheInput
<1> HIDE DEF n
<1>4. CASE n > Len(chunk)
  <2>1. chunk' = <<>>
    BY <1>1, <1>2, <1>4
  <2>2. chunk' \in Seq(Bytes) /\ Len(chunk') = 0
    BY <2>1
  <2>3. Position' = Position + Len(chunk)
    BY <1>2, <1>3, <2>2
  <2>4. RestIsTheInput'
    <3>1. \A k \in 1..Len(unread) : unread[k] = input[Position + Len(chunk) + k]
      BY DEF LinesInv, RestIsTheInput
    <3>2. Position' + Len(chunk') = Position + Len(chunk)
      BY <1>2, <2>2, <2>3
    <3>3. \A k \in 1..Len(unread') : unread'[k] = input'[Position' + Len(chunk') + k]
      BY <1>1, <3>1, <3>2
    <3>4. Len(unread') + Len(chunk') <= Len(input')
      BY <1>1, <1>2, <1>3, <2>2
    <3>5. QED
      BY <2>2, <3>3, <3>4 DEF RestIsTheInput
  <2>5. QED
    BY <1>1, <1>4, <2>2, <2>3, <2>4 DEF n
<1>5. CASE n <= Len(chunk)
  <2>1. /\ chunk' \in Seq(Bytes) /\ Len(chunk') = Len(chunk) - n
        /\ \A k \in 1..(Len(chunk) - n) : chunk'[k] = chunk[n + k]
    <3> DEFINE from == n + 1
               upto == Len(chunk)
    <3>1. /\ from \in Nat \ {0} /\ upto \in Nat /\ upto <= Len(chunk) /\ from <= upto + 1
          /\ upto - from + 1 = Len(chunk) - n
          /\ \A k \in 1..(Len(chunk) - n) : from + k - 1 = n + k
      BY <1>2, <1>5
    <3>2. chunk' = SubSeq(chunk, from, upto)
      BY <1>1
    <3>3. chunk \in Seq(Bytes)
      BY <1>2
    <3> HIDE DEF from, upto
    <3>4. /\ chunk' \in Seq(Bytes) /\ Len(chunk') = upto - from + 1
          /\ \A k \in 1..(upto - from + 1) : chunk'[k] = chunk[from + k - 1]
      BY <3>1, <3>2, <3>3, SubBytes
    <3>5. QED
      BY <3>1, <3>4
  <2>2. Position' = Position + n
    BY <1>2, <1>3, <1>5, <2>1
  <2>3. RestIsTheInput'
    <3>1. /\ \A k \in 1..Len(chunk) : chunk[k] = input[Position + k]
          /\ \A k \in 1..Len(unread) : unread[k] = input[Position + Len(chunk) + k]
      BY DEF LinesInv, RestIsTheInput
    <3>2. Position' + Len(chunk') = Position + Len(chunk)
      BY <1>2, <1>5, <2>1, <2>2
    <3>3. \A k \in 1..Len(unread') : unread'[k] = input'[Position' + Len(chunk') + k]
      BY <1>1, <3>1, <3>2
    <3>4. Len(unread') + Len(chunk') <= Len(input')
      BY <1>1, <1>2, <1>3, <1>5, <2>1
    <3>5. ASSUME NEW k \in 1..Len(chunk') PROVE chunk'[k] = input'[Position' + k]
      <4>1. chunk'[k] = chunk[n + k] /\ n + k \in 1..Len(chunk)
        BY <1>2, <1>5, <2>1
      <4>2. Position' + k = Position + (n + k)
        BY <1>2, <2>1, <2>2
      <4>3. QED
        BY <1>1, <3>1, <4>1, <4>2
    <3>6. QED
      BY <3>3, <3>4, <3>5 DEF RestIsTheInput
  <2>4. QED
    BY <1>1, <1>2, <1>5, <2>1, <2>2, <2>3 DEF n
<1>6. QED
  BY <1>2, <1>4, <1>5

\* A cut of the input beyond the place is in what is left of the chunk at a
\* newline of it, or beyond the chunk.
LEMMA NoCutBefore ==
  ASSUME Typed, RestIsTheInput, NEW d \in Cuts, d > Position,
         NEW m \in Nat, m <= Len(chunk), \A k \in 1..m : chunk[k] # LF
  PROVE  d > Position + m
<1>1. /\ Position \in Nat /\ Len(chunk) \in Nat /\ Len(input) \in Nat
      /\ Position + Len(chunk) <= Len(input) /\ d \in Nat
  BY PositionTyped, CutsTyped
<1>2. ASSUME ~(d > Position + m) PROVE FALSE
  <2>1. d - Position \in 1..m /\ d \in 1..Len(input) /\ Position + (d - Position) = d
        /\ d - Position \in 1..Len(chunk)
    BY <1>1, <1>2
  <2>2. input[d] = LF
    BY <2>1, CutsTyped
  <2>3. chunk[d - Position] = input[Position + (d - Position)]
    BY <2>1 DEF RestIsTheInput
  <2>4. QED
    BY <2>1, <2>2, <2>3
<1>3. QED
  BY <1>2

\* Taking the rest of a chunk that has no newline: the line so far grows.
LEMMA TakeRestKeeps ==
  ASSUME LinesInv, TakeSegment, NextNewline > Len(chunk)
  PROVE  LinesInv'
<1> DEFINE n == Len(chunk)
           size == (IF overflow > 0 THEN overflow ELSE Len(buffered)) + n
           line == buffered \o SubSeq(chunk, 1, n)
           long == overflow > 0 \/ size > MaxLine
<1>1. /\ Typed /\ RestIsTheInput /\ YieldedInOrder
      /\ input' = input /\ unread' = unread /\ chunk # <<>>
      /\ chunk' \in Seq(Bytes) /\ RestIsTheInput' /\ Position' = Position + n
  BY TakeAdvances DEF LinesInv
<1>2. /\ NextNewline = n + 1 /\ n \in Nat /\ n + 1 - 1 = n /\ \A k \in 1..n : chunk[k] # LF
  BY <1>1, NewlineTyped
<1>3. /\ buffered' = (IF long THEN <<>> ELSE line) /\ overflow' = (IF long THEN size ELSE 0)
      /\ lines' = lines
  BY <1>2 DEF TakeSegment, Take
<1>4. PICK s \in Cuts : Start(s)
  BY DEF LinesInv
<1>5. /\ ~Done /\ s # Len(input) + 1 /\ s <= Position /\ Holds(s)
      /\ \A d \in Cuts : d > s => d > Position
  BY <1>1, <1>4 DEF Start, Done
<1>6. /\ n \in 0..Len(chunk) /\ s \in Nat /\ Position \in Nat /\ MaxLine \in Nat \ {0}
  BY <1>1, <1>2, CutsTyped, PositionTyped, MaxLineAssumption
<1> HIDE DEF n, size, line, long
<1>7. /\ size = Position + n - s
      /\ long <=> size > MaxLine
      /\ size <= MaxLine => /\ line \in Seq(Bytes) /\ Len(line) = size
                           /\ \A k \in 1..size : line[k] = input[s + k]
  BY <1>1, <1>5, <1>6, Joined DEF size, line, long
<1>8. size \in Nat
  BY <1>2, <1>5, <1>6, <1>7
<1>9. Typed'
  <2>1. buffered' \in Seq(Bytes) /\ overflow' \in Nat
    <3>1. CASE long
      BY <1>3, <1>8, <3>1
    <3>2. CASE ~long
      <4>1. size <= MaxLine
        BY <1>6, <1>7, <1>8, <3>2
      <4>2. QED
        BY <1>3, <1>7, <3>2, <4>1
    <3>3. QED
      BY <3>1, <3>2
  <2>2. QED
    BY <1>1, <1>3, <2>1 DEF Typed
<1>10. Holds(s)'
  <2>1. CASE long
    BY <1>1, <1>3, <1>6, <1>7, <1>8, <2>1 DEF Holds
  <2>2. CASE ~long
    <3>1. buffered' = line /\ overflow' = 0 /\ size <= MaxLine
      BY <1>3, <1>6, <1>7, <1>8, <2>2
    <3>2. /\ Len(buffered') = Position' - s /\ Len(buffered') <= MaxLine
          /\ \A k \in 1..Len(buffered') : buffered'[k] = input'[s + k]
      <4>1. /\ Len(line) = size /\ Position' - s = size /\ input' = input
            /\ \A k \in 1..size : line[k] = input[s + k]
        BY <1>1, <1>2, <1>6, <1>7, <3>1
      <4>2. QED
        BY <3>1, <4>1
    <3>3. QED
      BY <3>1, <3>2 DEF Holds
  <2>3. QED
    BY <2>1, <2>2
<1>11. \A d \in Cuts : d > s => d > Position'
  BY <1>1, <1>2, <1>5, NoCutBefore DEF n
<1>12. s <= Position'
  BY <1>1, <1>2, <1>5, <1>6
<1>13. Start(s)'
  BY <1>1, <1>3, <1>4, <1>5, <1>10, <1>11, <1>12, ReferenceStays DEF Start
<1>14. YieldedInOrder'
  BY <1>1, <1>3, ReferenceStays DEF YieldedInOrder
<1>15. QED
  BY <1>1, <1>9, <1>13, <1>14, ReferenceStays DEF LinesInv

\* A line that was yielded after the lines before it.
LEMMA YieldedNext ==
  ASSUME Typed, YieldedInOrder, input' = input, NEW line \in Line,
         lines' = Append(lines, line), line = Whole[Len(lines) + 1]
  PROVE  YieldedInOrder' /\ lines' \in Seq(Line) /\ Len(lines') = Len(lines) + 1
<1>1. lines \in Seq(Line) /\ Len(lines) \in Nat
  BY DEF Typed
<1>2. /\ lines' \in Seq(Line) /\ Len(lines') = Len(lines) + 1
      /\ \A i \in 1..Len(lines) : lines'[i] = lines[i]
      /\ lines'[Len(lines) + 1] = line
  BY <1>1
<1>3. ASSUME NEW i \in 1..Len(lines') PROVE lines'[i] = Whole[i]
  <2>1. CASE i \in 1..Len(lines)
    BY <1>2, <2>1 DEF YieldedInOrder
  <2>2. CASE i = Len(lines) + 1
    BY <1>2, <2>2
  <2>3. QED
    BY <1>1, <1>2, <2>1, <2>2
<1>4. YieldedInOrder'
  BY <1>3, ReferenceStays DEF YieldedInOrder
<1>5. QED
  BY <1>2, <1>4

\* The line that a newline ends, or the end of the input, is the next one.
LEMMA YieldsTheNext ==
  ASSUME Typed, NEW s \in Cuts, NEW c \in Cuts, Follows(c, s),
         Cardinality(Before(s)) = Len(lines),
         NEW kept, NEW counted, IsLine(kept, counted, s, c)
  PROVE  /\ Yield(kept, counted) = Whole[Len(lines) + 1]
         /\ Yield(kept, counted) \in Line
         /\ Cardinality(Before(c)) = Len(lines) + 1
<1> DEFINE text == SubSeq(input, s + 1, c - 1)
           size == c - 1 - s
<1>1. MaxLine \in Nat \ {0} /\ size \in Nat
  BY MaxLineAssumption, CutsTyped DEF Follows
<1>2. /\ kept \in Seq(Bytes)
      /\ counted = IF size > MaxLine THEN size ELSE 0
      /\ size <= MaxLine => kept = text
  BY <1>1 DEF IsLine
<1>3. Cardinality(Before(c)) = Len(lines) + 1 /\ Whole[Len(lines) + 1] = Yield(text, counted)
  BY <1>2, NextLine
<1>4. Yield(kept, counted) = Yield(text, counted)
  <2>1. CASE size > MaxLine
    BY <1>1, <1>2, <2>1 DEF Yield
  <2>2. CASE size <= MaxLine
    BY <1>2, <2>2
  <2>3. QED
    BY <1>1, <2>1, <2>2
<1>5. Yield(kept, counted) \in Line
  BY <1>1, <1>2, YieldTyped
<1>6. QED
  BY <1>3, <1>4, <1>5

\* Taking the chunk up to a newline yields the line and starts the next one.
LEMMA TakeLineKeeps ==
  ASSUME LinesInv, TakeSegment, NextNewline <= Len(chunk)
  PROVE  LinesInv'
<1> DEFINE m == NextNewline - 1
           size == (IF overflow > 0 THEN overflow ELSE Len(buffered)) + m
           line == buffered \o SubSeq(chunk, 1, m)
           long == overflow > 0 \/ size > MaxLine
           kept == IF long THEN <<>> ELSE line
           counted == IF long THEN size ELSE 0
<1> PICK c : c = Position + NextNewline
  OBVIOUS
<1>1. /\ Typed /\ RestIsTheInput /\ YieldedInOrder
      /\ input' = input /\ unread' = unread /\ chunk # <<>>
      /\ chunk' \in Seq(Bytes) /\ RestIsTheInput'
  BY TakeAdvances DEF LinesInv
<1>2. /\ NextNewline \in 1..Len(chunk) /\ Len(chunk) \in Nat
      /\ m \in 0..Len(chunk) /\ m \in Nat /\ m <= Len(chunk)
      /\ \A k \in 1..m : chunk[k] # LF
      /\ chunk[NextNewline] = LF
  BY <1>1, NewlineTyped
<1>3. Position' = c
  BY <1>2, TakeAdvances
<1>4. /\ lines' = Append(lines, Yield(kept, counted))
      /\ buffered' = <<>> /\ overflow' = 0
  BY <1>2 DEF TakeSegment, Take
<1>5. PICK s \in Cuts : Start(s)
  BY DEF LinesInv
<1>6. /\ ~Done /\ s # Len(input) + 1 /\ s <= Position /\ Holds(s)
      /\ Cardinality(Before(s)) = Len(lines)
      /\ \A d \in Cuts : d > s => d > Position
  BY <1>1, <1>5 DEF Start, Done
<1>7. /\ s \in Nat /\ Position \in Nat /\ MaxLine \in Nat \ {0} /\ Len(input) \in Nat
      /\ Position + Len(chunk) <= Len(input)
  BY <1>1, CutsTyped, PositionTyped, MaxLineAssumption
<1>8. c \in 1..Len(input) /\ Position + m = c - 1 /\ s < c /\ c \in Nat /\ m \in Nat
  BY <1>2, <1>6, <1>7
<1>9. c \in Cuts
  <2>1. input[c] = LF
    BY <1>1, <1>2 DEF RestIsTheInput
  <2>2. QED
    BY <1>1, <1>8, <2>1, CutsTyped
<1>10. \A d \in Cuts : d > s => d >= c
  <2>1. ASSUME NEW d \in Cuts, d > s PROVE d > Position + m
    BY <1>1, <1>2, <1>6, <2>1, NoCutBefore
  <2>2. \A d \in Cuts : d \in Nat
    BY <1>1, CutsTyped
  <2>3. QED
    BY <1>8, <2>1, <2>2
<1> HIDE DEF m, size, line, long, kept, counted
<1>11. /\ size = Position + m - s
       /\ long <=> size > MaxLine
       /\ size <= MaxLine => line \in Seq(Bytes) /\ line = SubSeq(input, s + 1, Position + m)
  BY <1>1, <1>2, <1>6, Joined DEF size, line, long
<1>12. size = c - 1 - s /\ size \in Nat
  BY <1>7, <1>8, <1>11
<1>13. Follows(c, s)
  BY <1>8, <1>10 DEF Follows
<1>14. /\ Yield(kept, counted) = Whole[Len(lines) + 1] /\ Yield(kept, counted) \in Line
       /\ Cardinality(Before(c)) = Len(lines) + 1
  <2>1. size > MaxLine => counted = size
    BY <1>11 DEF counted
  <2>2. size <= MaxLine => counted = 0 /\ kept = SubSeq(input, s + 1, c - 1)
    BY <1>7, <1>8, <1>11, <1>12 DEF counted, kept
  <2>3. kept \in Seq(Bytes)
    <3>1. CASE size <= MaxLine
      BY <1>7, <1>11, <1>12, <3>1 DEF kept
    <3>2. CASE size > MaxLine
      BY <1>11, <3>2 DEF kept
    <3>3. QED
      BY <1>7, <1>12, <3>1, <3>2
  <2>4. Typed /\ c \in Cuts /\ Cardinality(Before(s)) = Len(lines)
    BY <1>1, <1>6, <1>8, <1>9
  <2>5. IsLine(kept, counted, s, c)
    BY <1>12, <2>1, <2>2, <2>3 DEF IsLine
  <2>6. QED
    BY <1>13, <2>4, <2>5, YieldsTheNext
<1>15. YieldedInOrder' /\ lines' \in Seq(Line) /\ Len(lines') = Len(lines) + 1
  BY <1>1, <1>4, <1>14, YieldedNext
<1>16. Typed'
  BY <1>1, <1>4, <1>15 DEF Typed
<1>17. Holds(c)'
  BY <1>3, <1>4, <1>7, <1>8 DEF Holds
<1>18. Start(c)'
  <2>1. Cuts' = Cuts /\ Cardinality(Before(c)') = Len(lines')
    BY <1>1, <1>14, <1>15, ReferenceStays
  <2>2. c # Len(input') + 1 /\ c <= Position'
    BY <1>1, <1>3, <1>7, <1>8
  <2>3. \A d \in Cuts' : d > c => d > Position'
    BY <1>3
  <2>4. QED
    BY <1>17, <2>1, <2>2, <2>3 DEF Start
<1>19. QED
  BY <1>1, <1>9, <1>15, <1>16, <1>18, ReferenceStays DEF LinesInv

\* At the end of the pipe the unfinished line is yielded: its end is the last cut.
LEMMA FinishKeeps ==
  ASSUME LinesInv, Finish
  PROVE  LinesInv'
<1> PICK c : c = Len(input) + 1
  OBVIOUS
<1> DEFINE size == IF overflow > 0 THEN overflow ELSE Len(buffered)
<1>1. /\ Typed /\ RestIsTheInput /\ YieldedInOrder
      /\ chunk = <<>> /\ unread = <<>> /\ (buffered # <<>> \/ overflow > 0)
      /\ lines' = Append(lines, Yield(buffered, overflow)) /\ buffered' = <<>> /\ overflow' = 0
      /\ input' = input /\ unread' = unread /\ chunk' = chunk
  BY DEF Finish, LinesInv
<1>2. /\ Len(input) \in Nat /\ Position = Len(input) /\ MaxLine \in Nat \ {0}
      /\ buffered \in Seq(Bytes) /\ Len(buffered) \in Nat /\ overflow \in Nat
      /\ Len(chunk) = 0 /\ Len(unread) = 0
  BY <1>1, MaxLineAssumption DEF Typed, Position
<1>3. PICK s \in Cuts : Start(s)
  BY DEF LinesInv
<1>4. /\ ~Done /\ s # c /\ s <= Len(input) /\ Holds(s) /\ s \in Nat
      /\ Cardinality(Before(s)) = Len(lines)
      /\ \A d \in Cuts : d > s => d > Len(input)
  BY <1>1, <1>2, <1>3, CutsTyped DEF Start, Done
<1>5. size = Len(input) - s /\ size \in Nat \ {0} /\ s < Len(input)
  <2>1. CASE overflow > 0
    <3>1. overflow = Len(input) - s
      BY <1>2, <1>4, <2>1 DEF Holds
    <3>2. QED
      BY <1>2, <1>4, <2>1, <3>1
  <2>2. CASE ~(overflow > 0)
    <3>1. Len(buffered) = Len(input) - s /\ buffered # <<>>
      BY <1>1, <1>2, <1>4, <2>2 DEF Holds
    <3>2. Len(buffered) # 0
      BY <1>2, <3>1
    <3>3. QED
      BY <1>2, <1>4, <2>2, <3>1, <3>2
  <2>3. QED
    BY <2>1, <2>2
<1>6. c \in Cuts /\ s < c /\ size = c - 1 - s /\ c - 1 = Len(input)
  <2>1. Len(input) \in 1..Len(input) /\ Len(input) > s /\ ~(Len(input) > Len(input))
    BY <1>2, <1>4, <1>5
  <2>2. Len(input) \notin Cuts
    BY <1>4, <2>1
  <2>3. input[Len(input)] # LF
    BY <1>1, <2>1, <2>2, CutsTyped
  <2>4. c \in Cuts
    BY <1>1, <1>2, <2>1, <2>3, CutsTyped
  <2>5. QED
    BY <1>2, <1>4, <1>5, <2>4
<1>7. \A d \in Cuts : d > s => d >= c
  <2>1. \A d \in Cuts : d \in Nat
    BY <1>1, CutsTyped
  <2>2. QED
    BY <1>2, <1>4, <2>1
<1>8. /\ size > MaxLine => overflow = size
      /\ size <= MaxLine => overflow = 0
  BY <1>2, <1>4 DEF Holds
<1>9. size <= MaxLine => buffered = SubSeq(input, s + 1, c - 1)
  <2>1. ASSUME size <= MaxLine PROVE buffered = SubSeq(input, s + 1, c - 1)
    <3> DEFINE from == s + 1
               text == SubSeq(input, from, Len(input))
    <3>1. /\ Len(buffered) = Len(input) - s
          /\ \A k \in 1..Len(buffered) : buffered[k] = input[s + k]
      BY <1>2, <1>4, <1>5, <1>8, <2>1 DEF Holds
    <3>2. /\ from \in Nat \ {0} /\ from <= Len(input) + 1 /\ Len(input) <= Len(input)
          /\ Len(input) - from + 1 = Len(buffered)
          /\ \A k \in 1..Len(buffered) : from + k - 1 = s + k
      BY <1>2, <1>4, <3>1
    <3>3. input \in Seq(Bytes)
      BY <1>1 DEF Typed
    <3> HIDE DEF from
    <3>4. /\ text \in Seq(Bytes) /\ Len(text) = Len(input) - from + 1
          /\ \A k \in 1..(Len(input) - from + 1) : text[k] = input[from + k - 1]
      BY <1>2, <3>2, <3>3, SubBytes
    <3> HIDE DEF text
    <3>5. buffered = text
      <4>1. Len(text) = Len(buffered) /\ \A k \in 1..Len(buffered) : text[k] = input[s + k]
        BY <3>2, <3>4
      <4>2. \A k \in 1..Len(buffered) : buffered[k] = text[k]
        BY <3>1, <4>1
      <4>3. QED
        BY <1>2, <3>4, <4>1, <4>2, SameBytes
    <3>6. QED
      BY <1>6, <3>5 DEF from, text
  <2>2. QED
    BY <2>1
<1> HIDE DEF size
<1>10. /\ Yield(buffered, overflow) = Whole[Len(lines) + 1] /\ Yield(buffered, overflow) \in Line
       /\ Cardinality(Before(c)) = Len(lines) + 1
  <2>1. IsLine(buffered, overflow, s, c)
    BY <1>2, <1>6, <1>8, <1>9 DEF IsLine
  <2>2. Follows(c, s)
    BY <1>6, <1>7 DEF Follows
  <2>3. Typed /\ c \in Cuts /\ Cardinality(Before(s)) = Len(lines)
    BY <1>1, <1>4, <1>6
  <2>4. QED
    BY <2>1, <2>2, <2>3, YieldsTheNext
<1>11. YieldedInOrder' /\ lines' \in Seq(Line) /\ Len(lines') = Len(lines) + 1
  BY <1>1, <1>10, YieldedNext
<1>12. Typed'
  BY <1>1, <1>11 DEF Typed
<1>13. RestIsTheInput'
  <2>1. Len(unread') = 0 /\ Len(chunk') = 0 /\ Len(input') \in Nat
    BY <1>1, <1>2
  <2>2. QED
    BY <2>1 DEF RestIsTheInput
<1>14. Start(c)'
  <2>1. Done'
    BY <1>1 DEF Done
  <2>2. Cardinality(Before(c)') = Len(lines') /\ c = Len(input') + 1
    BY <1>1, <1>10, <1>11, ReferenceStays
  <2>3. QED
    BY <2>1, <2>2 DEF Start
<1>15. QED
  BY <1>1, <1>6, <1>11, <1>12, <1>13, <1>14, ReferenceStays DEF LinesInv

\* Every step keeps it.
LEMMA LinesInvNext ==
  ASSUME LinesInv, [LinesNext]_lineVars
  PROVE  LinesInv'
<1>1. CASE ReadChunk
  BY <1>1, ReadKeeps
<1>2. CASE TakeSegment
  <2>1. NextNewline \in 1..(Len(chunk) + 1) /\ Len(chunk) \in Nat
    BY NewlineTyped DEF LinesInv
  <2>2. CASE NextNewline > Len(chunk)
    BY <1>2, <2>2, TakeRestKeeps
  <2>3. CASE NextNewline <= Len(chunk)
    BY <1>2, <2>3, TakeLineKeeps
  <2>4. QED
    BY <2>1, <2>2, <2>3
<1>3. CASE Finish
  BY <1>3, FinishKeeps
<1>4. CASE UNCHANGED lineVars
  <2>1. /\ input' = input /\ unread' = unread /\ chunk' = chunk /\ buffered' = buffered
        /\ overflow' = overflow /\ lines' = lines
    BY <1>4 DEF lineVars
  <2>2. Typed' /\ RestIsTheInput' /\ Position' = Position
    BY <2>1 DEF LinesInv, Typed, RestIsTheInput, Position
  <2>3. YieldedInOrder'
    BY <2>1, ReferenceStays DEF LinesInv, YieldedInOrder
  <2>4. PICK s \in Cuts : Start(s)
    BY DEF LinesInv
  <2>5. Start(s)'
    BY <2>1, <2>2, <2>4, ReferenceStays DEF Start, Done, Holds
  <2>6. QED
    BY <2>1, <2>2, <2>3, <2>5, ReferenceStays DEF LinesInv
<1>5. QED
  BY <1>1, <1>2, <1>3, <1>4 DEF LinesNext

\* The strengthening, for every output, every limit and every chunking.
THEOREM LinesInvariant == LinesSpec => []LinesInv
<1>1. LinesInit => LinesInv
  BY LinesInvInit
<1>2. LinesInv /\ [LinesNext]_lineVars => LinesInv'
  BY LinesInvNext
<1>3. QED
  BY <1>1, <1>2, PTL DEF LinesSpec

\* However the pipe cuts the bytes, the lines are those of the whole input.
THEOREM LinesAreTheWhole == LinesSpec => []LinesOfTheWhole
<1>1. LinesInv => LinesOfTheWhole
  <2> SUFFICES ASSUME LinesInv PROVE LinesOfTheWhole
    OBVIOUS
  <2>1. PICK s \in Cuts : Start(s)
    BY DEF LinesInv
  <2>2. /\ Typed /\ Cardinality(Before(s)) = Len(lines) /\ Len(lines) \in Nat
        /\ DOMAIN lines = 1..Len(lines) /\ IsFiniteSet(Cuts) /\ Cardinality(Cuts) \in Nat
        /\ Len(input) \in Nat /\ s \in 0..(Len(input) + 1)
    BY <2>1, CutsTyped DEF LinesInv, Typed, Start
  <2>3. Len(lines) <= Cardinality(Cuts) - 1
    <3>1. Before(s) \subseteq Cuts /\ s \in Cuts /\ s \notin Before(s)
      BY <2>2 DEF Before
    <3>2. /\ Cardinality(Before(s)) <= Cardinality(Cuts)
          /\ Cardinality(Before(s)) # Cardinality(Cuts)
      BY <2>2, <3>1, FS_Subset
    <3>3. QED
      BY <2>2, <3>2
  <2> DEFINE Values == {Whole[i] : i \in 1..(Cardinality(Cuts) - 1)}
  <2>4. Whole \in Seq(Values) /\ Len(Whole) = Cardinality(Cuts) - 1
    BY <2>2, <2>3 DEF Whole
  <2>5. lines \in Seq(Line) /\ \A i \in 1..Len(lines) : lines[i] = Whole[i]
    BY <2>2 DEF LinesInv, Typed, YieldedInOrder
  <2> HIDE DEF Values
  <2>6. IsPrefix(lines, Whole)
    BY <2>3, <2>4, <2>5, PrefixByElements
  <2>7. ASSUME Done PROVE lines = Whole
    <3>1. ASSUME NEW d \in Cuts PROVE d <= s
      <4>1. d \in 0..(Len(input) + 1)
        BY <2>2, CutsTyped
      <4>2. CASE s = Len(input) + 1
        BY <4>1, <4>2
      <4>3. CASE s # Len(input) + 1
        <5>1. Position = Len(input) /\ buffered = <<>> /\ overflow = 0 /\ Len(buffered) = 0
          BY <2>2, <2>7, PositionTyped DEF LinesInv, Done
        <5>2. s = Len(input) /\ \A e \in Cuts : e > s => e > Len(input)
          BY <2>1, <2>2, <4>3, <5>1 DEF Start, Holds
        <5>3. Len(input) + 1 \notin Cuts
          BY <2>2, <5>2, CutsTyped
        <5>4. QED
          BY <2>2, <4>1, <5>2, <5>3
      <4>4. QED
        BY <4>2, <4>3
    <3>2. Before(s) = Cuts \ {s}
      <4>1. \A d \in Cuts : d \in Nat
        BY <2>2, CutsTyped
      <4>2. \A d \in Cuts : d < s <=> d # s
        BY <2>2, <3>1, <4>1
      <4>3. QED
        BY <4>2 DEF Before
    <3>3. Cardinality(Cuts \ {s}) = Cardinality(Cuts) - 1
      BY <2>2, FS_RemoveElement
    <3>4. Len(lines) = Len(Whole)
      BY <2>2, <2>4, <3>2, <3>3
    <3>5. QED
      BY <2>4, <2>5, <3>4, PrefixByElements
  <2>8. QED
    BY <2>6, <2>7 DEF LinesOfTheWhole
<1>2. QED
  BY <1>1, LinesInvariant, PTL

\* "drained but never retained" (codex_exec.py:40): memory is bounded by the limit,
\* and a line being dropped keeps nothing.
Retained == Len(buffered) <= MaxLine /\ (overflow > 0 => buffered = <<>>)
THEOREM LongLinesAreNotRetained == LinesSpec => []Retained
<1>1. LinesInv => Retained
  <2> SUFFICES ASSUME LinesInv PROVE Retained
    OBVIOUS
  <2>1. PICK s \in Cuts : Start(s)
    BY DEF LinesInv
  <2>2. CASE Done
    BY <2>2, MaxLineAssumption DEF Done, Retained
  <2>3. CASE ~Done
    <3>1. Holds(s) /\ overflow \in Nat /\ Len(<<>>) = 0
      BY <2>1, <2>3 DEF Start, LinesInv, Typed
    <3>2. QED
      BY <3>1, MaxLineAssumption DEF Holds, Retained
  <2>4. QED
    BY <2>2, <2>3
<1>2. QED
  BY <1>1, LinesInvariant, PTL

===============================================================================
