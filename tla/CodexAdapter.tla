----------------------------- MODULE CodexAdapter -----------------------------
(***************************************************************************)
(* One `codex exec --json` worker (adapters/codex_exec.py): the child      *)
(* process, the two coroutines that read its pipes, the one that waits for *)
(* it under the attempt's timeout, the bounded queue between them, and the *)
(* attempt's coroutine that consumes the events (service.py                *)
(* _execute_attempt).  _terminate may be under way in several of them at   *)
(* once.  Time is abstract: a timeout may fire whenever what it waits for  *)
(* has not happened.                                                       *)
(*                                                                         *)
(* A definition named X_Fault, right before X, is X with a plausible bug.  *)
(***************************************************************************)
EXTENDS Integers, Sequences, SequencesExt

CONSTANTS
  Lines,        \* the kinds of lines the child may write to stdout
  MaxLines,     \* bound on the lines it writes
  PipeSize,     \* lines the stdout pipe holds (64 KiB)
  QueueSize,    \* asyncio.Queue(maxsize=1000)
  Helpers,      \* what the child may leave behind: "none", "group", "detached"
  Environment   \* which of the events below the instance lets happen

LineKinds == {"thread.started", "item", "turn.completed", "error", "garbage", "oversized"}
Events == {"cancel", "ingest_error", "read_error"}

ASSUME LinesAssumption == Lines \subseteq LineKinds /\ MaxLines \in Nat
ASSUME SizesAssumption == PipeSize \in Nat \ {0} /\ QueueSize \in Nat \ {0}
ASSUME HelpersAssumption == Helpers \subseteq {"none", "group", "detached"}
ASSUME EnvironmentAssumption == Environment \subseteq Events

Readers == {"stdout", "stderr"}
Actors == Readers \cup {"waiter", "consumer"}

VARIABLES
  child,       \* the process: running, or how it ended
  helper,      \* a descendant that still holds the pipes
  signalled,   \* SIGTERM was sent to the process group
  pipe,        \* lines in the stdout pipe
  queue,       \* running.queue
  held,        \* the event _read_stdout is about to put
  pc,          \* where each coroutine awaits
  received,    \* the events of the child's lines the consumer took from the queue
  notices,     \* the adapter's own events it took from there
  written,     \* history: every line the child wrote
  cutShort     \* history: the readers were cancelled after the grace period

vars == <<child, helper, signalled, pipe, queue, held, pc, received, notices, written, cutShort>>

-------------------------------------------------------------------------------
\* parse_codex_line and oversized_codex_line: the event a line becomes.
Parsed(line) ==
  CASE line = "thread.started" -> "started"
    [] line = "turn.completed" -> "completed"
    [] line = "error" -> "failed"
    [] line = "item" -> "activity"
    [] OTHER -> "raw"

\* The events the adapter makes itself, and the end of the stream.
Timeout == "turn.failed by timeout"
ReadFailed == "stream.read_failed"
End == "None"
Made == {Timeout, ReadFailed, End}

Running == child = "running"
HasRoom == Len(queue) < QueueSize
AtEof == pipe = <<>> /\ ~Running /\ helper = "none"
Settle(who, place) == pc' = [pc EXCEPT ![who] = place]

\* start: the child and the three coroutines, with an empty queue.
Init ==
  /\ child = "running" /\ helper \in Helpers /\ signalled = FALSE
  /\ pipe = <<>> /\ queue = <<>> /\ held = End
  /\ pc = [who \in Actors |->
       CASE who \in Readers -> "reading" [] who = "waiter" -> "waiting"
         [] who = "consumer" -> "getting"]
  /\ received = <<>> /\ notices = {} /\ written = <<>> /\ cutShort = FALSE

-------------------------------------------------------------------------------
\* The child blocks while the pipe is full.
ChildWrites ==
  /\ Running /\ Len(pipe) < PipeSize /\ Len(written) < MaxLines
  /\ \E line \in Lines :
       pipe' = Append(pipe, line) /\ written' = Append(written, line)
  /\ UNCHANGED <<child, helper, signalled, queue, held, pc, received, notices, cutShort>>

ChildExits ==
  /\ Running
  /\ child' \in {"exit 0", "exit 1"} \cup IF signalled THEN {"terminated"} ELSE {}
  /\ UNCHANGED <<helper, signalled, pipe, queue, held, pc, received, notices, written, cutShort>>

\* A descendant ends by itself or because of the group's SIGTERM.
HelperExits ==
  /\ helper # "none"
  /\ helper' = "none"
  /\ UNCHANGED <<child, signalled, pipe, queue, held, pc, received, notices, written, cutShort>>

-------------------------------------------------------------------------------
\* _terminate, in whichever coroutine calls it: nothing for a process that
\* has ended; otherwise SIGTERM to its group, ...
AfterTerminate(who) ==
  CASE who \in Readers -> "done" [] who = "waiter" -> "marking"
    [] who = "consumer" -> "cancelled"

SendTerm(who) ==
  /\ pc[who] = "terminating"
  /\ signalled' = (signalled \/ Running)
  /\ Settle(who, IF Running THEN "grace" ELSE AfterTerminate(who))
  /\ UNCHANGED <<child, helper, pipe, queue, held, received, notices, written, cutShort>>

\* ... and, when the grace period ends first, SIGKILL to its group.
AwaitDeath_NoKill(who) ==
  /\ pc[who] = "grace"
  /\ Settle(who, AfterTerminate(who))
  /\ UNCHANGED <<child, helper, signalled, pipe, queue, held, received, notices, written, cutShort>>
AwaitDeath(who) ==
  /\ pc[who] = "grace"
  /\ child' = IF Running THEN "killed" ELSE child
  /\ helper' = IF Running /\ helper = "group" THEN "none" ELSE helper
  /\ Settle(who, AfterTerminate(who))
  /\ UNCHANGED <<signalled, pipe, queue, held, received, notices, written, cutShort>>

-------------------------------------------------------------------------------
\* _read_stdout: a line becomes an event, which waits for room in the queue.
ReadLine ==
  /\ pc["stdout"] = "reading" /\ pipe # <<>>
  /\ held' = Parsed(Head(pipe)) /\ pipe' = Tail(pipe)
  /\ Settle("stdout", "putting")
  /\ UNCHANGED <<child, helper, signalled, queue, received, notices, written, cutShort>>

PutEvent_DropsWhenFull ==
  /\ pc["stdout"] = "putting"
  /\ queue' = IF HasRoom THEN Append(queue, held) ELSE queue
  /\ held' = End
  /\ Settle("stdout", "reading")
  /\ UNCHANGED <<child, helper, signalled, pipe, received, notices, written, cutShort>>
PutEvent ==
  /\ pc["stdout"] = "putting" /\ HasRoom
  /\ queue' = Append(queue, held)
  /\ held' = End
  /\ Settle("stdout", "reading")
  /\ UNCHANGED <<child, helper, signalled, pipe, received, notices, written, cutShort>>

ReachEof(r) ==
  /\ pc[r] = "reading" /\ AtEof
  /\ Settle(r, "done")
  /\ UNCHANGED <<child, helper, signalled, pipe, queue, held, received, notices, written, cutShort>>

\* Reading, or appending to the artifact file, raises.
ReadRaises(r) ==
  /\ "read_error" \in Environment
  /\ pc[r] = "reading"
  /\ Settle(r, "reporting")
  /\ UNCHANGED <<child, helper, signalled, pipe, queue, held, received, notices, written, cutShort>>

ReportFailure(r) ==
  /\ pc[r] = "reporting" /\ HasRoom
  /\ queue' = Append(queue, ReadFailed)
  /\ Settle(r, "terminating")
  /\ UNCHANGED <<child, helper, signalled, pipe, held, received, notices, written, cutShort>>

-------------------------------------------------------------------------------
\* _wait: the child ends, or the attempt's timeout terminates it and leaves a
\* marker in the queue.
ChildIsDone ==
  /\ pc["waiter"] = "waiting" /\ ~Running
  /\ Settle("waiter", "gathering")
  /\ UNCHANGED <<child, helper, signalled, pipe, queue, held, received, notices, written, cutShort>>

TimesOut ==
  /\ pc["waiter"] = "waiting" /\ Running
  /\ Settle("waiter", "terminating")
  /\ UNCHANGED <<child, helper, signalled, pipe, queue, held, received, notices, written, cutShort>>

MarkTimeout ==
  /\ pc["waiter"] = "marking" /\ HasRoom
  /\ queue' = Append(queue, Timeout)
  /\ Settle("waiter", "gathering")
  /\ UNCHANGED <<child, helper, signalled, pipe, held, received, notices, written, cutShort>>

ReadersDone == \A r \in Readers : pc[r] = "done"

GatherReaders_OnlyStderr ==
  /\ pc["waiter"] = "gathering" /\ pc["stderr"] = "done"
  /\ Settle("waiter", "closing")
  /\ UNCHANGED <<child, helper, signalled, pipe, queue, held, received, notices, written, cutShort>>
GatherReaders ==
  /\ pc["waiter"] = "gathering" /\ ReadersDone
  /\ Settle("waiter", "closing")
  /\ UNCHANGED <<child, helper, signalled, pipe, queue, held, received, notices, written, cutShort>>

\* The readers get a grace period of their own; then they are cancelled
\* wherever they await, with the event one of them holds.
CutReadersShort_Never == FALSE
CutReadersShort ==
  /\ pc["waiter"] = "gathering" /\ ~ReadersDone
  /\ pc' = [pc EXCEPT !["stdout"] = "done", !["stderr"] = "done", !["waiter"] = "closing"]
  /\ held' = End
  /\ cutShort' = TRUE
  /\ UNCHANGED <<child, helper, signalled, pipe, queue, received, notices, written>>

CloseStream ==
  /\ pc["waiter"] = "closing" /\ HasRoom
  /\ queue' = Append(queue, End)
  /\ Settle("waiter", "done")
  /\ UNCHANGED <<child, helper, signalled, pipe, held, received, notices, written, cutShort>>

-------------------------------------------------------------------------------
\* events() and the loop of _execute_attempt over it.
Consume ==
  /\ pc["consumer"] = "getting" /\ queue # <<>>
  /\ queue' = Tail(queue)
  /\ IF Head(queue) = End THEN Settle("consumer", "ended") ELSE UNCHANGED pc
  /\ received' = IF Head(queue) \in Made THEN received ELSE Append(received, Head(queue))
  /\ notices' = notices \cup ({Head(queue)} \cap {Timeout, ReadFailed})
  /\ UNCHANGED <<child, helper, signalled, pipe, held, written, cutShort>>

\* The attempt is cancelled: adapter.cancel terminates the child, and nobody
\* takes events from the queue any more.
CancelAttempt ==
  /\ "cancel" \in Environment
  /\ pc["consumer"] = "getting"
  /\ Settle("consumer", "terminating")
  /\ UNCHANGED <<child, helper, signalled, pipe, queue, held, received, notices, written, cutShort>>

\* Persisting an event raises: the loop is left without adapter.cancel.
IngestRaises ==
  /\ "ingest_error" \in Environment
  /\ pc["consumer"] = "getting" /\ queue # <<>> /\ Head(queue) # End
  /\ queue' = Tail(queue)
  /\ Settle("consumer", "raised")
  /\ UNCHANGED <<child, helper, signalled, pipe, held, received, notices, written, cutShort>>

-------------------------------------------------------------------------------
Settled ==
  /\ ~Running /\ pc["consumer"] \in {"ended", "cancelled", "raised"}
  /\ UNCHANGED vars

Terminating(who) == SendTerm(who) \/ AwaitDeath(who)
Reading ==
  \/ ReadLine \/ PutEvent
  \/ \E r \in Readers : ReachEof(r) \/ ReportFailure(r)
Waiting == ChildIsDone \/ TimesOut \/ MarkTimeout \/ GatherReaders
           \/ CutReadersShort \/ CloseStream

Next ==
  \/ ChildWrites \/ ChildExits \/ HelperExits
  \/ \E who \in Actors : Terminating(who)
  \/ Reading \/ \E r \in Readers : ReadRaises(r)
  \/ Waiting
  \/ Consume \/ CancelAttempt \/ IngestRaises
  \/ Settled

Spec == Init /\ [][Next]_vars

\* The event loop runs every coroutine that can go on, and timers fire; the
\* child need not exit and a descendant need not let go of the pipes.
FairSpec ==
  /\ Spec
  /\ \A who \in Actors : WF_vars(Terminating(who))
  /\ WF_vars(ReadLine \/ PutEvent \/ ReachEof("stdout") \/ ReportFailure("stdout"))
  /\ WF_vars(ReachEof("stderr") \/ ReportFailure("stderr"))
  /\ WF_vars(Waiting) /\ WF_vars(Consume)

-------------------------------------------------------------------------------
EventTypes == {"started", "completed", "failed", "activity", "raw"} \cup Made

\* Types of the pipe, the queue, what was read and the coroutines' places.
TypeOK ==
  /\ child \in {"running", "exit 0", "exit 1", "terminated", "killed"}
  /\ helper \in {"none", "group", "detached"}
  /\ pipe \in Seq(Lines) /\ Len(pipe) <= PipeSize
  /\ queue \in Seq(EventTypes) /\ Len(queue) <= QueueSize
  /\ held \in EventTypes
  /\ pc \in [Actors -> {"reading", "putting", "reporting", "done", "waiting", "marking",
                        "gathering", "closing", "terminating", "grace", "getting",
                        "ended", "cancelled", "raised"}]
  /\ received \in Seq(EventTypes \ Made) /\ notices \subseteq {Timeout, ReadFailed}
  /\ written \in Seq(Lines)
  /\ signalled \in BOOLEAN /\ cutShort \in BOOLEAN

Translated == [i \in DOMAIN written |-> Parsed(written[i])]
Completed == "completed" \in Range(received)

\* Whatever is cancelled or times out, the consumer sees the child's lines in
\* their order and without a gap: only a tail of them can be missing.  An
\* attempt counts as completed only if the child said so.
PrefixInOrder ==
  /\ IsPrefix(received, Translated)
  /\ Completed => "turn.completed" \in Range(written)

\* The end marker is the last thing in the queue, and once it is there the
\* child and the readers have ended: nobody writes to the worktree the
\* verifier is about to read through this child.
EndIsTheEnd ==
  (End \in Range(queue) \/ pc["consumer"] = "ended") =>
    /\ ~Running /\ ReadersDone /\ pc["waiter"] = "done"
    /\ \A i \in DOMAIN queue : queue[i] = End => i = Len(queue)

\* What comes out of the queue is what went into the pipe, up to the marker
\* that ends both.
StreamConsistent == TypeOK /\ PrefixInOrder /\ EndIsTheEnd

\* A stream that ended has delivered everything the child wrote, unless a
\* reader raised or the readers' grace period ran out.
NothingLostInTime ==
  pc["consumer"] = "ended" /\ ~cutShort /\ ReadFailed \notin notices =>
    received = Translated

\* When the cancellation of an attempt returns, its child is dead, and a
\* timeout marker in the stream means that it is.
CancelledChildIsDead ==
  (pc["consumer"] = "cancelled" \/ Timeout \in Range(queue) \cup notices) => ~Running

\* A consumer that keeps reading gets to the end of the stream, even if the
\* child hangs, ignores SIGTERM or leaves a descendant with the pipes.
StreamEnds ==
  (pc["consumer"] = "getting") ~> (pc["consumer"] \in {"ended", "cancelled", "raised"})

===============================================================================
