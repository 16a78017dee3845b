----------------------------- MODULE StreamLines ------------------------------
(***************************************************************************)
(* _bounded_stream_lines (adapters/codex_exec.py): the bytes of a pipe     *)
(* arrive in chunks cut anywhere, and become lines of a bounded length.    *)
(* What may not matter is where the chunks were cut.                       *)
(*                                                                         *)
(* A definition named X_Fault, right before X, is X with a plausible bug.  *)
(***************************************************************************)
EXTENDS Integers, Sequences, SequencesExt, FiniteSets

CONSTANTS Inputs,   \* the byte sequences a worker may write
          MaxLine   \* max_line_bytes, MAX_STREAM_LINE_BYTES

CR == "\r"
LF == "\n"

ASSUME InputsAssumption == \A s \in Inputs : s \in Seq({CR, LF, "x"})
ASSUME MaxLineAssumption == MaxLine \in Nat \ {0}

VARIABLES
  input,     \* everything the worker writes
  unread,    \* what is still in the pipe
  chunk,     \* what is left of the chunk just read
  buffered,  \* the line so far
  overflow,  \* its length once it is too long to be kept, or 0
  lines      \* what was yielded: [line, size], with Dropped for a long line

lineVars == <<input, unread, chunk, buffered, overflow, lines>>

Dropped == <<"dropped">>

LinesInit ==
  /\ input \in Inputs /\ unread = input
  /\ chunk = <<>> /\ buffered = <<>> /\ overflow = 0 /\ lines = <<>>

\* reader.read(STREAM_READ_BYTES) returns any non-empty part of the pipe.
ReadChunk ==
  /\ chunk = <<>> /\ unread # <<>>
  /\ \E n \in DOMAIN unread :
       chunk' = SubSeq(unread, 1, n) /\ unread' = SubSeq(unread, n + 1, Len(unread))
  /\ UNCHANGED <<input, buffered, overflow, lines>>

WithoutCR(line) == IF line # <<>> /\ Last(line) = CR THEN Front(line) ELSE line

\* What a finished line yields.
Yield(line, size) ==
  IF size > 0 THEN [line |-> Dropped, size |-> size]
  ELSE [line |-> WithoutCR(line), size |-> Len(WithoutCR(line))]

\* The place of the next newline in the chunk, or the place after its end.
NextNewline ==
  IF \E i \in DOMAIN chunk : chunk[i] = LF
  THEN CHOOSE i \in DOMAIN chunk : chunk[i] = LF /\ \A j \in 1..(i - 1) : chunk[j] # LF
  ELSE Len(chunk) + 1

\* The chunk up to its next newline joins the line, which then has this size, or
\* is only counted when it is long.
Take(size, long) ==
  LET line == IF long THEN <<>> ELSE buffered \o SubSeq(chunk, 1, NextNewline - 1)
      counted == IF long THEN size ELSE 0
  IN
  /\ chunk # <<>>
  /\ chunk' = SubSeq(chunk, NextNewline + 1, Len(chunk))
  /\ IF NextNewline > Len(chunk)
     THEN buffered' = line /\ overflow' = counted /\ UNCHANGED lines
     ELSE lines' = Append(lines, Yield(line, counted)) /\ buffered' = <<>> /\ overflow' = 0
  /\ UNCHANGED <<input, unread>>

\* A line that grows beyond the limit is only counted from then on.
TakeSegment_ForgetsOverflow ==
  LET size == Len(buffered) + NextNewline - 1 IN Take(size, size > MaxLine)
TakeSegment ==
  LET size == (IF overflow > 0 THEN overflow ELSE Len(buffered)) + NextNewline - 1
  IN Take(size, overflow > 0 \/ size > MaxLine)

\* At the end of the pipe a last line without a newline is yielded too.
Finish ==
  /\ chunk = <<>> /\ unread = <<>>
  /\ buffered # <<>> \/ overflow > 0
  /\ lines' = Append(lines, Yield(buffered, overflow))
  /\ buffered' = <<>> /\ overflow' = 0
  /\ UNCHANGED <<input, unread, chunk>>

Done == chunk = <<>> /\ unread = <<>> /\ buffered = <<>> /\ overflow = 0

LinesNext == ReadChunk \/ TakeSegment \/ Finish \/ (Done /\ UNCHANGED lineVars)

LinesSpec == LinesInit /\ [][LinesNext]_lineVars

-------------------------------------------------------------------------------
\* Reference: the lines of the whole input, cut at its newlines at once.
Cuts == {0} \cup {i \in DOMAIN input : input[i] = LF}
             \cup (IF input # <<>> /\ Last(input) # LF THEN {Len(input) + 1} ELSE {})
Before(c) == {d \in Cuts : d < c}
Cut(i) == CHOOSE c \in Cuts : Cardinality(Before(c)) = i
Text(i) == SubSeq(input, Cut(i - 1) + 1, Cut(i) - 1)
Long(i) == IF Len(Text(i)) > MaxLine THEN Len(Text(i)) ELSE 0
Whole == [i \in 1..(Cardinality(Cuts) - 1) |-> Yield(Text(i), Long(i))]

\* However the pipe cuts the bytes into chunks, the lines are those of the
\* whole input: none is lost, split or joined, a line that is too long is
\* dropped alone and counted in full, and the lines after it are intact.
LinesOfTheWhole == IF Done THEN lines = Whole ELSE IsPrefix(lines, Whole)

===============================================================================
