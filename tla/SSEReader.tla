----------------------------- MODULE SSEReader -----------------------------
(***************************************************************************)
(* readSSE and readSSELine in internal/proxy/sse.go: a stream of lines is  *)
(* cut into frames at blank lines.  A line or a frame over its cap is      *)
(* never buffered: the frame it belongs to is skipped and reported, once   *)
(* per stream.  Monitor mode forwards every line as it is read; block mode *)
(* stops at the first report.                                              *)
(*                                                                         *)
(* A line is its length and whether it is blank; frames are made of the    *)
(* numbers of their lines.                                                 *)
(***************************************************************************)
EXTENDS Naturals, Sequences, FiniteSets

CONSTANTS
  MaxSSELine,    \* maxSSELine
  MaxSSEFrame,   \* maxSSEFrame
  Sizes,         \* lengths of the lines the upstream sends
  MaxLines       \* bound on the lines the upstream sends

ASSUME CapAssumption ==
  MaxSSELine \in Nat \ {0} /\ MaxSSEFrame \in Nat /\ MaxSSELine <= MaxSSEFrame
ASSUME SizeAssumption == Sizes \subseteq Nat \ {0} /\ MaxLines \in Nat

VARIABLES
  monitor,    \* the mode of the request: TRUE monitor, FALSE block
  lines,      \* history: the lines read so far
  offset,     \* history: the bytes of the stream up to the end of each of them
  raw,        \* the lines of the frame being collected
  rawLen,     \* raw.Len()
  skipFrame,
  told,       \* calls of onOversized
  events,     \* frames given to onEvent, in order
  stage       \* "reading", "ended" (upstream at its end), "stopped" (a callback
              \* returned an error)

readerVars == <<monitor, lines, offset, raw, rawLen, skipFrame, told, events, stage>>

Line == [blank : BOOLEAN, size : Sizes]

-----------------------------------------------------------------------------

\* The number of the line being read.
Number == Len(lines) + 1

\* The bytes of the first k lines.
UpTo(k) == IF k = 0 THEN 0 ELSE offset[k]

Take(l) ==
  /\ stage = "reading"
  /\ Len(lines) < MaxLines
  /\ lines' = Append(lines, l)
  /\ offset' = Append(offset, UpTo(Len(lines)) + l.size)
  /\ UNCHANGED monitor

Oversized(l) == l.size > MaxSSELine

Discard == raw' = <<>> /\ rawLen' = 0

\* The first overflow is reported, and in block mode ends the reading.
ReportOnce ==
  IF told = 0
  THEN told' = 1 /\ stage' = IF monitor THEN "reading" ELSE "stopped"
  ELSE UNCHANGED <<told, stage>>

\* onEvent may return an error in block mode, where it writes to the client.
Callback == stage' \in {"reading"} \cup (IF monitor THEN {} ELSE {"stopped"})

\* A line over the cap: it is drained, and its frame skipped.
OverlongLine(l) ==
  /\ Take(l)
  /\ Oversized(l)
  /\ Discard
  /\ skipFrame' = TRUE
  /\ ReportOnce
  /\ UNCHANGED events

\* Mutant: only the line after the overflow is skipped.
SkipOneLine(l) ==
  /\ Take(l)
  /\ ~Oversized(l) /\ skipFrame
  /\ skipFrame' = FALSE
  /\ UNCHANGED <<raw, rawLen, told, events, stage>>

\* The rest of a skipped frame, with the blank line that ends it.
SkipLine(l) ==
  /\ Take(l)
  /\ ~Oversized(l) /\ skipFrame
  /\ skipFrame' = ~l.blank
  /\ UNCHANGED <<raw, rawLen, told, events, stage>>

\* A blank line completes the frame; it does not count against the cap.
Separate(l) ==
  /\ Take(l)
  /\ ~Oversized(l) /\ ~skipFrame /\ l.blank
  /\ events' = Append(events, Append(raw, Number))
  /\ Discard
  /\ Callback
  /\ UNCHANGED <<skipFrame, told>>

\* Mutant: the line itself is not counted.
OverflowsLate(l) == rawLen > MaxSSEFrame

Overflows(l) == rawLen + l.size > MaxSSEFrame

OverlongFrame(l) ==
  /\ Take(l)
  /\ ~Oversized(l) /\ ~skipFrame /\ ~l.blank
  /\ Overflows(l)
  /\ Discard
  /\ skipFrame' = TRUE
  /\ ReportOnce
  /\ UNCHANGED events

Collect(l) ==
  /\ Take(l)
  /\ ~Oversized(l) /\ ~skipFrame /\ ~l.blank
  /\ ~Overflows(l)
  /\ raw' = Append(raw, Number)
  /\ rawLen' = rawLen + l.size
  /\ UNCHANGED <<skipFrame, told, events, stage>>

\* What is left in the buffer is delivered as the last frame.
Flush == events' = IF rawLen = 0 THEN events ELSE Append(events, raw)

\* Mutant: what is left is not delivered.
EndUnflushed ==
  /\ stage = "reading"
  /\ stage' = "ended"
  /\ Discard
  /\ UNCHANGED <<monitor, lines, offset, skipFrame, told, events>>

\* The upstream body ends, or reading it fails, perhaps within a line.
EndOfStream ==
  /\ stage = "reading"
  /\ stage' = "ended"
  /\ Flush
  /\ Discard
  /\ UNCHANGED <<monitor, lines, offset, skipFrame, told>>

\* Monitor: the client takes no more of a line.  An overlong line is reported
\* even so, and what was collected before is still inspected.
ClientGone(l) ==
  /\ monitor
  /\ Take(l)
  /\ stage' = "stopped"
  /\ Discard
  /\ \/ /\ Flush
        /\ UNCHANGED <<skipFrame, told>>
     \/ /\ Oversized(l)
        /\ skipFrame' = TRUE
        /\ told' = 1
        /\ UNCHANGED events

ReaderInit ==
  /\ monitor \in BOOLEAN
  /\ lines = <<>> /\ offset = <<>> /\ raw = <<>> /\ rawLen = 0 /\ skipFrame = FALSE
  /\ told = 0 /\ events = <<>>
  /\ stage = "reading"

ReaderNext ==
  \/ \E l \in Line : \/ OverlongLine(l) \/ SkipLine(l) \/ Separate(l)
                     \/ OverlongFrame(l) \/ Collect(l) \/ ClientGone(l)
  \/ EndOfStream

ReaderSpec == ReaderInit /\ [][ReaderNext]_readerVars

-----------------------------------------------------------------------------
(* Properties *)

ReaderTypeOK ==
  /\ monitor \in BOOLEAN
  /\ lines \in Seq(Line) /\ offset \in Seq(Nat) /\ raw \in Seq(Nat)
  \* never more than a frame is held, whatever the upstream sends (sse.go:13-24)
  /\ rawLen \in 0..MaxSSEFrame
  /\ skipFrame \in BOOLEAN /\ told \in 0..1
  /\ events \in Seq(Seq(Nat))
  /\ stage \in {"reading", "ended", "stopped"}

Separator(k) == lines[k].blank /\ ~Oversized(lines[k])

\* Lines i..j are a frame of the stream: from one blank line to the next, which
\* it includes, or to the end of what was sent.
IsFrame(i, j) ==
  /\ i \in DOMAIN lines /\ j \in i..Len(lines)
  /\ i # 1 => Separator(i - 1)
  /\ \A k \in i..(j - 1) : ~Separator(k)
  /\ j # Len(lines) => Separator(j)

\* The frame is within both caps.
Size(i, j) == UpTo(j) - UpTo(i - 1) - IF Separator(j) THEN lines[j].size ELSE 0
Fits(i, j) == (\A k \in i..j : ~Oversized(lines[k])) /\ Size(i, j) <= MaxSSEFrame

Range(i, j) == [k \in 1..(j - i + 1) |-> i + k - 1]

\* Whatever was skipped before it, a delivered frame is one frame of the stream,
\* whole, within the caps and delivered once, in its turn: lines of different
\* frames are never joined, and a frame that lost a line is not delivered
\* (sse.go:70-75).  A client that left cut the last one.
FramesWhole ==
  /\ \A e \in DOMAIN events :
       \E i, j \in DOMAIN lines :
         /\ events[e] = Range(i, j)
         /\ IsFrame(i, j) \/ (stage = "stopped" /\ monitor /\ j + 1 = Len(lines))
         /\ Fits(i, j)
  /\ \A d, e \in DOMAIN events :
       d < e => events[d][Len(events[d])] < events[e][1]

\* When the stream has ended every frame within the caps was delivered, and one
\* that was not has been reported: an overflow costs its own frame and no other,
\* and it is never passed over in silence (sse.go:101-143).
NoOtherFrameLost ==
  stage = "ended" =>
    \A i, j \in DOMAIN lines :
      IsFrame(i, j) =>
        IF Fits(i, j) THEN \E e \in DOMAIN events : events[e] = Range(i, j)
                      ELSE told = 1
=============================================================================
