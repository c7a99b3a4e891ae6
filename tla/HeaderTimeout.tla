---------------------------- MODULE HeaderTimeout ----------------------------
(***************************************************************************)
(* The header read timeout of a connection (crates/server/src/timeout.rs): *)
(* a stream that follows the bytes a client sends, however they are split  *)
(* into reads, and fails once the client owes the headers of a request for *)
(* too long. A byte is a record that says what it is part of; the parser   *)
(* counts bytes and looks at a frame header only once it has all of it.    *)
(***************************************************************************)
EXTENDS Integers, Sequences, SequencesExt, FiniteSetsExt

CONSTANTS
  Streams,          \* what clients send: [matching, frames], see Bytes
  PrefaceLen,       \* the length of H2_PREFACE (24)
  FrameHeaderLen,   \* FRAME_HEADER_LEN (9)
  HeaderWait,       \* header_read_timeout
  LastSecond        \* bound: the clock stops here

VARIABLES
  sending,     \* the client's bytes
  second,      \* the clock
  readAt,      \* when each byte read so far was read
  protocol,    \* [is, matched, headerLen, payloadLeft, endsHeaders]
  deadline,    \* while the client owes headers
  closed       \* a read failed

timeoutVars == <<sending, second, readAt, protocol, deadline, closed>>

NoDeadline == -1

\* A stream is how many bytes of the preface match, another byte if not all
\* do, and frames.
ASSUME StreamsAssumption ==
  /\ PrefaceLen \in Nat \ {0} /\ FrameHeaderLen \in Nat \ {0} /\ HeaderWait \in Nat
  /\ \A s \in Streams : /\ s.matching \in 0..PrefaceLen
                        /\ s.frames \in Seq(Range(s.frames))
                        /\ \A k \in DOMAIN s.frames : s.frames[k].len \in Nat

\* How many bytes come before the frames, and up to the end of each.
OpeningLen(s) == s.matching + (IF s.matching < PrefaceLen THEN 1 ELSE 0)
EndOf(s) ==
  LET end[k \in 0..Len(s.frames)] ==
        IF k = 0 THEN OpeningLen(s) ELSE end[k - 1] + FrameHeaderLen + s.frames[k].len
  IN  end

Bytes(s) ==
  LET end == EndOf(s)
      Number(i) == CHOOSE k \in DOMAIN s.frames : end[k - 1] < i /\ i <= end[k]
  IN  [i \in 1..end[Len(s.frames)] |->
         IF i <= s.matching THEN [is |-> "preface"]
         ELSE IF i <= OpeningLen(s) THEN [is |-> "other"]
         ELSE [is |-> "frame", number |-> Number(i), frame |-> s.frames[Number(i)],
               at |-> i - end[Number(i) - 1]]]

TimeoutInit ==
  /\ sending \in {Bytes(s) : s \in Streams}
  /\ second = 0
  /\ readAt = <<>>
  /\ protocol = [is |-> "unknown", matched |-> 0, headerLen |-> 0, payloadLeft |-> 0,
                 endsHeaders |-> FALSE]
  /\ deadline = HeaderWait
  /\ closed = FALSE

----------------------------------------------------------------------------
(* on_read *)

\* Mutant: every HEADERS frame starts the wait again.
StartsBlockAlways(frame, until) == frame.kind = "HEADERS"

StartsBlock(frame, until) == frame.kind = "HEADERS" /\ until = NoDeadline

EndsHeaders(frame) == frame.kind \in {"HEADERS", "CONTINUATION"} /\ frame.ends

\* The turns of the loop: what they make of the protocol, of the deadline (until)
\* and of the rest of the read.
FollowPreface(p, until, rest) ==
  LET len == Min({Len(rest), PrefaceLen - p.matched})
      matched == p.matched + len
  IN  IF \E i \in 1..len : rest[i].is # "preface"
      THEN [protocol |-> [p EXCEPT !.is = "http1"], deadline |-> NoDeadline, rest |-> <<>>]
      ELSE [protocol |-> [p EXCEPT !.matched = matched,
                                   !.is = IF matched = PrefaceLen THEN "http2" ELSE @],
            deadline |-> until, rest |-> SubSeq(rest, len + 1, Len(rest))]

ReadPayload(p, until, rest) ==
  LET len == Min({Len(rest), p.payloadLeft})
      whole == len = p.payloadLeft
  IN  [protocol |-> [p EXCEPT !.payloadLeft = @ - len, !.headerLen = IF whole THEN 0 ELSE @],
       deadline |-> IF whole /\ p.endsHeaders THEN NoDeadline ELSE until,
       rest |-> SubSeq(rest, len + 1, Len(rest))]

ReadHeader(p, until, rest) ==
  LET len == Min({Len(rest), FrameHeaderLen - p.headerLen})
      frame == rest[len].frame
  IN  IF p.headerLen + len < FrameHeaderLen
      THEN [protocol |-> [p EXCEPT !.headerLen = @ + len], deadline |-> until, rest |-> <<>>]
      ELSE ReadPayload([p EXCEPT !.headerLen = FrameHeaderLen, !.payloadLeft = frame.len,
                                 !.endsHeaders = EndsHeaders(frame)],
                       IF StartsBlock(frame, until) THEN second + HeaderWait ELSE until,
                       SubSeq(rest, len + 1, Len(rest)))

Turn(p, until, rest) ==
  IF rest = <<>> \/ p.is = "http1"
  THEN [protocol |-> p, deadline |-> until, rest |-> rest]
  ELSE IF p.is = "unknown" THEN FollowPreface(p, until, rest)
  ELSE IF p.headerLen < FrameHeaderLen THEN ReadHeader(p, until, rest)
  ELSE ReadPayload(p, until, rest)

\* The loop: every turn takes a byte, or is the last.
OnRead(p, until, read) ==
  LET after[n \in 0..Len(read)] ==
        IF n = 0 THEN [protocol |-> p, deadline |-> until, rest |-> read]
        ELSE Turn(after[n - 1].protocol, after[n - 1].deadline, after[n - 1].rest)
  IN  after[Len(read)]

----------------------------------------------------------------------------

Expired(until) == until # NoDeadline /\ second >= until

\* poll_read: checked after reads which return bytes too.
PollRead(count) ==
  /\ ~closed
  /\ Len(readAt) + count <= Len(sending)
  /\ LET read == SubSeq(sending, Len(readAt) + 1, Len(readAt) + count)
         now == OnRead(protocol, deadline, read)
     IN /\ protocol' = now.protocol
        /\ deadline' = now.deadline
        /\ closed' = Expired(now.deadline)
        /\ readAt' = readAt \o [i \in 1..count |-> second]
  /\ UNCHANGED <<sending, second>>

SecondPasses ==
  /\ second < LastSecond
  /\ second' = second + 1
  /\ UNCHANGED <<sending, readAt, protocol, deadline, closed>>

\* A read that waits fails when the deadline passes.
WaitExpires ==
  /\ ~closed /\ Expired(deadline)
  /\ closed' = TRUE
  /\ UNCHANGED <<sending, second, readAt, protocol, deadline>>

TimeoutNext ==
  \/ \E count \in 1..Len(sending) : PollRead(count)
  \/ SecondPasses
  \/ WaitExpires

TimeoutSpec == TimeoutInit /\ [][TimeoutNext]_timeoutVars

----------------------------------------------------------------------------
(* Properties *)

\* What the comment of HeaderTimeout says, of the bytes read as a whole: those
\* of the frames k whose bytes up to `at` are all read.
ReadUpTo(k, at) ==
  \E i \in 1..Len(readAt) : /\ sending[i].is = "frame"
                            /\ sending[i].number = k /\ sending[i].at = at
FrameOf(k) ==
  LET i == CHOOSE i \in 1..Len(sending) : sending[i].is = "frame" /\ sending[i].number = k
  IN sending[i].frame
FramesSent == {sending[i].number : i \in {i \in 1..Len(sending) : sending[i].is = "frame"}}
BlockEnds == {k \in FramesSent : FrameOf(k).kind \in {"HEADERS", "CONTINUATION"} /\ FrameOf(k).ends
                                 /\ ReadUpTo(k, FrameHeaderLen + FrameOf(k).len)}
BlockStarts == {k \in FramesSent : FrameOf(k).kind = "HEADERS" /\ ReadUpTo(k, FrameHeaderLen)}
StartedAt(k) ==
  LET i == CHOOSE i \in 1..Len(readAt) :
             sending[i].is = "frame" /\ sending[i].number = k /\ sending[i].at = FrameHeaderLen
  IN readAt[i]

\* From the connection being accepted until the protocol is told or the first
\* header block arrived whole, then from the start of each later header block
\* until it did.
OwedUntil ==
  LET open == {k \in BlockStarts : \A e \in BlockEnds : e < k}
  IN CASE \E i \in 1..Len(readAt) : sending[i].is = "other" -> NoDeadline
       [] OTHER -> IF BlockEnds = {} THEN HeaderWait
                   ELSE IF open = {} THEN NoDeadline
                   ELSE StartedAt(Min(open)) + HeaderWait

\* However the bytes are split into reads, the deadline is the one the bytes
\* call for, and no read returns bytes after it while headers are owed.
DeadlineFollowsBytes ==
  ~closed => /\ deadline = OwedUntil
             /\ readAt # <<>> /\ OwedUntil # NoDeadline => Last(readAt) < OwedUntil
==============================================================================
