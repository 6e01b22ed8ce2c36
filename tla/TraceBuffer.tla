----------------------------- MODULE TraceBuffer -----------------------------
(***************************************************************************)
(* The trace that main.c keeps in memory: messages of any length go into a *)
(* ring of bytes, which is written to a file when the device is asked for  *)
(* an address it does not have.  The trace build of all_tests has the same *)
(* code.                                                                   *)
(***************************************************************************)
EXTENDS Integers, Sequences

CONSTANTS
  Chars,
  TRACE_BUFFER_SIZE,
  MessageSize        \* the longest message: buf of traceHandler

\* A message is shorter than the ring: 1 KB at most, in 10 MB.
ASSUME TraceAssumption ==
  TRACE_BUFFER_SIZE \in Nat /\ MessageSize \in 1..TRACE_BUFFER_SIZE

VARIABLES
  traceBuffer,     \* the ring; <<>> where malloc returned NULL
  traceLocation,   \* the bytes in front of the oldest one
  recent           \* history: the last TRACE_BUFFER_SIZE bytes that were traced

traceVars == <<traceBuffer, traceLocation, recent>>

Ring == [1..TRACE_BUFFER_SIZE -> Chars]
Messages == UNION {[1..n -> Chars] : n \in 1..MessageSize}

\* malloc leaves any bytes.
TraceInit ==
  /\ traceBuffer \in Ring \cup {<<>>}
  /\ traceLocation = 0
  /\ recent = traceBuffer

\* The bytes of s from place i on are those of m.
Over(s, i, m) == SubSeq(s, 1, i) \o m \o SubSeq(s, i + Len(m) + 1, Len(s))

\* Mutant of WrapAround: the bytes stored in the tail are counted again.
WrapAroundTwice(buf) ==
  LET tail == TRACE_BUFFER_SIZE - traceLocation
  IN  /\ Len(buf) > tail
      /\ traceBuffer' = Over(Over(traceBuffer, traceLocation, SubSeq(buf, 1, tail)),
                             0, SubSeq(buf, tail + 1, Len(buf)))
      /\ traceLocation' = Len(buf)

\* The message fills the tail of the ring and goes on at the front.
WrapAround(buf) ==
  LET tail == TRACE_BUFFER_SIZE - traceLocation
  IN  /\ Len(buf) > tail
      /\ traceBuffer' = Over(Over(traceBuffer, traceLocation, SubSeq(buf, 1, tail)),
                             0, SubSeq(buf, tail + 1, Len(buf)))
      /\ traceLocation' = Len(buf) - tail

\* One that ends exactly at the end of the ring leaves traceLocation there.
StoreAtEnd(buf) ==
  /\ traceLocation + Len(buf) <= TRACE_BUFFER_SIZE
  /\ traceBuffer' = Over(traceBuffer, traceLocation, buf)
  /\ traceLocation' = traceLocation + Len(buf)

traceHandler(buf) ==
  IF traceBuffer = <<>> THEN UNCHANGED traceVars
  ELSE /\ WrapAround(buf) \/ StoreAtEnd(buf)
       /\ recent' = SubSeq(recent \o buf, Len(buf) + 1, Len(buf) + TRACE_BUFFER_SIZE)

TraceNext == \E buf \in Messages : traceHandler(buf)

TraceSpec == TraceInit /\ [][TraceNext]_traceVars

\* What the trace file gets: what is behind traceLocation, then what is before it.
writeTraceToFile ==
  SubSeq(traceBuffer, traceLocation + 1, TRACE_BUFFER_SIZE)
    \o SubSeq(traceBuffer, 1, traceLocation)

-----------------------------------------------------------------------------
\* Whenever it is written, the trace file has the latest bytes in the order they
\* were traced, none lost and none twice, however the messages wrapped around;
\* before the ring is full, what malloc left comes first.
TraceInOrder == traceBuffer # <<>> => writeTraceToFile = recent
=============================================================================
