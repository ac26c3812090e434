---------------------------- MODULE FrameAssembler --------------------------
(***************************************************************************)
(* FrameAssembler of src/connection.rs: the frames in a stream of bytes    *)
(* that arrives in notifications, cut wherever the radio cut it, with      *)
(* noise, damaged frames and halves of frames in between.                  *)
(*                                                                         *)
(* A frame is a header byte, two bytes of size, the payload and its        *)
(* checksum.  feed hands out an iterator, and one action here is one turn  *)
(* of the loop inside it; its consumer may stop before it is exhausted, as *)
(* next_matching_frame does when it has its frame.                         *)
(*                                                                         *)
(* A definition X_Y is X with the mistake Y in it, as in AgentClaim.       *)
(***************************************************************************)
EXTENDS Naturals, Sequences

CONSTANTS Byte,         \* the bytes that arrive
          Header,       \* payload::HEADER
          MaxFrameLen,  \* MAX_FRAME_LEN
          Crc8(_),      \* payload::crc8
          MaxChunk,     \* bound: the bytes of a notification
          MaxFed        \* bound: the bytes that arrive between two clears

\* FRAME_OVERHEAD: the header, the size and the checksum.
Overhead == 4

ASSUME BytesAreBytes == Byte \subseteq 0..255 /\ Header \in Byte
ASSUME AFrameFits == MaxFrameLen \in Nat /\ MaxFrameLen >= Overhead
ASSUME BoundsAreNat == MaxChunk \in Nat /\ MaxFed \in Nat

VARIABLES
    buf,    \* FrameAssembler.buf
    mode,   \* the iterator: "idle", or "left" before it was exhausted, or "fed"
    fed,    \* every byte that arrived since the last clear
    gone,   \* how many of them have left the buffer
    taken   \* where in fed the frames that were handed out begin

vars == <<buf, mode, fed, gone, taken>>

TypeOK ==
    /\ buf \in Seq(Byte)
    /\ mode \in {"idle", "left", "fed"}
    /\ fed \in Seq(Byte)
    /\ gone \in 0..Len(fed)
    /\ taken \subseteq 1..gone

-----------------------------------------------------------------------------
FrameLen(s) == 256 * s[2] + s[3] + Overhead

\* Slip: no bound on what a header may declare.
TooLong_Never(s) == FALSE

TooLong(s) == FrameLen(s) > MaxFrameLen

\* Slip: the checksum is not looked at.
Intact_Always(s) == TRUE

Intact(s) == Crc8(SubSeq(s, 4, FrameLen(s) - 1)) = s[FrameLen(s)]

\* What next_frame may find with the header in place, and three bytes there.
Sized == mode = "fed" /\ Len(buf) >= 3 /\ buf[1] = Header
Fits == Sized /\ ~TooLong(buf)

\* The first n bytes leave the buffer.
Drain(n) ==
    /\ buf' = SubSeq(buf, n + 1, Len(buf))
    /\ gone' = gone + n
    /\ UNCHANGED fed

-----------------------------------------------------------------------------
\* Slip: a notification replaces what is left of the one before.
Feed_Fresh(data) ==
    /\ mode # "fed"
    /\ buf' = data /\ fed' = fed \o data
    /\ mode' = "fed"
    /\ UNCHANGED <<gone, taken>>

\* feed: a notification is appended to what is left of those before it.
Feed(data) ==
    /\ mode # "fed"
    /\ buf' = buf \o data /\ fed' = fed \o data
    /\ mode' = "fed"
    /\ UNCHANGED <<gone, taken>>

\* No header at all: everything goes, and the iterator is exhausted.
NoHeader ==
    /\ mode = "fed"
    /\ \A i \in DOMAIN buf : buf[i] # Header
    /\ Drain(Len(buf))
    /\ mode' = "idle"
    /\ UNCHANGED taken

\* What comes before the first header goes.
SkipToHeader ==
    /\ mode = "fed"
    /\ \E h \in DOMAIN buf \ {1} :
        /\ buf[h] = Header
        /\ \A i \in 1..(h - 1) : buf[i] # Header
        /\ Drain(h - 1)
    /\ UNCHANGED <<mode, taken>>

\* The size, or the rest of the frame, has not arrived yet.
Wait ==
    /\ mode = "fed"
    /\ \/ Len(buf) \in {1, 2} /\ buf[1] = Header
       \/ Fits /\ Len(buf) < FrameLen(buf)
    /\ mode' = "idle"
    /\ UNCHANGED <<buf, fed, gone, taken>>

\* Slip: the declared length is what goes.
Oversized_Whole ==
    /\ Sized /\ TooLong(buf)
    /\ Drain(FrameLen(buf))
    /\ UNCHANGED <<mode, taken>>

\* This header is no header: it alone goes, and the search resumes after it.
Oversized ==
    /\ Sized /\ TooLong(buf)
    /\ Drain(1)
    /\ UNCHANGED <<mode, taken>>

\* Slip: what was taken for a damaged frame goes as a whole.
Damaged_Whole ==
    /\ Fits /\ Len(buf) >= FrameLen(buf) /\ ~Intact(buf)
    /\ Drain(FrameLen(buf))
    /\ UNCHANGED <<mode, taken>>

Damaged ==
    /\ Fits /\ Len(buf) >= FrameLen(buf) /\ ~Intact(buf)
    /\ Drain(1)
    /\ UNCHANGED <<mode, taken>>

\* A frame, for a consumer that goes on or leaves with it.
Take ==
    /\ Fits /\ Len(buf) >= FrameLen(buf) /\ Intact(buf)
    /\ Drain(FrameLen(buf))
    /\ taken' = taken \cup {gone + 1}
    /\ mode' \in {"fed", "left"}

\* clear, on a fresh subscription.  The history starts again with it.
Clear ==
    /\ mode # "fed"
    /\ buf' = <<>> /\ fed' = <<>> /\ gone' = 0 /\ taken' = {}
    /\ mode' = "idle"

-----------------------------------------------------------------------------
Init == buf = <<>> /\ mode = "idle" /\ fed = <<>> /\ gone = 0 /\ taken = {}

\* The notifications there is room for in the bounds.
Chunks ==
    UNION {[1..n -> Byte] : n \in {k \in 1..MaxChunk : Len(fed) + k <= MaxFed}}

NextFrame ==
    NoHeader \/ SkipToHeader \/ Wait \/ Oversized \/ Damaged \/ Take

Next == (\E data \in Chunks : Feed(data)) \/ NextFrame \/ Clear

Spec == Init /\ [][Next]_vars

-----------------------------------------------------------------------------
\* What arrived, from its i-th byte on, and whether an intact frame begins it.
From(i) == SubSeq(fed, i, Len(fed))

FrameAt(i) ==
    /\ i \in DOMAIN fed /\ fed[i] = Header /\ i + 2 <= Len(fed)
    /\ FrameLen(From(i)) <= MaxFrameLen
    /\ i + FrameLen(From(i)) - 1 <= Len(fed)
    /\ Crc8(SubSeq(fed, i + 3, i + FrameLen(From(i)) - 2))
         = fed[i + FrameLen(From(i)) - 1]

\* The bytes that a frame beginning at i takes up.
Span(i) == i..(i + FrameLen(From(i)) - 1)

\* No byte is lost, repeated or moved between two notifications: the buffer is
\* what has arrived without what has left it.
Remainder == buf = SubSeq(fed, gone + 1, Len(fed))

\* What is handed out are intact frames of the stream, no byte of which is in
\* two of them or still in the buffer.
OnlyFrames ==
    \A i \in taken :
        /\ FrameAt(i) /\ Span(i) \subseteq 1..gone
        /\ \A j \in taken \ {i} : Span(i) \cap Span(j) = {}

\* Resynchronizing never costs a frame: an intact one whose first byte has left
\* the buffer was handed out, or overlaps an earlier one that was.  With
\* OnlyFrames, how the bytes were cut into notifications makes no difference.
NothingMissed ==
    \A i \in 1..gone :
        FrameAt(i) => \E j \in taken : j <= i /\ i \in Span(j)

\* "Bounds the reassembly buffer, so a desynchronized stream cannot grow it
\* without limit" (MAX_FRAME_LEN): an exhausted iterator leaves less than the
\* longest frame behind, so an intact frame waits for fewer bytes than that.
Bounded == mode = "idle" => Len(buf) < MaxFrameLen
=============================================================================
