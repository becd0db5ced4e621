----------------------------- MODULE MediaInput -----------------------------
(***************************************************************************)
(* The sources of the published media: FileFrameGenerator ("yuv"),         *)
(* AudioFrameGenerator ("audio") and DirectVideoEncoder ("encoded") loop   *)
(* over a file and give the SDK one frame per call.  The SDK's thread is   *)
(* the only one that uses a source.                                        *)
(*                                                                         *)
(* The bytes of the file are the numbers 1..length; a frame is the         *)
(* sequence of the bytes in it, with 0 for one that is not from the file.  *)
(***************************************************************************)
EXTENDS Naturals, Sequences

LOCAL INSTANCE FiniteSetsExt

CONSTANTS
    FrameSize,      \* frame_data_size_, framesForNext10Ms_
    MaxLength,      \* bounds the file of the first two
    HeaderSize,     \* sizeof(int)
    Recordings      \* the files of the third: which frame size is written
                    \* where, and where the last frame ends

ASSUME SizesAssumption ==
    /\ FrameSize \in Nat \ {0}
    /\ MaxLength \in Nat
    /\ HeaderSize \in Nat \ {0}

\* A recording is one frame behind the other, each of them a header with the
\* size of the data and the data.
ASSUME RecordingsAssumption ==
    \A r \in Recordings :
        LET headers == DOMAIN r.sizes IN
        /\ headers \subseteq Nat /\ r.sizes \in [headers -> Nat]
        /\ r.end \in Nat
        /\ 0 \in headers \cup {r.end}
        /\ \A h \in headers :
            h + HeaderSize + r.sizes[h] \in headers \cup {r.end}

VARIABLES
    reader,
    length,     \* of the file, which may be cut off anywhere
    sizes,      \* the frame size that is written at an offset, if one is
    fd,         \* fd, fd_: "unset", "null" or "open"
    pos,        \* the offset of the file
    frame,      \* the frame of the last call
    life        \* of the source, or the process

vars == <<reader, length, sizes, fd, pos, frame, life>>

MinOf(a, b) == IF a <= b THEN a ELSE b

\* The constructors of the first two open the file, or fail to.
Init ==
    /\ \/ /\ reader \in {"yuv", "audio"}
          /\ length \in 0..MaxLength
          /\ sizes = <<>>
          /\ fd \in {"null", "open"}
       \/ /\ reader = "encoded"
          /\ \E r \in Recordings :
                sizes = r.sizes /\ length \in 0..r.end
          /\ fd = "unset"
    /\ pos = 0
    /\ frame = <<>>
    /\ life = "alive"

-----------------------------------------------------------------------------
\* What fread(.., n, fd) at the offset p returns.
Got(p, n) == MinOf(n, length - p)

\* A buffer of n bytes after reads at the offsets in ps, the last one first.
Buffer(n, ps) ==
    [i \in 1..n |->
        LET there == {j \in DOMAIN ps : i <= Got(ps[j], n)}
        IN IF there = {} THEN 0 ELSE ps[Min(there)] + i]

Delivers(f, p) ==
    /\ frame' = f
    /\ pos' = p
    /\ UNCHANGED <<reader, length, sizes, fd, life>>

\* fread(.., fd) with the null pointer that a failed fopen left in fd.
Crashes ==
    /\ life' = "crashed"
    /\ UNCHANGED <<reader, length, sizes, fd, pos, frame>>

ReadsNull == life = "alive" /\ fd = "null" /\ Crashes

\* Mutant: a frame that is cut off by the end of the file is delivered.
GenerateCutFrame ==
    /\ reader = "yuv" /\ life = "alive" /\ fd = "open"
    /\ IF Got(pos, FrameSize) # 0
       THEN Delivers(Buffer(FrameSize, <<pos>>), pos + Got(pos, FrameSize))
       ELSE Delivers(Buffer(FrameSize, <<0, pos>>), Got(0, FrameSize))

\* Mutant: the braces are missing here too.
GenerateTwice ==
    /\ reader = "yuv" /\ life = "alive" /\ fd = "open"
    /\ LET second == IF Got(pos, FrameSize) = FrameSize
                     THEN pos + FrameSize ELSE 0
       IN Delivers(Buffer(FrameSize, <<second, pos>>),
                   second + Got(second, FrameSize))

\* A short read goes back to the start and reads again.
GenerateNextFrame ==
    /\ reader = "yuv" /\ life = "alive" /\ fd = "open"
    /\ IF Got(pos, FrameSize) = FrameSize
       THEN Delivers(Buffer(FrameSize, <<pos>>), pos + FrameSize)
       ELSE Delivers(Buffer(FrameSize, <<0, pos>>), Got(0, FrameSize))

\* The if covers the fseek only: there are always two reads into the buffer.
GenerateFramesForNext10Ms ==
    /\ reader = "audio" /\ life = "alive" /\ fd = "open"
    /\ LET second == IF Got(pos, FrameSize) = FrameSize
                     THEN pos + FrameSize ELSE 0
       IN Delivers(Buffer(FrameSize, <<second, pos>>),
                   second + Got(second, FrameSize))

\* Opens the file, again at every call; the result is true even without it.
InitEncoderContext ==
    /\ reader = "encoded" /\ life = "alive"
    /\ fd' \in {"null", "open"}
    /\ pos' = 0
    /\ UNCHANGED <<reader, length, sizes, frame, life>>

\* Mutant: the size counts its own bytes too.
EncodeAt(header) ==
    LET data == header + HeaderSize
        size == sizes[header] + HeaderSize
    IN Delivers(Buffer(size, <<data>>), data + Got(data, size))

\* The frame whose header is at an offset, with what is there of its data.
EncodeFrameAt(header) ==
    LET data == header + HeaderSize
        size == sizes[header]
    IN Delivers(Buffer(size, <<data>>), data + Got(data, size))

\* A file that ends inside a header starts again; if it has no header at all,
\* the size is whatever was on the stack.
EncodeOneFrame ==
    /\ reader = "encoded" /\ life = "alive" /\ fd = "open"
    /\ LET header == IF Got(pos, HeaderSize) = HeaderSize THEN pos ELSE 0
       IN IF Got(header, HeaderSize) = HeaderSize
          THEN EncodeFrameAt(header)
          ELSE \/ \E size \in 0..FrameSize :
                    Delivers([i \in 1..size |-> 0], length)
               \/ Crashes

\* The destructors: the first closes without a test, the third tests a
\* pointer that only InitEncoderContext sets.
Destroy ==
    /\ life = "alive"
    /\ \/ life' = "destroyed"
       \/ /\ \/ reader = "yuv" /\ fd = "null"
             \/ reader = "encoded" /\ fd = "unset"
          /\ life' = "crashed"
    /\ reader = "yuv" /\ fd = "null" => life' = "crashed"
    /\ UNCHANGED <<reader, length, sizes, fd, pos, frame>>

Terminated == life # "alive" /\ UNCHANGED vars

Next ==
    \/ ReadsNull
    \/ GenerateNextFrame
    \/ GenerateFramesForNext10Ms
    \/ InitEncoderContext
    \/ EncodeOneFrame
    \/ Destroy
    \/ Terminated

Spec == Init /\ [][Next]_vars

-----------------------------------------------------------------------------
\* The n bytes after an offset.
Segment(p, n) == [i \in 1..n |-> p + i]

\* The file of pictures or samples has a frame.
HoldsFrame == reader \in {"yuv", "audio"} /\ FrameSize <= length

\* The second read for the samples ended with the file, inside a frame: what it
\* got lies over the start of the frame that the first read got.
MixesReads == reader = "audio" /\ pos = length /\ length % FrameSize # 0

\* Pictures and samples stay what they are: a frame is a frame of the file,
\* whatever follows the last whole one.  The exception is the block of samples
\* in which two reads are mixed.
FramesAreWhole ==
    frame # <<>> /\ HoldsFrame /\ ~MixesReads =>
        \E k \in 0..(length \div FrameSize) :
            frame = Segment(k * FrameSize, FrameSize)

\* The encoder never takes the data of a frame for a header: it gives the
\* data of one frame, filled up only if the file ends inside it.
EncodedInStep ==
    reader = "encoded" /\ HeaderSize <= length =>
        /\ pos \in DOMAIN sizes \cup {length}
        /\ frame # <<>> =>
            \E h \in DOMAIN sizes :
                LET there == Got(h + HeaderSize, sizes[h]) IN
                frame = Segment(h + HeaderSize, there)
                            \o [i \in 1..(sizes[h] - there) |-> 0]

\* The frame after f, in a file that is repeated.
Follows(f, g) ==
    g[1] = IF f[FrameSize] + FrameSize > length THEN 1 ELSE f[FrameSize] + 1

\* The pictures come in the order of the file, and none is left out.
VideoIsContinuous ==
    [][reader = "yuv" /\ FrameSize <= length /\ frame # <<>> /\ frame' # frame
        => Follows(frame, frame')]_vars

\* So do the samples, as "Generate frames for next 10ms." has it.
AudioIsContinuous ==
    [][reader = "audio" /\ FrameSize <= length /\ frame # <<>>
            /\ length % FrameSize = 0 /\ frame' # frame
        => Follows(frame, frame')]_vars
=============================================================================
