----------------------------- MODULE StreamImages -----------------------------
(***************************************************************************)
(* How image_streaming_app turns an image file into the bytes it streams.  *)
(* A byte is named by the sample it came from: <<x, y, channel>> of the    *)
(* picture, y counted from its top line.  A file is a record: kind (its    *)
(* extension), header (whether LoadFile accepts the header), w, h, topDown *)
(* (a negative height in the header), bits per pixel, sized (whether the   *)
(* header states the size of the picture, which it need not when nothing   *)
(* is compressed), colors (the palette entries it states) and missing      *)
(* (bytes the file is too short by).                                       *)
(***************************************************************************)
EXTENDS Integers, Sequences

Zero == <<0, 0, "zero">>
Opaque == <<0, 0, "ff">>
Padding == <<0, 0, "pad">>
Junk == <<0, 0, "junk">>        \* memory beyond a buffer
BGRA == <<"b", "g", "r", "a">>

NextDivisible(n, d) == ((n + d - 1) \div d) * d

-----------------------------------------------------------------------------
(* The pixel data of a BMP file: lines padded to four bytes, the lowest    *)
(* line of the picture first unless the height is negative.                *)

FileStride(f) == NextDivisible(f.bits * f.w, 32) \div 8
SizeImage(f) == FileStride(f) * f.h

\* A byte of several pixels is named by the first of them.
FileByte(f, k) ==
    LET line == k \div FileStride(f)
        y == IF f.topDown THEN line ELSE f.h - 1 - line
        column == k % FileStride(f)
        x == (8 * column) \div f.bits
    IN  IF x >= f.w THEN Padding
        ELSE <<x, y, CASE f.bits >= 24 -> BGRA[(column % (f.bits \div 8)) + 1]
                       [] f.bits = 16 -> IF column % 2 = 0 THEN "low" ELSE "high"
                       [] f.bits < 16 -> "index">>

-----------------------------------------------------------------------------
(* BmpFile::LoadFile                                                       *)

NoImage == [data |-> <<>>, w |-> 0, h |-> 0]

HeaderSize(f) == IF f.sized THEN SizeImage(f) ELSE 0

PaletteSize(f) ==
    IF f.bits < 16 /\ f.bits # 1 /\ f.colors = 0 THEN 2 ^ f.bits ELSE f.colors

\* The bytes LoadFile asks the file for.
DataSize(f) ==
    CASE f.bits = 32 -> f.h * f.w * 4
      [] f.bits = 16 -> f.h * f.w * 2
      [] f.bits = 8 -> IF f.sized THEN HeaderSize(f) ELSE f.h * f.w
      [] OTHER -> LET padded == f.bits = 24 /\ f.w % 4 # 0
                  IN  f.h * 3 * (IF padded THEN ((f.w + 4) \div 4) * 4 ELSE f.w)

\* read(): FALSE in ok when the file ends early; what it holds has been
\* stored all the same.
ReadData(f) ==
    LET available == SizeImage(f) - f.missing
    IN  [ok |-> DataSize(f) <= available,
         data |-> [k \in 1..DataSize(f) |->
                      IF k <= available THEN FileByte(f, k - 1) ELSE Zero]]

SampleAt(buffer, k) == IF k \in DOMAIN buffer THEN buffer[k] ELSE Junk

\* The conversions to 32 bits: pixel <<column, line>> takes its samples from
\* the scan, and is opaque.
Converted(f, scan) ==
    [k \in 1..(f.w * f.h * 4) |->
        LET pixel == (k - 1) \div 4
            word == scan[<<pixel % f.w, pixel \div f.w>>]
        IN  CASE (k - 1) % 4 = 3 -> Opaque
              [] (k - 1) % 4 # 3 /\ word = Junk -> Junk
              [] OTHER -> <<word[1], word[2], BGRA[((k - 1) % 4) + 1]>>]

\* Lines are taken to be sizeImage / height bytes long.
ScanPixels(f) == (0..(f.w - 1)) \X (0..(f.h - 1))
InputLineStart(f, y) == y * (HeaderSize(f) \div f.h)

\* Five bits of each channel, from the two bytes of the pixel.
Convert16(f, temporary) ==
    Converted(f, [p \in ScanPixels(f) |->
        SampleAt(temporary, InputLineStart(f, p[2]) + 2 * p[1] + 1)])

\* Black or white, from the bits of a byte; the first byte of each line has
\* been taken from the scan before the loop takes another for column 0.
Convert1(f, temporary) ==
    Converted(f, [p \in ScanPixels(f) |->
        LET byte == SampleAt(temporary, InputLineStart(f, p[2]) + 1 + (p[1] \div 8) + 1)
        IN  IF byte = Junk THEN Junk
            ELSE <<byte[1] + (p[1] % 8), byte[2], byte[3]>>])

\* Every byte is looked up in the palette, of which only the first quarter
\* has been read: palletteSize bytes of four to an entry.  The byte of pixel
\* <<x, y>> holds color x, one of padding color 0; a byte of a sample of
\* another kind may hold any, and lie beyond the palette.
ConvertPalette(f, temporary) ==
    LET size == IF f.bits \in {1, 16} THEN f.w * f.h * 4 ELSE DataSize(f)
    IN  [k \in 1..(4 * size) |->
            LET index == SampleAt(temporary, (k - 1) \div 4 + 1)
                channel == (k - 1) % 4
            IN  CASE index[3] \notin {"index", "pad"} \/ index[1] >= PaletteSize(f) -> Junk
                  [] 4 * index[1] + channel >= PaletteSize(f) -> Zero
                  [] OTHER -> <<index[1], index[2], BGRA[channel + 1]>>]

Stride(w, bits) ==
    LET line == (w * bits) \div 8
    IN  IF bits = 24 /\ line % 4 # 0 THEN ((line + 4) \div 4) * 4 ELSE line

\* Variant with a mistake: the lines are mirrored about the height, not
\* about the last line.
FlipLinesOneOff(data, h, stride) ==
    [k \in 1..Len(data) |->
        LET y == (k - 1) \div stride
        IN  IF y < h THEN data[((h - y) % h) * stride + ((k - 1) % stride) + 1] ELSE Zero]

\* Line y of the result is line height - y - 1 of the data.
FlipLines(data, h, stride) ==
    [k \in 1..Len(data) |->
        LET y == (k - 1) \div stride
        IN  IF y < h THEN data[(h - y - 1) * stride + ((k - 1) % stride) + 1] ELSE Zero]

\* Three planes, blue first; the alpha byte of a 32-bit pixel is skipped.
PlanarBGR(data, pixels, bits) ==
    [k \in 1..Len(data) |->
        IF k <= 3 * pixels
        THEN data[((k - 1) % pixels) * (bits \div 8) + (k - 1) \div pixels + 1]
        ELSE Zero]

\* Four bytes per pixel, alpha (zero for 24 bits) first and blue last: in
\* place for 32 bits, whatever follows the pixels staying where it is.
SwapToARGB(data, pixels, bits) ==
    [k \in 1..(IF bits = 32 THEN Len(data) ELSE 4 * pixels) |->
        LET pixel == (k - 1) \div 4
            channel == 3 - ((k - 1) % 4)
        IN  CASE bits = 32 /\ pixel < pixels -> data[4 * pixel + channel + 1]
              [] bits = 32 /\ pixel >= pixels -> data[k]
              [] OTHER -> IF channel = 3 THEN Zero ELSE data[3 * pixel + channel + 1]]

\* LoadFile returns true: the header is one it takes and the file holds the
\* bytes asked for.
Accepted(f) == f.header /\ ReadData(f).ok

LoadFile(f, disableExternal, planar) ==
    LET read == ReadData(f).data
        temporary == f.bits \in {1, 16} \/ PaletteSize(f) > 0
        data == CASE PaletteSize(f) > 0 -> ConvertPalette(f, read)
                  [] PaletteSize(f) = 0 /\ f.bits = 16 -> Convert16(f, read)
                  [] PaletteSize(f) = 0 /\ f.bits = 1 -> Convert1(f, read)
                  [] OTHER -> read
        bits == IF temporary THEN 32 ELSE f.bits
        lines == IF f.topDown THEN data ELSE FlipLines(data, f.h, Stride(f.w, bits))
        bytes == CASE disableExternal -> lines
                   [] ~disableExternal /\ planar -> PlanarBGR(lines, f.w * f.h, bits)
                   [] OTHER -> SwapToARGB(lines, f.w * f.h, bits)
    IN  CASE Accepted(f) -> [data |-> bytes, w |-> f.w, h |-> f.h]
          [] f.header /\ ~Accepted(f) -> [NoImage EXCEPT !.data = IF temporary THEN <<>> ELSE read]
          [] OTHER -> NoImage

-----------------------------------------------------------------------------
(* RawImage's own layout transform, for designs without a hardware one.    *)
(* c = [w, h, cv]: a picture of w x h in vectors of cv channels.           *)

LayoutEntries(c) == c.w * c.h * c.cv

OutIndex(c, ch, y, x) ==
    (ch \div c.cv) * c.h * c.w * c.cv + y * c.w * c.cv + x * c.cv + (ch % c.cv)

\* Which planar sample entry o holds; -1 for the padding of a vector.
GenerateLayoutIndexes(c) ==
    LET Sources(o) == {i \in {<<ch, y, x>> : ch \in 0..2, y \in 0..(c.h - 1), x \in 0..(c.w - 1)} :
                          OutIndex(c, i[1], i[2], i[3]) = o}
    IN  [o \in 0..(LayoutEntries(c) - 1) |->
            IF Sources(o) = {} THEN -1
            ELSE LET i == CHOOSE i \in Sources(o) : TRUE
                 IN  i[1] * c.h * c.w + i[2] * c.w + i[3]]

\* The mean of the plane is subtracted from each sample (remembered here as
\* a fourth component), then the samples are moved to their entries and the
\* whole is padded to a DMA burst of that many elements.
LayoutTransform(c, data, burst) ==
    LET pixels == c.w * c.h
        Adjusted(k) == Append(data[k + 1], BGRA[k \div pixels + 1])
        indexes == GenerateLayoutIndexes(c)
    IN  [o \in 1..NextDivisible(LayoutEntries(c), burst) |->
            IF o <= LayoutEntries(c) /\ indexes[o - 1] >= 0
            THEN Adjusted(indexes[o - 1]) ELSE Zero]

-----------------------------------------------------------------------------
(* What a streamed picture must look like, said by position.               *)

Streamed(f, disableExternal) ==
    LET channels == IF disableExternal /\ f.bits = 24 THEN 3 ELSE 4
        Alpha(x, y) == CASE f.bits = 24 -> Zero
                         [] f.bits \in {1, 16} /\ PaletteSize(f) = 0 -> Opaque
                         [] OTHER -> <<x, y, "a">>
        Sample(x, y, c) == IF c = "a" THEN Alpha(x, y) ELSE <<x, y, c>>
    IN  [k \in 1..(f.w * f.h * channels) |->
            LET pixel == (k - 1) \div channels
                c == (k - 1) % channels
            IN  Sample(pixel % f.w, pixel \div f.w,
                       BGRA[IF disableExternal THEN c + 1 ELSE 4 - c])]

\* Vectors of cv channels, one per pixel, blue first, each sample adjusted
\* by the mean of its own channel.
Vectored(c, burst) ==
    [k \in 1..NextDivisible(LayoutEntries(c), burst) |->
        LET pixel == (k - 1) \div c.cv
            channel == (k - 1) % c.cv
        IN  IF pixel < c.w * c.h /\ channel < 3
            THEN <<pixel % c.w, pixel \div c.w, BGRA[channel + 1], BGRA[channel + 1]>>
            ELSE Zero]
=============================================================================
