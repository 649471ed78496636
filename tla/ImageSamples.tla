---------------------------- MODULE ImageSamples ----------------------------
(***************************************************************************)
(* Images as bytes, as samples and as pixels: internal/sampling, and       *)
(* GetSamples, SetSamples, ColorAt, Resample, ConvertToBinary and the      *)
(* conversions from Go images of model/image.go, with                      *)
(* PdfColorspaceDeviceRGB.ImageToGray.  A byte has B bits (8 in the code), *)
(* and a pixel is the sequence of its samples before they are scaled to    *)
(* the range of a Go colour.                                               *)
(***************************************************************************)
EXTENDS Integers, Sequences, SequencesExt, Bitwise

CONSTANTS
    B,          \* bits of a byte
    Images,     \* images given by their samples
    GoImages,   \* images of the standard library: part of a larger one
    MaxOps

VARIABLES
    img,        \* the image: Width, Height, BitsPerComponent, ColorComponents and Data
    ideal,      \* its samples as they should be
    spoilt,     \* set once Resample has been used
    ops

vars == <<img, ideal, spoilt, ops>>

-----------------------------------------------------------------------------
\* Resampling.  Bits are taken from the front of src, of which have bits are left, into
\* the sample that is being put together.  What is left of src is kept shifted to the
\* front; in a byte the bits that were taken fall off, in a word they stay above.
Cut(n, wrap) == IF wrap THEN n % (2 ^ B) ELSE n

TakeBits(s, src, have, take, win, wout, wrap) ==
    LET sample == (s.sample * 2 ^ take) | (src \div 2 ^ (win - take))
        full == s.left = take
    IN  [i |-> s.i,
         remainder |-> IF have > take THEN Cut(src * 2 ^ take, wrap) ELSE 0,
         bits |-> have - take,
         sample |-> IF full THEN 0 ELSE sample,
         left |-> IF full THEN wout ELSE s.left - take,
         out |-> IF full THEN Append(s.out, sample) ELSE s.out]

Smaller(a, b) == IF a < b THEN a ELSE b

RECURSIVE ResampleLoop(_, _, _, _, _)
ResampleLoop(s, data, win, wout, wrap) ==
    IF s.bits > 0 /\ (s.i < Len(data) \/ s.bits >= wout)
    THEN ResampleLoop(TakeBits(s, s.remainder, s.bits, Smaller(s.bits, s.left), win, wout, wrap), data, win, wout, wrap)
    ELSE IF s.i < Len(data)
    THEN ResampleLoop(TakeBits([s EXCEPT !.i = @ + 1], data[s.i + 1], win, Smaller(win, s.left), win, wout, wrap),
                      data, win, wout, wrap)
    ELSE s

Start(wout) == [i |-> 0, remainder |-> 0, bits |-> 0, sample |-> 0, left |-> wout, out |-> <<>>]

ResampleBytes(data, wout) == ResampleLoop(Start(wout), data, B, wout, TRUE).out

ResampleUint32(data, win, wout) ==
    LET s == ResampleLoop(Start(wout), data, win, wout, FALSE)
    IN  IF s.left < wout THEN Append(s.out, s.sample * 2 ^ s.left) ELSE s.out

-----------------------------------------------------------------------------
\* The image.
GetSamples(im) ==
    LET samples == ResampleBytes(im.Data, im.BitsPerComponent)
        expected == im.Width * im.Height * im.ColorComponents
    IN  IF Len(samples) > expected THEN SubSeq(samples, 1, expected) ELSE samples

Bytes(words) == [i \in DOMAIN words |-> words[i] % (2 ^ B)]
SetSamples(im, samples) == [im EXCEPT !.Data = Bytes(ResampleUint32(samples, im.BitsPerComponent, B))]

\* The bits of the byte at index i, from position pos up; and a sample of two bytes.
At(im, i) == im.Data[i + 1]
Part(im, i, pos, bpc) == (At(im, i) \div 2 ^ pos) % (2 ^ bpc)
Wide(im, i) == At(im, i) * 2 ^ B + At(im, i + 1)
Pixel(im, last, p) == IF last >= Len(im.Data) THEN <<>> ELSE p

\* One component: 1, 2 or 4 bits; 16; 8 or whatever else.
ColorAtGray(im, n) ==
    LET bpc == im.BitsPerComponent  divider == B \div bpc
    IN  IF bpc < B /\ B % bpc = 0
        THEN Pixel(im, n \div divider, <<Part(im, n \div divider, B - ((n % divider) * bpc + bpc), bpc)>>)
        ELSE IF bpc = 2 * B THEN Pixel(im, 2 * n + 1, <<Wide(im, 2 * n)>>)
        ELSE Pixel(im, n, <<At(im, n)>>)

\* Three components: 4 bits, where a pixel begins at a byte or within one; 16; 8 or
\* whatever else.
ColorAtRGB(im, n) ==
    LET bpc == im.BitsPerComponent  i == (3 * n) \div 2
    IN  IF 2 * bpc = B
        THEN Pixel(im, i + 1,
                   IF (3 * n) % 2 = 0 THEN <<Part(im, i, bpc, bpc), Part(im, i, 0, bpc), Part(im, i + 1, bpc, bpc)>>
                   ELSE <<Part(im, i, 0, bpc), Part(im, i + 1, bpc, bpc), Part(im, i + 1, 0, bpc)>>)
        ELSE IF bpc = 2 * B THEN Pixel(im, 6 * n + 5, <<Wide(im, 6 * n), Wide(im, 6 * n + 2), Wide(im, 6 * n + 4)>>)
        ELSE Pixel(im, 3 * n + 2, <<At(im, 3 * n), At(im, 3 * n + 1), At(im, 3 * n + 2)>>)

ColorAtCMYK(im, n) == Pixel(im, 4 * n + 3, [k \in 1 .. 4 |-> At(im, 4 * n + k - 1)])

\* The pixel at x, y, or <<>> for an error.
ColorAt(im, x, y) ==
    LET n == y * im.Width + x
    IN  CASE im.ColorComponents = 1 -> ColorAtGray(im, n)
          [] im.ColorComponents = 3 -> ColorAtRGB(im, n)
          [] im.ColorComponents = 4 -> ColorAtCMYK(im, n)
          [] OTHER -> <<>>

\* Resample writes each row by itself, without its last sample.
Shifted(v, from, to) == IF to < from THEN v \div 2 ^ (from - to) ELSE v * 2 ^ (to - from)
ResampledRow(row, to) == Bytes(ResampleUint32(Front(row), to, B))
ResampleData(im, to) ==
    LET samples == [i \in DOMAIN GetSamples(im) |-> Shifted(GetSamples(im)[i], im.BitsPerComponent, to)]
        n == im.Width * im.ColorComponents
    IN  FlattenSeq([y \in 1 .. im.Height |-> ResampledRow(SubSeq(samples, (y - 1) * n + 1, y * n), to)])

\* The weights of ImageToGray in percent.
GrayOf(r, g, b) == (30 * r + 59 * g + 11 * b) \div 100
GraySamples(s) == [i \in 1 .. Len(s) \div 3 |-> GrayOf(s[3 * i - 2], s[3 * i - 1], s[3 * i])]

\* A pixel as the gray of a Go image; one that cannot be read stays black.
Luma(p) == IF p = <<>> THEN 0 ELSE IF Len(p) = 3 THEN GrayOf(p[1], p[2], p[3]) ELSE p[1]

\* A gray image of the standard library is taken as it is if it has as many bytes as
\* pixels, and drawn anew otherwise; the bytes are those of the larger image from the
\* first pixel on.
PixOf(g) == SubSeq(g.pix, g.y * g.stride + g.x + 1, Len(g.pix))
Drawn(g) == [i \in 1 .. g.dx * g.dy |-> PixOf(g)[((i - 1) \div g.dx) * g.stride + ((i - 1) % g.dx) + 1]]
\* Variant: taken as it is if it is not shorter.
NewGrayImageFromGoImage_Longer(g) == IF Len(PixOf(g)) >= g.dx * g.dy THEN PixOf(g) ELSE Drawn(g)

NewGrayImageFromGoImage(g) == IF Len(PixOf(g)) = g.dx * g.dy THEN PixOf(g) ELSE Drawn(g)

-----------------------------------------------------------------------------
Image(w, h, bpc, comps, data) ==
    [Width |-> w, Height |-> h, BitsPerComponent |-> bpc, ColorComponents |-> comps, Data |-> data]

Init ==
    /\ spoilt = FALSE /\ ops = 0
    /\ \/ \E s \in Images :
            /\ img = SetSamples(Image(s.w, s.h, s.bpc, s.comps, <<>>), s.samples)
            /\ ideal = s.samples
       \/ \E g \in GoImages :
            /\ img = Image(g.dx, g.dy, B, 1, NewGrayImageFromGoImage(g))
            /\ ideal = [i \in 1 .. g.dx * g.dy |-> g.pix[(g.y + (i - 1) \div g.dx) * g.stride + g.x + ((i - 1) % g.dx) + 1]]

Op == ops < MaxOps /\ ops' = ops + 1

\* The samples are read and set again, as the colour spaces do.
Rewrite ==
    /\ Op
    /\ img' = SetSamples(img, GetSamples(img))
    /\ UNCHANGED <<ideal, spoilt>>

ImageToGray ==
    /\ Op /\ img.ColorComponents = 3 /\ Len(GetSamples(img)) % 3 = 0
    /\ img' = [SetSamples(img, GraySamples(GetSamples(img))) EXCEPT !.ColorComponents = 1]
    /\ ideal' = GraySamples(ideal)
    /\ UNCHANGED spoilt

\* A row that is too short is beyond the slice, so there have to be all samples.
Resample(to) ==
    /\ Op /\ to # img.BitsPerComponent
    /\ Len(GetSamples(img)) = img.Width * img.Height * img.ColorComponents
    /\ img' = [img EXCEPT !.Data = ResampleData(img, to), !.BitsPerComponent = to]
    /\ spoilt' = TRUE
    /\ UNCHANGED ideal

\* With a threshold that depends on the histogram.
ConvertToBinary(threshold) ==
    /\ Op /\ ~(img.ColorComponents = 1 /\ img.BitsPerComponent = 1) /\ img.ColorComponents \in {1, 3}
    /\ LET white(p) == IF Luma(p) >= threshold THEN 1 ELSE 0
           w == img.Width
           data == Bytes(ResampleUint32([i \in 1 .. w * img.Height |-> white(ColorAt(img, (i - 1) % w, (i - 1) \div w))], 1, B))
           pixel(i) == SubSeq(ideal, (i - 1) * img.ColorComponents + 1, i * img.ColorComponents)
       IN  /\ img' = [img EXCEPT !.BitsPerComponent = 1, !.ColorComponents = 1, !.Data = data]
           /\ ideal' = [i \in 1 .. w * img.Height |-> white(pixel(i))]
           \* 1 and 2 bits are not read as such in colour
           /\ spoilt' = (spoilt \/ (img.ColorComponents = 3 /\ 2 * img.BitsPerComponent < B))

Next ==
    \/ Rewrite \/ ImageToGray
    \/ \E to \in {1, B \div 2, B, 2 * B} : Resample(to)
    \/ \E t \in {1, 2} : ConvertToBinary(t)

Spec == Init /\ [][Next]_vars

-----------------------------------------------------------------------------
TypeOK == img.BitsPerComponent \in 1 .. 2 * B /\ img.ColorComponents \in {1, 3, 4} /\ ops \in 0 .. MaxOps

\* The samples of an image are those that were set, however often they are read, converted and
\* set again; Resample, which drops the last sample of each row, is the exception.
SamplesKept == ~spoilt => GetSamples(img) = ideal

\* ColorAt finds the samples of each pixel where GetSamples has them.  In colour, samples of
\* 1 and 2 bits, and CMYK of other than 8 bits, are not supported.
PixelsFound ==
    \/ spoilt
    \/ img.ColorComponents = 3 /\ 2 * img.BitsPerComponent < B
    \/ img.ColorComponents = 4 /\ img.BitsPerComponent # B
    \/ \A x \in 0 .. img.Width - 1, y \in 0 .. img.Height - 1 :
         LET first == (y * img.Width + x) * img.ColorComponents
         IN  ColorAt(img, x, y) = SubSeq(ideal, first + 1, first + img.ColorComponents)

\* The data never holds more than a byte in a byte, and is never shorter than its samples
\* need.
DataWhole ==
    /\ \A i \in DOMAIN img.Data : img.Data[i] \in 0 .. 2 ^ B - 1
    /\ ~spoilt => B * Len(img.Data) >= Len(ideal) * img.BitsPerComponent
=============================================================================
