-------------------------------- MODULE Planes --------------------------------
(***************************************************************************)
(* Where the pixel conversions of video.rs read and write: yuyv_to_yuv420, *)
(* mjpeg_to_yuv420 and bgra_to_yuv420.  A frame of w by h is written as    *)
(* YUV 4:2:0, a plane of w * h bytes of luma followed by two of chroma,    *)
(* one byte for each two by two pixels.  The colours are left out: an      *)
(* index out of bounds is a panic of the capture thread, and a wrong one a *)
(* wrong picture.  Numbers are far from the limit of usize.                *)
(***************************************************************************)
EXTENDS Integers

Even(n) == n % 2 = 0

\* The pixels the second loop visits: (0..h).step_by(2), (0..w).step_by(2).
Corner(w, h) == {p \in (0..(h - 1)) \X (0..(w - 1)) : Even(p[1]) /\ Even(p[2])}

-----------------------------------------------------------------------------
(* Writes, which the three have in common *)

\* vec![0u8; frame_size * 3 / 2]
BufferLen(w, h) == (w * h * 3) \div 2

\* The luma of the pixel in row dy and column dx.
LumaAt(w, dy, dx) == dy * w + dx

\* uv_idx, idx: the place in either plane of chroma.
ChromaIdx(w, dy, dx) == (dy \div 2) * (w \div 2) + dx \div 2
UAt(w, h, dy, dx) == w * h + ChromaIdx(w, dy, dx)
VAt(w, h, dy, dx) == w * h + (w * h) \div 4 + ChromaIdx(w, dy, dx)

-----------------------------------------------------------------------------
(* Reads *)

\* yuyv_to_yuv420: two bytes for each pixel, V three bytes after Y.
YuyvAt(w, row, col) == (row * w + col) * 2

\* Scaling to the nearest pixel below, in 16.16 fixed point.
Unit == 65536
Scale(src, dst) == IF dst > 1 THEN ((src - 1) * Unit) \div (dst - 1) ELSE 0
Lesser(m, n) == IF m <= n THEN m ELSE n
Scaled(src, dst, d) == Lesser((d * Scale(src, dst)) \div Unit, src - 1)

\* mjpeg_to_yuv420: the first of bpp bytes of the decoded pixel.
JpegAt(src_w, bpp, sy, sx) == (sy * src_w + sx) * bpp

\* bgra_to_yuv420: a row has stride bytes, a pixel four, of which three are read.
BgraAt(stride, sy, sx) == sy * stride + sx * 4

=============================================================================
