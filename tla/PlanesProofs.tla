----------------------------- MODULE PlanesProofs -----------------------------
(***************************************************************************)
(* Theorems about Planes, for frames of any size.                          *)
(***************************************************************************)
EXTENDS Planes, TLAPS

\* Row r and column c of a grid of b rows of a, as one number.
LEMMA InGrid ==
    ASSUME NEW a \in Nat, NEW b \in Nat, NEW r \in 0..(b - 1), NEW c \in 0..(a - 1)
    PROVE  r * a + c \in 0..(a * b - 1)
<1> DEFINE k == b - r - 1
<1>1. k \in Nat /\ r \in Nat /\ c \in Nat /\ c < a /\ b = r + 1 + k
  OBVIOUS
<1>2. r * a \in Nat /\ k * a \in Nat
  BY <1>1
<1>3. a * b = r * a + a + k * a
  BY <1>1
<1> HIDE DEF k
<1> QED
  BY <1>1, <1>2, <1>3

\* The number tells row and column.
LEMMA GridInjective ==
    ASSUME NEW a \in Nat, NEW r \in Nat, NEW c \in 0..(a - 1),
           NEW s \in Nat, NEW d \in 0..(a - 1), r * a + c = s * a + d
    PROVE  r = s /\ c = d
<1>1. ASSUME NEW m \in Nat, NEW n \in Nat, m < n,
             NEW i \in 0..(a - 1), NEW j \in 0..(a - 1)
      PROVE  m * a + i # n * a + j
  <2> DEFINE k == n - m - 1
  <2>1. k \in Nat /\ n = m + 1 + k
    BY <1>1
  <2>2. m * a \in Nat /\ k * a \in Nat /\ n * a = m * a + a + k * a
    BY <2>1
  <2> HIDE DEF k
  <2> QED
    BY <2>2
<1>2. ~(r < s) /\ ~(s < r)
  BY <1>1
<1>3. r = s
  BY <1>2
<1>4. r * a \in Nat
  OBVIOUS
<1> QED
  BY <1>3, <1>4

\* An even number and its half.
LEMMA Half ==
    ASSUME NEW n \in Nat, Even(n)
    PROVE  n \div 2 \in Nat /\ n = 2 * (n \div 2)
  BY DEF Even

\* A pixel the second loop visits, in halves.
LEMMA CornerHalves ==
    ASSUME NEW w \in Nat, NEW h \in Nat, Even(w), Even(h), NEW p \in Corner(w, h)
    PROVE  /\ p[1] \in Nat /\ p[2] \in Nat
           /\ p[1] = 2 * (p[1] \div 2) /\ p[2] = 2 * (p[2] \div 2)
           /\ p[1] \div 2 \in 0..((h \div 2) - 1)
           /\ p[2] \div 2 \in 0..((w \div 2) - 1)
<1>1. p[1] \in 0..(h - 1) /\ p[2] \in 0..(w - 1) /\ Even(p[1]) /\ Even(p[2])
  BY DEF Corner
<1>2. h = 2 * (h \div 2) /\ w = 2 * (w \div 2)
  BY Half
<1>3. p[1] = 2 * (p[1] \div 2) /\ p[2] = 2 * (p[2] \div 2)
  BY <1>1, Half
<1> QED
  BY <1>1, <1>2, <1>3

\* The sizes of the planes of a frame with even sides.
LEMMA PlaneSizes ==
    ASSUME NEW w \in Nat, NEW h \in Nat, Even(w), Even(h)
    PROVE  LET q == (w \div 2) * (h \div 2) IN
           /\ q \in Nat /\ w * h = 4 * q
           /\ (w * h) \div 4 = q /\ BufferLen(w, h) = 6 * q
<1> DEFINE a == w \div 2
           b == h \div 2
           q == a * b
<1>1. a \in Nat /\ b \in Nat /\ w = 2 * a /\ h = 2 * b
  BY Half
<1>2. q \in Nat /\ w * h = 4 * q
  <2> HIDE DEF a, b
  <2> QED
    BY <1>1
<1> HIDE DEF q
<1>3. (w * h) \div 4 = q
  BY <1>2
<1>4. w * h * 3 = 12 * q
  BY <1>2
<1>5. BufferLen(w, h) = 6 * q
  BY <1>2, <1>4 DEF BufferLen
<1> QED
  BY <1>2, <1>3, <1>5 DEF q

\* Every write is inside the buffer and inside its own plane, of a frame whose
\* sides are even.
THEOREM PlanesApart ==
    ASSUME NEW w \in Nat, NEW h \in Nat, Even(w), Even(h)
    PROVE  /\ \A dy \in 0..(h - 1), dx \in 0..(w - 1) :
                 LumaAt(w, dy, dx) \in 0..(w * h - 1)
           /\ \A p \in Corner(w, h) :
                 /\ UAt(w, h, p[1], p[2])
                       \in (w * h)..(w * h + (w * h) \div 4 - 1)
                 /\ VAt(w, h, p[1], p[2])
                       \in (w * h + (w * h) \div 4)..(BufferLen(w, h) - 1)
<1>1. \A dy \in 0..(h - 1), dx \in 0..(w - 1) : LumaAt(w, dy, dx) \in 0..(w * h - 1)
  BY InGrid DEF LumaAt
<1>2. ASSUME NEW p \in Corner(w, h)
      PROVE  /\ UAt(w, h, p[1], p[2]) \in (w * h)..(w * h + (w * h) \div 4 - 1)
             /\ VAt(w, h, p[1], p[2])
                   \in (w * h + (w * h) \div 4)..(BufferLen(w, h) - 1)
  <2> DEFINE q == (w \div 2) * (h \div 2)
             i == ChromaIdx(w, p[1], p[2])
  <2>1. i \in 0..(q - 1)
    <3>1. w \div 2 \in Nat /\ h \div 2 \in Nat
      BY Half
    <3>2. /\ p[1] \div 2 \in 0..((h \div 2) - 1)
          /\ p[2] \div 2 \in 0..((w \div 2) - 1)
      BY CornerHalves
    <3> QED
      BY <3>1, <3>2, InGrid DEF ChromaIdx
  <2>2. /\ q \in Nat /\ w * h = 4 * q
        /\ (w * h) \div 4 = q /\ BufferLen(w, h) = 6 * q
    BY PlaneSizes
  <2> HIDE DEF q, i
  <2> QED
    BY <2>1, <2>2 DEF UAt, VAt, i
<1> QED
  BY <1>1, <1>2

\* No two pixels are written to one place.
THEOREM WritesDistinct ==
    ASSUME NEW w \in Nat, NEW h \in Nat, Even(w), Even(h)
    PROVE  /\ \A dy, ey \in 0..(h - 1), dx, ex \in 0..(w - 1) :
                 LumaAt(w, dy, dx) = LumaAt(w, ey, ex) => dy = ey /\ dx = ex
           /\ \A p, q \in Corner(w, h) :
                 ChromaIdx(w, p[1], p[2]) = ChromaIdx(w, q[1], q[2])
                    => p[1] = q[1] /\ p[2] = q[2]
<1>1. ASSUME NEW dy \in 0..(h - 1), NEW ey \in 0..(h - 1),
             NEW dx \in 0..(w - 1), NEW ex \in 0..(w - 1),
             LumaAt(w, dy, dx) = LumaAt(w, ey, ex)
      PROVE  dy = ey /\ dx = ex
  <2>1. dy \in Nat /\ ey \in Nat /\ dy * w + dx = ey * w + ex
    BY <1>1 DEF LumaAt
  <2> QED
    BY <2>1, GridInjective
<1>2. ASSUME NEW p \in Corner(w, h), NEW q \in Corner(w, h),
             ChromaIdx(w, p[1], p[2]) = ChromaIdx(w, q[1], q[2])
      PROVE  p[1] = q[1] /\ p[2] = q[2]
  <2> DEFINE a == w \div 2
             r == p[1] \div 2
             c == p[2] \div 2
             s == q[1] \div 2
             d == q[2] \div 2
  <2>1. a \in Nat
    BY Half
  <2>2. /\ p[1] = 2 * r /\ p[2] = 2 * c /\ q[1] = 2 * s /\ q[2] = 2 * d
        /\ r \in 0..((h \div 2) - 1) /\ c \in 0..(a - 1)
        /\ s \in 0..((h \div 2) - 1) /\ d \in 0..(a - 1)
    BY CornerHalves
  <2>3. r * a + c = s * a + d
    BY <1>2 DEF ChromaIdx
  <2> HIDE DEF a, r, c, s, d
  <2>4. r \in Nat /\ s \in Nat
    BY <2>2
  <2>5. r = s /\ c = d
    BY <2>1, <2>2, <2>3, <2>4, GridInjective
  <2> QED
    BY <2>2, <2>5
<1> QED
  BY <1>1, <1>2

\* The pixel a scaled one is taken from exists, whatever the two sizes.
LEMMA ScaledInside ==
    ASSUME NEW src \in Nat \ {0}, NEW dst \in Nat, NEW d \in 0..(dst - 1)
    PROVE  Scaled(src, dst, d) \in 0..(src - 1)
<1>1. Scale(src, dst) \in Nat
  <2>1. CASE dst > 1
    <3>1. (src - 1) * Unit \in Nat /\ dst - 1 \in Nat \ {0}
      BY <2>1 DEF Unit
    <3>2. ((src - 1) * Unit) \div (dst - 1) \in Nat
      BY <3>1
    <3> QED
      BY <3>2, <2>1 DEF Scale
  <2>2. CASE ~(dst > 1)
    BY <2>2 DEF Scale
  <2> QED
    BY <2>1, <2>2
<1>2. d * Scale(src, dst) \in Nat
  BY <1>1
<1>3. (d * Scale(src, dst)) \div Unit \in Nat
  BY <1>2 DEF Unit
<1> QED
  BY <1>3 DEF Scaled, Lesser

\* Every read is inside the frame that came: of YUYV with even sides and of a
\* JPEG or a screen of any size, scaled to any size.  A row of the screen has
\* four bytes for each pixel or more.
THEOREM ReadsInside ==
    /\ \A w, h \in Nat : Even(w) /\ Even(h) =>
          /\ \A row \in 0..(h - 1), col \in 0..(w - 1) :
                YuyvAt(w, row, col) \in 0..(2 * (w * h) - 1)
          /\ \A p \in Corner(w, h) :
                YuyvAt(w, p[1], p[2]) + 3 \in 0..(2 * (w * h) - 1)
    /\ \A src_w, src_h, bpp \in Nat \ {0}, w, h \in Nat :
          \A dy \in 0..(h - 1), dx \in 0..(w - 1) :
             JpegAt(src_w, bpp, Scaled(src_h, h, dy), Scaled(src_w, w, dx)) + bpp
                <= bpp * (src_w * src_h)
    /\ \A src_w, src_h \in Nat \ {0}, stride, w, h \in Nat : stride >= 4 * src_w =>
          \A dy \in 0..(h - 1), dx \in 0..(w - 1) :
             BgraAt(stride, Scaled(src_h, h, dy), Scaled(src_w, w, dx)) + 3
                <= stride * src_h
<1>1. ASSUME NEW w \in Nat, NEW h \in Nat, Even(w), Even(h)
      PROVE  /\ \A row \in 0..(h - 1), col \in 0..(w - 1) :
                   YuyvAt(w, row, col) \in 0..(2 * (w * h) - 1)
             /\ \A p \in Corner(w, h) :
                   YuyvAt(w, p[1], p[2]) + 3 \in 0..(2 * (w * h) - 1)
  <2>1. w * h \in Nat
    OBVIOUS
  <2>2. ASSUME NEW row \in 0..(h - 1), NEW col \in 0..(w - 1)
        PROVE  YuyvAt(w, row, col) \in 0..(2 * (w * h) - 1)
    <3> DEFINE i == row * w + col
    <3>1. i \in 0..(w * h - 1)
      BY InGrid
    <3> HIDE DEF i
    <3> QED
      BY <2>1, <3>1 DEF YuyvAt, i
  \* The pixel to the right of a corner is in its row.
  <2>3. ASSUME NEW p \in Corner(w, h)
        PROVE  YuyvAt(w, p[1], p[2]) + 3 \in 0..(2 * (w * h) - 1)
    <3>1. p[1] \in 0..(h - 1) /\ p[2] \in 0..(w - 1) /\ Even(p[2])
      BY DEF Corner
    <3>2. p[2] + 1 \in 0..(w - 1)
      BY <1>1, <3>1 DEF Even
    <3> DEFINE m == p[1] * w
    <3>3. m + p[2] \in 0..(w * h - 1) /\ m + (p[2] + 1) \in 0..(w * h - 1)
      BY <3>1, <3>2, InGrid
    <3>4. m \in Nat /\ p[2] \in Nat
      BY <3>1
    <3>5. YuyvAt(w, p[1], p[2]) = (m + p[2]) * 2
      BY DEF YuyvAt
    <3> HIDE DEF m
    <3> QED
      BY <2>1, <3>3, <3>4, <3>5
  <2> QED
    BY <2>2, <2>3
<1>2. ASSUME NEW src_w \in Nat \ {0}, NEW src_h \in Nat \ {0}, NEW bpp \in Nat \ {0},
             NEW w \in Nat, NEW h \in Nat, NEW dy \in 0..(h - 1), NEW dx \in 0..(w - 1)
      PROVE  JpegAt(src_w, bpp, Scaled(src_h, h, dy), Scaled(src_w, w, dx)) + bpp
                <= bpp * (src_w * src_h)
  <2> DEFINE i == Scaled(src_h, h, dy) * src_w + Scaled(src_w, w, dx)
             n == src_w * src_h
             k == n - 1 - i
  <2>1. i \in 0..(n - 1) /\ n \in Nat
    <3>1. /\ Scaled(src_h, h, dy) \in 0..(src_h - 1)
          /\ Scaled(src_w, w, dx) \in 0..(src_w - 1)
      BY ScaledInside
    <3>2. n \in Nat
      OBVIOUS
    <3> QED
      BY <3>1, <3>2, InGrid
  <2>2. JpegAt(src_w, bpp, Scaled(src_h, h, dy), Scaled(src_w, w, dx)) = i * bpp
    BY DEF JpegAt
  <2> HIDE DEF i, n
  <2>3. k \in Nat /\ n = i + 1 + k /\ i \in Nat
    BY <2>1
  <2> HIDE DEF k
  <2>4. bpp * n = i * bpp + bpp + k * bpp /\ k * bpp \in Nat /\ i * bpp \in Nat
    BY <2>3
  <2> QED
    BY <2>2, <2>4 DEF n
<1>3. ASSUME NEW src_w \in Nat \ {0}, NEW src_h \in Nat \ {0}, NEW stride \in Nat,
             NEW w \in Nat, NEW h \in Nat, stride >= 4 * src_w,
             NEW dy \in 0..(h - 1), NEW dx \in 0..(w - 1)
      PROVE  BgraAt(stride, Scaled(src_h, h, dy), Scaled(src_w, w, dx)) + 3
                <= stride * src_h
  <2> DEFINE sy == Scaled(src_h, h, dy)
             sx == Scaled(src_w, w, dx)
  <2>1. sy \in 0..(src_h - 1) /\ sx \in 0..(src_w - 1)
    BY ScaledInside
  <2> HIDE DEF sy, sx
  <2>2. sx * 4 + 3 \in 0..(stride - 1)
    BY <1>3, <2>1
  <2>3. sy * stride + (sx * 4 + 3) \in 0..(stride * src_h - 1)
    BY <2>1, <2>2, InGrid
  <2>4. sy * stride \in Nat /\ sx * 4 \in Nat
    BY <2>1
  <2>5. BgraAt(stride, sy, sx) = sy * stride + sx * 4
    BY DEF BgraAt
  <2> QED
    BY <2>3, <2>4, <2>5 DEF sy, sx
<1> QED
  BY <1>1, <1>2, <1>3

=============================================================================
