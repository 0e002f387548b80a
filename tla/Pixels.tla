------------------------------- MODULE Pixels -------------------------------
(***************************************************************************)
(* The pixel formats of src/conversions.c.  Two or four pixels that share  *)
(* their colour are a group; a picture is converted group by group, so an  *)
(* operator converts the bytes of one group.  yuv420p, which input-v4l.c   *)
(* unpacks, shares colour between rows and is converted as a picture.      *)
(***************************************************************************)
EXTENDS Integers, Sequences, FiniteSetsExt

Byte == 0 .. 255

Clip(n) == Max({0, Min({255, n})})

\* The packings, to yuy2: y0 u y1 v.
Uyvy2Yuy2(s) == <<s[2], s[1], s[4], s[3]>>

Y41p2Yuyv(s) ==
  <<s[2], s[1], s[4], s[3], s[6], s[1], s[8], s[3],
    s[9], s[5], s[10], s[7], s[11], s[5], s[12], s[7]>>

Iyu12Yuy2(s) == <<s[2], s[1], s[3], s[4], s[5], s[1], s[6], s[4]>>
Iyu22Yuy2(s) == <<s[2], (s[1] + s[4]) \div 2, s[5], (s[3] + s[6]) \div 2>>
Y2Yuy2(s)    == <<s[1], 128, s[2], 128>>

\* u and v are signed here; >> rounds down, as \div does.
Yuv2Rgb(y, u, v) ==
  << Clip(y + (1434 * v) \div 2048),
     Clip(y - (406 * u) \div 2048 - (595 * v) \div 2048),
     Clip(y + (2078 * u) \div 2048) >>

Rgb2Yuv(r, g, b) ==
  [y |-> Clip((9798 * r + 19235 * g + 3736 * b) \div 32768),
   u |-> Clip((-4784 * r - 9437 * g + 14221 * b) \div 32768 + 128),
   v |-> Clip((20218 * r - 16941 * g - 3277 * b) \div 32768 + 128)]

Rgb2Yuy2(s) ==
  LET p == Rgb2Yuv(s[1], s[2], s[3])
      q == Rgb2Yuv(s[4], s[5], s[6])
  IN  <<p.y, (p.u + q.u) \div 2, q.y, (p.v + q.v) \div 2>>

\* A pixel of brightness y with the unsigned colour u, v.
Pixel(y, u, v) == Yuv2Rgb(y, u - 128, v - 128)

Uyvy2Rgb(s)  == Pixel(s[2], s[1], s[3]) \o Pixel(s[4], s[1], s[3])

Yuy22Rgb(s)  == Pixel(s[1], s[2], s[4]) \o Pixel(s[3], s[2], s[4])

Iyu12Rgb(s)  == Pixel(s[2], s[1], s[4]) \o Pixel(s[3], s[1], s[4])
                \o Pixel(s[5], s[1], s[4]) \o Pixel(s[6], s[1], s[4])

Iyu22Rgb(s)  == Pixel(s[2], s[1], s[3]) \o Pixel(s[5], s[4], s[6])
Y2Rgb(s)     == Yuv2Rgb(s[1], 0, 0)

\* copy_yuv420p_to_uyvy: plane y, then u and v with half the rows and columns.
Uyvy420(s, width, height) ==
  LET u(r, c) == s[width * height + (r \div 2) * (width \div 2) + c \div 2 + 1]
      v(r, c) == s[width * height + (width \div 2) * (height \div 2)
                   + (r \div 2) * (width \div 2) + c \div 2 + 1]
      Group(n) == LET r == (2 * n) \div width
                      c == (2 * n) % width
                  IN  <<u(r, c), s[r * width + c + 1], v(r, c), s[r * width + c + 2]>>
  IN  [n \in 0 .. (width * height) \div 2 - 1 |-> Group(n)]

-----------------------------------------------------------------------------
(* Properties, of one input at a time.                                     *)

Luma(p) == Rgb2Yuv(p[1], p[2], p[3]).y

\* A pixel that goes from rgb to yuy2 and back keeps its brightness within 5 of the 256
\* levels, and a grey one does not change; colours come back paler, since the two
\* directions scale the colour differences by different factors.
BrightnessSurvives(r, g, b) ==
  LET p == Yuy22Rgb(Rgb2Yuy2(<<r, g, b, r, g, b>>))
  IN  /\ Luma(p) - Luma(<<r, g, b>>) \in -5 .. 5
      /\ r = g /\ g = b => p = <<r, g, b, r, g, b>>

\* Whichever way a camera's packing goes to rgb, directly or over yuy2, the pixels are
\* the same, where the two pixels of a group agree on the colour.
PackingsAgree(y0, y1, u, v) ==
  /\ Uyvy2Rgb(<<u, y0, v, y1>>) = Yuy22Rgb(Uyvy2Yuy2(<<u, y0, v, y1>>))
  /\ LET s == <<u, y0, y1, v, y1, y0>>
         t == Iyu12Yuy2(s)
     IN  Iyu12Rgb(s) = Yuy22Rgb(SubSeq(t, 1, 4)) \o Yuy22Rgb(SubSeq(t, 5, 8))
  /\ LET s == <<u, y0, v, u, y1, v>> IN Iyu22Rgb(s) = Yuy22Rgb(Iyu22Yuy2(s))
  /\ Y2Rgb(<<y0>>) \o Y2Rgb(<<y1>>) = Yuy22Rgb(Y2Yuy2(<<y0, y1>>))
  /\ LET t == Y41p2Yuyv(<<u, y0, v, y1, v, y1, u, y0, y0, y1, y1, y0>>)
     IN  /\ SubSeq(t, 1, 8)  = Iyu12Yuy2(<<u, y0, y1, v, y1, y0>>)
         /\ SubSeq(t, 9, 16) = Iyu12Yuy2(<<v, y0, y1, u, y1, y0>>)
  /\ LET p == Uyvy420(<<y0, y1, y1, y0, y1, y1, y0, y0, u, v, v, u>>, 4, 2)
     IN  /\ p[0] = <<u, y0, v, y1>> /\ p[2] = <<u, y1, v, y1>>
         /\ p[1] = <<v, y1, u, y0>> /\ p[3] = <<v, y0, u, y0>>

=============================================================================
