---------------------------- MODULE MCVideoPipeline ----------------------------
(* Instances of VideoPipeline for TLC, and Planes evaluated for small frames. *)
EXTENDS VideoPipeline, Planes

\* A device that only has MJPEG, and one that has everything.
MixedDevices == {{"MJPG"}, {"H264", "YUYV", "MJPG"}}

\* A device whose first choice is H.264 and whose second is YUYV.
RichDevices == {{"H264", "YUYV", "MJPG"}}

-----------------------------------------------------------------------------

\* What the conversions write of a frame of w by h.
Luma(w, h) == {LumaAt(w, y, x) : y \in 0..(h - 1), x \in 0..(w - 1)}
Chroma(w, h) == {UAt(w, h, p[1], p[2]) : p \in Corner(w, h)}
                \cup {VAt(w, h, p[1], p[2]) : p \in Corner(w, h)}

\* Of a frame with even sides every byte of the buffer is written.
ASSUME PlanesFill ==
    \A w, h \in {2, 4, 6, 8} :
        Luma(w, h) \cup Chroma(w, h) = 0..(BufferLen(w, h) - 1)

\* With odd sides V ends behind the buffer, and so does the read of YUYV.
ASSUME OddSidesPanic ==
    /\ \E i \in Chroma(3, 3) : i >= BufferLen(3, 3)
    /\ \E p \in Corner(3, 3) : YuyvAt(3, p[1], p[2]) + 3 >= 2 * (3 * 3)

=============================================================================
