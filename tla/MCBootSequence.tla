--------------------------- MODULE MCBootSequence ---------------------------
(* The constants of the kernel, except that the word sizes are cut to what *)
(* TLC's integers hold: "4 GiB" is 512 MiB here.  The frame maps start     *)
(* behind the kernel image and have: just enough frames for the heap; one  *)
(* too few; one too few for Stage 6D, in two ranges; just enough for it;   *)
(* low frames that end before the heap has its pages; low frames that end  *)
(* right after them, so that Stage 6D gets high ones; and none.            *)
EXTENDS BootSequence

Range(start, count) == [start_frame |-> start, frame_count |-> count]

FirstFrame == \H120
HighFrame == \H20000

BootMaps ==
    {[ranges |-> <<Range(FirstFrame, 8)>>, eligible_frames |-> 8],
     [ranges |-> <<Range(FirstFrame, 7)>>, eligible_frames |-> 7],
     [ranges |-> <<Range(FirstFrame, 5), Range(\H200, 5)>>, eligible_frames |-> 10],
     [ranges |-> <<Range(FirstFrame, 5), Range(\H200, 6)>>, eligible_frames |-> 11],
     [ranges |-> <<Range(FirstFrame, 6), Range(HighFrame, 20)>>, eligible_frames |-> 26],
     [ranges |-> <<Range(FirstFrame, 3), Range(HighFrame - 5, 9)>>, eligible_frames |-> 12],
     [ranges |-> <<>>, eligible_frames |-> 0]}

WindowPages == {\H1000 * p : p \in \H400 .. \H800}

LowFrameAddresses ==
    {\H1000 * f : f \in {\H300} \cup (FirstFrame .. FirstFrame + 7) \cup (\H200 .. \H205)
                        \cup (HighFrame - 5 .. HighFrame - 1)}

TablePages == [s \in 0 .. 2 |-> \H110000 + s * \H1000]
=============================================================================
