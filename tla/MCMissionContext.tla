-------------------------- MODULE MCMissionContext --------------------------
(* A small instance of MissionContext for TLC. *)
EXTENDS MissionContext

\* Depth images of 2 by 2 pixels: one pixel measured, three, all.
Image(a, b, c, d) ==
    <<0, 0>> :> a @@ <<1, 0>> :> b @@ <<0, 1>> :> c @@ <<1, 1>> :> d
MCDepthImages == {Image(0, 3, 0, 0), Image(5, 0, 1, 2), Image(4, 2, 1, 3)}

\* Boxes over each edge, on and between pixels, outside, and without extent.
Box(x, w, y, h) == [x |-> x, w |-> w, y |-> y, h |-> h]
MCBoxes == {Box(-1, 3, 0, 4), Box(-2, 4, -3, 9), Box(1, 2, 1, 2), Box(3, 4, 0, 2),
            Box(-4, 2, 0, 4), Box(2, 0, 0, 4), Box(-6, 5, 1, 1)}

\* A usable header, one without intrinsics, one without a scale.
Header(scaled, calibrated) == [scaled |-> scaled, calibrated |-> calibrated]
MCHeaders == {Header(TRUE, TRUE), Header(TRUE, FALSE), Header(FALSE, TRUE)}

\* Two of the classes of the network, by their ids in COCO.
MCNames == 0 :> "person" @@ 56 :> "chair"

\* No filter, a known name, a known and a misspelled one, a misspelled one alone.
MCClassConfigs == {{}, {"person"}, {"person", "persn"}, {"persn"}}
=============================================================================
