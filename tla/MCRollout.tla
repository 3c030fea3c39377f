----------------------------- MODULE MCRollout ------------------------------
(***************************************************************************)
(* Model-checking instance: two models over pairs of 0..2, one of which    *)
(* fails on one pair; initial histories of one or two latents, ragged ones *)
(* among them; windows 0 to 2 and horizons 0, 1 and 3.                     *)
(***************************************************************************)
EXTENDS Rollout

MCVecs == { <<x, y>> : x \in 0..2, y \in 0..2 }

MCRun ==
    [m \in {"a", "b"} |->
        [v \in MCVecs |->
            IF v = <<2, 2>> /\ m = "a" THEN <<>>
            ELSE << << (v[1] + v[2] + (IF m = "a" THEN 0 ELSE v[1])) % 3 >> >>]]

MCStarts == { << <<0>>, <<1>> >>, << <<1>>, <<2, 0>> >>, << <<0, 1>>, <<>> >>, << <<2>>, <<2>> >>, << <<1>> >> }

MCForged ==
    { Artifact(m, x, z) : m \in {"a", "b"}, x \in { <<0, 1>>, <<1, 1>>, <<2, 0>> },
                          z \in { <<1>>, <<2>> } }

MCRecorded == { <<1>>, <<2>> }
=============================================================================
