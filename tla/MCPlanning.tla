----------------------------- MODULE MCPlanning -----------------------------
(***************************************************************************)
(* Model-checking instance: two models on three input vectors, one of      *)
(* which the first model fails on, a third model with an unusable weight,  *)
(* goals of the outputs' length and of another, and a cost limit of 8.     *)
(***************************************************************************)
EXTENDS BatchedPlanning

MCVecs == { <<0, 0>>, <<1, 0>>, <<2, 1>> }

MCRun ==
    [m \in {"a", "b", "c"} |->
        [x \in MCVecs |->
            IF m = "c" THEN <<>> ELSE IF m = "b" THEN << <<x[1]>> >> ELSE IF x = <<2, 1>> THEN <<>> ELSE << <<3 - 2 * x[1]>> >>]]

MCRequests ==
    { <<>>, << <<5>> >>, << <<0, 0>>, <<1, 0>>, <<1, 0>> >>, << <<0, 0>>, <<2, 1>> >> }

MCGoals == { <<2>>, <<0>>, <<0, 0>> }

\* Right and wrong outputs of both models, and one of the third.
MCForged ==
    { Artifact("a", <<0, 0>>, <<3>>), Artifact("a", <<1, 0>>, <<1>>), Artifact("a", <<0, 0>>, <<0>>),
      Artifact("b", <<0, 0>>, <<0>>), Artifact("b", <<1, 0>>, <<1>>), Artifact("b", <<1, 0>>, <<2>>),
      Artifact("c", <<0, 0>>, <<0>>) }
=============================================================================
