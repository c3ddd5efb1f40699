------------------------------ MODULE MCSession ------------------------------
(* Instances of ClientSession for TLC: parts of one, two and three items   *)
(* whose first storage, empty storage and destinations differ.             *)
EXTENDS ClientSession

SentParts == {<< <<0, 0>> >>,
              << <<1, 0>> >>,
              << <<0, 1>>, <<1, 0>> >>,
              << <<0, 0>>, <<0, 1>>, <<1, 1>> >>}

=============================================================================
