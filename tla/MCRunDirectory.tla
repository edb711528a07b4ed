---------------------------- MODULE MCRunDirectory ----------------------------
(***************************************************************************)
(* An instance of RunDirectory for TLC.                                    *)
(***************************************************************************)
EXTENDS RunDirectory

\* No tag, "train", and what a second "train" would be given.
SomeTags == {<<>>, <<1>>, <<1, 2>>}

\* An empty base directory, and one in which an old "train" was not the last.
SomeFound == {{}, {<<1>>, <<1, 2, 2>>}}

=============================================================================
