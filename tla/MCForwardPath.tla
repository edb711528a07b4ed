---------------------------- MODULE MCForwardPath ----------------------------
(***************************************************************************)
(* An instance of ForwardPath for TLC.                                     *)
(***************************************************************************)
EXTENDS ForwardPath

\* A request of one row, of three, which do not fill a bucket, and two requests whose
\* arrays disagree and add up to the same.
SomePayloads == {<<1, 1>>, <<3, 3>>, <<1, 2>>, <<2, 1>>}

\* A head [batch, 6] beside the state of one recurrent layer, [1, batch, hidden]: with more
\* layers, a graph that is compared on a batch of one row is already found wrong.
HeadAndState == {[axis |-> 0, other |-> 6], [axis |-> 1, other |-> 1]}

=============================================================================
