------------------------------ MODULE MCBuffers ------------------------------
(***************************************************************************)
(* Two files, one of them with two names, and two buffers: enough for a    *)
(* file under both names, a scratch buffer saved over an open file, and a  *)
(* write-all that fails at either buffer.                                  *)
(***************************************************************************)
EXTENDS Buffers

MCNames == {"a", "./a", "b"}
MCFiles == {"a", "b"}
MCCanon == [name \in MCNames |-> IF name = "./a" THEN "a" ELSE name]
MCOriginal == [f \in MCFiles |-> IF f = "a" THEN <<1, 2>> ELSE <<3>>]
MCEdited == {<<>>, <<4>>}
=============================================================================
