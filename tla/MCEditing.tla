----------------------------- MODULE MCEditing ------------------------------
(* Bytes of two binary digits, and a character of two bytes.               *)
EXTENDS Editing

MCTexts == {<<>>, <<1, 2, 3>>}
MCChars == {<<2>>, <<3, 2>>}

=============================================================================
