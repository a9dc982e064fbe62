--------------------------- MODULE MCFileTransfer ---------------------------
(* Instances of FileTransfer for TLC *)
EXTENDS FileTransfer

\* a file becomes empty by Shrink
Contents == {<<"x", "y">>}

\* What reads like the response line of an empty file, and of a file longer
\* than any response here
LineGrowth == {<<COMMA, "0", COMMA, CR, LF>>, <<COMMA, "1", "1", "1", "1", COMMA, CR, LF>>}
=============================================================================
