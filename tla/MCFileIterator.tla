--------------------------- MODULE MCFileIterator ---------------------------
(* FileIterator with buffers of one and of three blocks.                    *)
EXTENDS FileIterator

\* The file is closed and read to its end.
Finished == closed /\ reading = "end" /\ UNCHANGED vars

MCSpec == Init /\ [][Next \/ Finished]_vars
=============================================================================
