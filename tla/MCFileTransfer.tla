--------------------------- MODULE MCFileTransfer ---------------------------
(* FileTransfer on small instances: blocks are request numbers, a chunk is  *)
(* two blocks long, offsets are the first two blocks.                       *)
EXTENDS FileTransfer

CONSTANTS p1, p2

FirstOffsets == {0, 1}
UploadOffsets == {0, 2, 4}
=============================================================================
