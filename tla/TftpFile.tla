------------------------------ MODULE TftpFile ------------------------------
(***************************************************************************)
(* What a transfer of the server's file leaves in the client's memory, and *)
(* where a session of the server is in the file.                           *)
(***************************************************************************)
EXTENDS Tftp, TftpServer

(* No block number is used twice: whatever block size is settled, the file *)
(* has fewer blocks than there are block numbers.                          *)
NoWrap == \A size \in OackSizes \cup {PlainSize} :
              FileSize < (SeqSize - 1) * size

(* Every unit that store_block() has written holds the unit of the file    *)
(* with that offset: block numbers, block size and wrap offset agree with  *)
(* the server's for every packet the handler lets through.                 *)
StoredIsFile == \A u \in DOMAIN mem : u < FileSize /\ mem[u] = u

(* Every unit of block n of a session with this block size was written.    *)
BlockStored(size, n) ==
    \A u \in BlockFirst(size, n) .. (BlockFirst(size, n) + BlockLen(size, n) - 1) :
        u \in DOMAIN mem

(* The whole file is in memory, and its size is what NetLoop() returns.    *)
WholeFile == DOMAIN mem = 0 .. (FileSize - 1) /\ NetBootFileXferSize = FileSize

StorageInv == StoredIsFile /\ NetBootFileXferSize <= FileSize

(* Where a session is: it has not run past the end of the file.            *)
SessionInv ==
    \A p \in Ports :
        /\ srv[p].size \in OackSizes \cup {PlainSize}
        /\ srv[p].st \in {"free", "oack"} => srv[p].blk = 0
        /\ srv[p].st = "data" => srv[p].blk >= 1
        /\ srv[p].blk >= 1 => BlockFirst(srv[p].size, srv[p].blk) <= FileSize
=============================================================================
