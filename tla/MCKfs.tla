------------------------------- MODULE MCKfs --------------------------------
(* Two files, of five words in two blocks and of one word in one block; a  *)
(* block of two sectors of two words.                                       *)
EXTENDS Kfs

MCImage ==
    [a \in 0 .. size - 1 |->
       CASE a = 1 -> 2                                   \* the boot block
         [] a = 4 -> 5 [] a = 5 -> 2 [] a = 6 -> 0       \* inode 0
         [] a = 8 -> 1 [] a = 9 -> 1                     \* inode 1
         [] a \in 12 .. 23 -> 10 + a                     \* the data
         [] OTHER -> 0]
=============================================================================
