------------------------------- MODULE MCBoot -------------------------------
(***************************************************************************)
(* Cards for Boot.  Sectors have 16 bytes, so that one holds pairs of      *)
(* words and the reader goes on from one pair to the next; the image has   *)
(* two sectors.  The cards differ in file system, table of partitions,     *)
(* sectors in a cluster, order of the clusters, place in the directory,    *)
(* end of the chain, length of the file and where it begins.               *)
(***************************************************************************)
EXTENDS Boot, TLC

(* The kernel reaches into the last word of the image.                     *)
Kernel == <<1, 2, 0, 1, 2, 2, 1, 0, 0, 2, 1, 1, 2, 1, 2, 1, 0, 1, 1, 2, 2, 1, 0, 2, 1, 1, 2, 1>>
Bbl    == <<2, 1, 1, 0, 1, 2, 2, 2, 1, 0, 1, 2, 0, 1, 1, 2, 1>>
Dtb    == <<1, 2, 1, 1, 0, 2, 1>>
NuttxImage == initmem_nuttx(Kernel)
LinuxImage == initmem_linux(Bbl, Dtb)

(* The file may be cut, or have bytes after the image.                     *)
Cut(image, size) == [i \in 0 .. size - 1 |-> IF i \in DOMAIN image THEN image[i] ELSE 1]

(* The clusters of the file, as the table has them.                        *)
Followed(c) ==
  LET chain[n \in Clusters(c)] == IF n = 0 THEN c.first ELSE c.next[chain[n - 1]]
  IN  [c EXCEPT !.chain = chain]

Fat32 ==
  [fs |-> "FAT32", dbr |-> 1, spc |-> 1, root |-> 2, in |-> 1, first |-> 5, chain |-> <<>>,
   next |-> (2 :> EOC @@ 5 :> 3 @@ 3 :> EOC), size |-> DRAM_SIZE,
   data |-> NuttxImage, sums |-> sums(NuttxImage), kernel |-> Kernel, dtb |-> <<>>]
Fat16 ==
  [Fat32 EXCEPT !.fs = "FAT16", !.dbr = 0, !.spc = 2, !.first = 3, !.next = (3 :> EOC_OTHER)]
Linux ==
  [Fat32 EXCEPT !.spc = 2, !.root = 4, !.in = 3, !.first = 3,
                !.next = (4 :> 2 @@ 2 :> EOC @@ 3 :> EOC_OTHER),
                !.data = LinuxImage, !.sums = sums(LinuxImage),
                !.kernel = Bbl, !.dtb = Dtb]
Longer(c, size) == [c EXCEPT !.size = size, !.data = Cut(c.data, size)]

(* Files that begin where two bytes do not tell: the reader goes to a      *)
(* cluster that leads nowhere, to one that leads on until the image is     *)
(* full, and before the first sector of the card.                          *)
HighCards ==
  {Followed(c) : c \in
   {[Fat32 EXCEPT !.first = 11, !.next = (2 :> EOC @@ 11 :> 5 @@ 5 :> EOC)],
    [Fat32 EXCEPT !.first = 11, !.next = (2 :> EOC @@ 11 :> 5 @@ 5 :> EOC @@ 3 :> 5)],
    [Fat32 EXCEPT !.dbr = 0, !.spc = 2, !.first = 8, !.next = (2 :> EOC @@ 8 :> EOC)]}}

MCCards == HighCards \cup
  {Followed(c) : c \in
   {Fat32, Fat16, Linux,
    [Fat16 EXCEPT !.spc = 1, !.first = 2, !.next = (2 :> 3 @@ 3 :> EOC)],
    [Fat32 EXCEPT !.in = 2, !.next = (2 :> 4 @@ 4 :> EOC @@ 5 :> 3 @@ 3 :> EOC)],
    Longer([Fat32 EXCEPT !.next = (2 :> EOC @@ 5 :> 3 @@ 3 :> 6 @@ 6 :> EOC)], 38),
    Longer([Fat16 EXCEPT !.next = (3 :> 5 @@ 5 :> EOC)], 36),
    Longer(Fat32, 22),                          \* cut short
    [Fat32 EXCEPT !.in = 0], [Fat16 EXCEPT !.in = 0],   \* not on the card
    [Fat32 EXCEPT !.fs = "OTHER"]}}
=============================================================================
