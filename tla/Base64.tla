------------------------------- MODULE Base64 -------------------------------
(***************************************************************************)
(* What the proxy needs of base64 (external: the base64 crate): every      *)
(* three bytes become one group of four characters, and one or two bytes   *)
(* left at the end become a padded group.  A group is written as the bytes *)
(* it stands for, an encoded text as a sequence of groups.                 *)
(***************************************************************************)
EXTENDS Naturals, Sequences

Least(m, n) == IF m <= n THEN m ELSE n

(* The number of bytes of s that fill whole groups.                        *)
Whole(s) == (Len(s) \div 3) * 3

Encode(s) ==
  [i \in 1 .. (Len(s) + 2) \div 3 |-> SubSeq(s, 3 * i - 2, Least(3 * i, Len(s)))]

=============================================================================
