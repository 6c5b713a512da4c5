------------------------------- MODULE MCBoot -------------------------------
(* Boot for TLC.  The inodes are interchangeable, and states are told apart  *)
(* by what can still be read: not by the last save of a saver at rest, nor   *)
(* by inodes that nothing points at.                                         *)
EXTENDS Boot, TLC

InodeSymmetry == Permutations(Inode)

Readable ==
  <<pc, fd, tmp, live, [i \in Inode |-> IF i \in Free THEN Empty ELSE content[i]],
    [p \in Saver |-> IF p \in Busy THEN <<session[p], alone[p]>> ELSE <<>>], saves, crashes,
    slots, process, wish, counts>>
=============================================================================
