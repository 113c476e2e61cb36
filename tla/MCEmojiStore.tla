---------------------------- MODULE MCEmojiStore ----------------------------
(* Instances of EmojiStore with interchangeable emoji, images, goroutines.  *)
EXTENDS EmojiStore, TLC

CONSTANTS n1, n2, n3, u1, u2, p1, p2

Symmetry == Permutations(Names) \cup Permutations(Urls) \cup Permutations(Procs)
=============================================================================
