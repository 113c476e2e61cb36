-------------------------- MODULE MCReactionMirror --------------------------
(***************************************************************************)
(* Two refreshes, a message of two parts, and three reactions: two Discord *)
(* ones with different emoji and a Slack one with the emoji of the first.  *)
(***************************************************************************)
EXTENDS ReactionMirror, TLC

CONSTANTS r1, r2, e1, e2, discord1, discord2, slack

MCReactions == {discord1, discord2, slack}
MCDiscord == {discord1, discord2}
MCEmojiOf == discord1 :> e1 @@ discord2 :> e2 @@ slack :> e1
Symmetry == Permutations({r1, r2})

=============================================================================
