-------------------------- MODULE MCReleaseChannel --------------------------
(* A small instance of ReleaseChannel: two builds, the newer of which the  *)
(* second runtime does not admit; what is signed for it, and restorations, *)
(* are issued at the second tick of the clock.                             *)
EXTENDS ReleaseChannel, TLC

CONSTANTS b1, b2

Ranks == (b1 :> 1) @@ (b2 :> 2)
Ranges == (b1 :> {1, 2}) @@ (b2 :> {1})

Release(c, n, b) ==
  [kind |-> "release", channel |-> c, seq |-> n, build |-> b,
   issued |-> Ranks[b], target |-> Nothing]
BackTo(t, n, b) ==
  [kind |-> "restoration", channel |-> t.channel, seq |-> n, build |-> b,
   issued |-> 2, target |-> t]

\* Rival promotions of either build, and restorations of the first release
\* of a channel, right ones and some that must be refused.
Actions ==
  {Release(c, n, b) : c \in Channels, n \in 1 .. 2, b \in {b1, b2}}
    \cup {BackTo(Release(c, 1, b1), 3, b1) : c \in Channels}
    \cup {BackTo(Release("canary", 1, b1), 2, b1), BackTo(Release("canary", 1, b1), 3, b2),
          BackTo(Release("canary", 2, b2), 3, b2)}
=============================================================================
