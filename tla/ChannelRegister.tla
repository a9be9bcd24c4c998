---------------------------- MODULE ChannelRegister ----------------------------
(***************************************************************************)
(* What a release channel promises: a log of signed actions per channel.   *)
(* A promotion goes above every version promoted before it, stable only    *)
(* takes what canary has promoted, and a restoration goes back to a        *)
(* release of its own channel.                                             *)
(***************************************************************************)
EXTENDS Integers, Sequences

CONSTANTS Channels, Actions, Version

VARIABLE applied   \* the actions of each channel, in the order they took effect

Init == applied = [c \in Channels |-> <<>>]

Promoted(c) ==
  {applied[c][n] : n \in {k \in DOMAIN applied[c] : applied[c][k].kind = "release"}}

Active(a) == IF a.kind = "release" THEN a ELSE a.target

Promote(a) ==
  /\ a.kind = "release"
  /\ \A p \in Promoted(a.channel) : Version[p.build] < Version[a.build]
  /\ a.channel = "stable" => \E p \in Promoted("canary") : p.build = a.build

Restore(a) ==
  /\ a.kind = "restoration"
  /\ a.target \in Promoted(a.channel)
  /\ a.build = a.target.build
  /\ a.target # Active(applied[a.channel][Len(applied[a.channel])])

Apply(a) ==
  /\ a.seq = Len(applied[a.channel]) + 1
  /\ Promote(a) \/ Restore(a)
  /\ applied' = [applied EXCEPT ![a.channel] = Append(@, a)]

Next == \E a \in Actions : Apply(a)

RegisterSpec == Init /\ [][Next]_applied
=============================================================================
