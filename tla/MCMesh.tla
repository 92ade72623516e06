------------------------------- MODULE MCMesh -------------------------------
(***************************************************************************)
(* One run over what the game servers do together without a coordinator:   *)
(* the mesh-wide map vote and the idle servers' choice of a map.  The      *)
(* parts share no variable here, so `which` picks the part a behaviour is  *)
(* about; the other rests, and only the chosen part's fairness is assumed. *)
(***************************************************************************)
EXTENDS MeshVote, IdleFollow

VARIABLE which
meshVars == <<which, mvVars, flVars>>

\* One player on each server: the floor of two needs both.
Crowds == [s \in Tags |-> Slots]
\* The first has not installed the map "x".
RefusedMaps == {<<1, "x">>}
\* One server cannot load the map "x".
MissingMaps == {<<3, "x">>}

MeshInit == which \in {"vote", "follow"} /\ MvInit /\ FlInit

MeshSystem ==
  /\ UNCHANGED which
  /\ \/ which = "vote" /\ MvSystem /\ UNCHANGED flVars
     \/ which = "follow" /\ FlBoxes /\ UNCHANGED mvVars

MeshPlayers ==
  /\ UNCHANGED which
  /\ \/ which = "vote" /\ MvPlayers /\ UNCHANGED flVars
     \/ which = "follow" /\ FlPeople /\ UNCHANGED mvVars

MeshNext == MeshSystem \/ MeshPlayers

(* Frames run, what is sent arrives or is lost, loads end, time passes;    *)
(* nothing makes players open votes, cast or come.                         *)
MeshFair == WF_meshVars(MeshSystem)

MeshSpec == MeshInit /\ [][MeshNext]_meshVars /\ MeshFair

(* A vote that passes takes every server along whatever single event is    *)
(* lost; again and again no vote runs anywhere, and, while players stay    *)
(* where they are, the idle servers have come to the busiest one's map.    *)
MeshSettles == []AllSwitched /\ []<>(VotesEnd /\ Together)
=============================================================================
