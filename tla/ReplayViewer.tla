---- MODULE ReplayViewer ----
(***************************************************************************)
(* The 3D replay viewer (web/public/assets/js/replay.js) from its mount to *)
(* its cleanup.  The mount waits for the ghost and the map's mesh; the     *)
(* player's models are fetched in the background once the viewer is up,    *)
(* and nothing cancels that fetch: it may end after the cleanup.           *)
(* Colours, effect markers and the camera's path are left out.             *)
(***************************************************************************)
EXTENDS Naturals

CONSTANT Frames     \* frames of the recorded run

ASSUME FramesAssumption == Frames \in Nat /\ Frames >= 2

VARIABLES phase,    \* ghost, mesh, view, closed, or failed
          loader,   \* the background download: its file and the attempt
          pig,      \* the rigged player and the first-person weapon exist
          shown,    \* which of cone, pig and weapon are visible
          camMode,  \* pov or chase
          ctrlHeld, \* what the viewer believes of the Ctrl key
          orbit,    \* controls.enabled
          key,      \* the Ctrl key itself
          focus,    \* the window has the keyboard
          playing,
          pos,      \* playback position, in half frames
          frame,    \* the frames last sampled: the pair and the nearest
          raf,      \* a tick is scheduled
          geometry  \* what the scene holds and has not disposed

viewerVars == <<phase, loader, pig, shown, camMode, ctrlHeld, orbit, key, focus,
                playing, pos, frame, raf, geometry>>

Tries == 3
Files == {"meta", "pig", "weapon"}
End == 2 * (Frames - 1)     \* duration, in half frames
NoFrame == <<0, 0>>

ViewerInit ==
  /\ phase = "ghost" /\ loader = <<"idle", 0>> /\ pig = FALSE /\ shown = {"cone"}
  /\ camMode = "pov" /\ ctrlHeld = FALSE /\ orbit = FALSE /\ key = FALSE /\ focus = TRUE
  /\ playing = TRUE /\ pos = 0 /\ frame = NoFrame /\ raf = FALSE /\ geometry = {}

(* setMode, as the visible parts and the orbit controls it leaves. *)
Rendered(m, rigged) == IF m = "pov" THEN IF rigged THEN {"weapon"} ELSE {}
                      ELSE IF rigged THEN {"pig"} ELSE {"cone"}
setMode(m, rigged) ==
  /\ camMode' = m
  /\ shown' = Rendered(m, rigged)
  /\ orbit' = (ctrlHeld /\ m = "chase")

(* A ghost of fewer than two frames, or none, makes the mount throw.  The  *)
(* mesh may fail or run into its 12 s: the viewer then shows the line.     *)
fetchGhost ==
  /\ phase = "ghost" /\ phase' \in {"mesh", "failed"}
  /\ UNCHANGED <<loader, pig, shown, camMode, ctrlHeld, orbit, key, focus, playing, pos, frame, raf, geometry>>

mountReplay ==
  /\ phase = "mesh" /\ phase' = "view"
  /\ \E mesh \in {{}, {"mesh"}} : geometry' = {"scene"} \cup mesh
  /\ setMode("pov", pig)
  /\ raf' = TRUE /\ loader' = <<"timer", 0>>
  /\ UNCHANGED <<pig, ctrlHeld, key, focus, playing, pos, frame>>

(* tick: time passes while playing, and the run loops; sampleInto then     *)
(* reads the pair of frames around the position and the nearest of them.   *)
tick(d) ==
  /\ raf
  /\ pos' = IF ~playing THEN pos ELSE IF pos + d >= End THEN 0 ELSE pos + d
  /\ LET x == pos' \div 2
         i == IF x > Frames - 2 THEN Frames - 2 ELSE x
     IN frame' = <<i, IF pos' - 2 * i < 1 THEN i ELSE i + 1>>
  /\ UNCHANGED <<phase, loader, pig, shown, camMode, ctrlHeld, orbit, key, focus, playing, raf, geometry>>

clickPlay ==
  /\ phase = "view" /\ playing' = ~playing
  /\ UNCHANGED <<phase, loader, pig, shown, camMode, ctrlHeld, orbit, key, focus, pos, frame, raf, geometry>>

dragSeek(x) ==
  /\ phase = "view" /\ pos' = x /\ playing' = FALSE
  /\ UNCHANGED <<phase, loader, pig, shown, camMode, ctrlHeld, orbit, key, focus, frame, raf, geometry>>

clickCam ==
  /\ phase = "view"
  /\ setMode(IF camMode = "pov" THEN "chase" ELSE "pov", pig)
  /\ UNCHANGED <<phase, loader, pig, ctrlHeld, key, focus, playing, pos, frame, raf, geometry>>

(* The Ctrl key goes down (again, when it repeats) or up; the viewer hears *)
(* it while it is mounted and the window has the keyboard.                 *)
onKey(down) ==
  /\ phase # "failed" /\ (down \/ key)
  /\ key' = down
  /\ IF phase = "view" /\ focus
     THEN ctrlHeld' = down /\ orbit' = (down /\ camMode = "chase")
     ELSE UNCHANGED <<ctrlHeld, orbit>>
  /\ UNCHANGED <<phase, loader, pig, shown, camMode, focus, playing, pos, frame, raf, geometry>>

(* The window loses the keyboard: a release from here on goes unheard. *)
onBlur ==
  /\ focus /\ focus' = FALSE
  /\ IF phase = "view" THEN ctrlHeld' = FALSE /\ orbit' = FALSE
     ELSE UNCHANGED <<ctrlHeld, orbit>>
  /\ UNCHANGED <<phase, loader, pig, shown, camMode, key, playing, pos, frame, raf, geometry>>

onFocus ==
  /\ ~focus /\ focus' = TRUE
  /\ UNCHANGED <<phase, loader, pig, shown, camMode, ctrlHeld, orbit, key, playing, pos, frame, raf, geometry>>

(* loadModels: half a second after the mount, the rig's description once,  *)
(* then the two models in turn, each tried Tries times with a timeout.     *)
NextFile(file) == CASE file = "timer" -> "meta" [] file = "meta" -> "pig" [] OTHER -> "weapon"

loadNext ==
  /\ loader[1] \in {"timer", "meta", "pig"} /\ loader' = <<NextFile(loader[1]), 1>>
  /\ UNCHANGED <<phase, pig, shown, camMode, ctrlHeld, orbit, key, focus, playing, pos, frame, raf, geometry>>

loadGltfFails ==
  /\ loader[1] \in Files
  /\ loader' = IF loader[1] = "meta" \/ loader[2] = Tries THEN <<"gaveUp", 0>>
               ELSE <<loader[1], loader[2] + 1>>
  /\ UNCHANGED <<phase, pig, shown, camMode, ctrlHeld, orbit, key, focus, playing, pos, frame, raf, geometry>>

(* Both arrived: they join the scene, and the mode decides what is seen. *)
loadModels ==
  /\ loader[1] = "weapon" /\ loader' = <<"done", 0>>
  /\ pig' = TRUE /\ geometry' = geometry \cup {"models"}
  /\ setMode(camMode, TRUE)
  /\ UNCHANGED <<phase, ctrlHeld, key, focus, playing, pos, frame, raf>>

(* The router leaves the page.  The download goes on. *)
cleanup ==
  /\ phase = "view" /\ phase' = "closed"
  /\ raf' = FALSE /\ geometry' = {}
  /\ UNCHANGED <<loader, pig, shown, camMode, ctrlHeld, orbit, key, focus, playing, pos, frame>>

ViewerNext ==
  \/ fetchGhost \/ mountReplay \/ clickPlay \/ clickCam \/ cleanup
  \/ \E d \in 1..2 : tick(d)
  \/ \E x \in 0..End : dragSeek(x)
  \/ \E down \in BOOLEAN : onKey(down)
  \/ onBlur \/ onFocus
  \/ loadNext \/ loadGltfFails \/ loadModels

ViewerSpec == ViewerInit /\ [][ViewerNext]_viewerVars

----
(* Whatever order the models, the mode switches and the cleanup come in,   *)
(* exactly one body is seen in chase (the cone until the pig is there) and *)
(* none but the weapon in first person (setMode, loadModels).              *)
OneBody ==
  phase = "view" =>
    /\ shown \cap {"cone", "pig"} = IF camMode = "pov" THEN {} ELSE IF pig THEN {"pig"} ELSE {"cone"}
    /\ "weapon" \in shown <=> pig /\ camMode = "pov"

(* The camera orbits only while Ctrl really is down, though a release may  *)
(* happen where the viewer cannot hear it (onKey, onBlur).                 *)
OrbitIsHeld == phase = "view" /\ orbit => key /\ camMode = "chase"

(* A tick never reads a frame past the recording, not even with the        *)
(* slider at the end (sampleInto).                                         *)
OnRecord == frame[1] + 1 <= Frames - 1 /\ frame[2] <= Frames - 1

(* After the cleanup no frame is drawn, and what stays allocated is at     *)
(* most the models of a download that was under way (cleanup, loadModels). *)
NothingDrawn == phase = "closed" => ~raf /\ geometry \subseteq {"models"}

(* Why they hold: a mode is rendered when it is set and when the models     *)
(* come; the viewer believes in a key only while it can hear its release.   *)
ViewerInv ==
  /\ pig \in BOOLEAN /\ raf \in BOOLEAN /\ camMode \in {"pov", "chase"} /\ pos \in 0..End
  /\ phase \in {"ghost", "mesh", "failed"} => loader[1] = "idle" /\ ~ctrlHeld /\ ~raf
  /\ phase = "view" => /\ shown = Rendered(camMode, pig)
                       /\ orbit => ctrlHeld /\ camMode = "chase"
                       /\ ctrlHeld => key /\ focus
  /\ frame \in (0..Frames) \X (0..Frames) /\ OnRecord /\ NothingDrawn

ViewerSound == OneBody /\ OrbitIsHeld /\ OnRecord /\ NothingDrawn
====
