------------------------------- MODULE MCSite -------------------------------
(***************************************************************************)
(* One run over what a visitor meets: the response cache, the age of every *)
(* page's data on its way through the caches, the single-page app, the     *)
(* course editor, the random course and the replay viewer.  The parts      *)
(* share no variable here, so `which` picks the part a behaviour is about; *)
(* the others rest, and only the response cache has fairness.              *)
(***************************************************************************)
EXTENDS ResponseCache, ReadApi, Pages, Editor, RandomDealer, ReplayViewer

VARIABLE which
siteVars == <<which, vars, readVars, pageVars, edVars, dealVars, viewerVars>>

Parts == {"cache", "reads", "pages", "clipboard", "shelf", "send", "deal", "viewer"}

(* The parts that are not a route of the read API rest with one of them.   *)
SiteInit ==
  /\ which \in Parts
  /\ Init /\ ReadInit /\ PageInit /\ EdInit /\ DealInit /\ ViewerInit
  /\ which # "reads" => <<rdroute, rdwrite>> = CHOOSE p \in Routes \X Writes : Touches(p[1], p[2])

(* The build button, beside two edits of the course.                       *)
EditorNext == \/ which \in {"clipboard", "shelf"} /\ EdCore
              \/ which = "clipboard" /\ EdClipboard
              \/ which = "shelf" /\ EdShelf
              \/ which = "send" /\ EdCore /\ edits' < MaxEdits
              \/ which = "send" /\ EdSend

SiteNext ==
  /\ UNCHANGED which
  /\ \/ which = "cache" /\ Next /\ UNCHANGED <<readVars, pageVars, edVars, dealVars, viewerVars>>
     \/ which = "reads" /\ ReadNext /\ UNCHANGED <<vars, pageVars, edVars, dealVars, viewerVars>>
     \/ which = "pages" /\ PageNext /\ UNCHANGED <<vars, readVars, edVars, dealVars, viewerVars>>
     \/ EditorNext /\ UNCHANGED <<vars, readVars, pageVars, dealVars, viewerVars>>
     \/ which = "deal" /\ DealNext /\ UNCHANGED <<vars, readVars, pageVars, edVars, viewerVars>>
     \/ which = "viewer" /\ ViewerNext /\ UNCHANGED <<vars, readVars, pageVars, edVars, dealVars>>

(* Handlers finish, Redis executes what it received, a TTL passes; no      *)
(* fairness for FollowTimeout: a follower must not depend on it.           *)
CacheFair ==
  /\ \A r \in Requests : WF_vars(which = "cache" /\ Middleware(r))
  /\ \A n \in Replicas : WF_vars(which = "cache" /\ Execute(n))
  /\ WF_vars(which = "cache" /\ Expire)

SiteSpec == SiteInit /\ [][SiteNext]_siteVars /\ CacheFair

-----------------------------------------------------------------------------
(* In the browser: no page is left to another page's timers or late        *)
(* answers (Pages), the editor's selection, draft and undo stack follow    *)
(* its spec (Editor), a dealt route never crosses itself or the spawn      *)
(* (RandomDealer), and the replay viewer shows one body whenever its       *)
(* models arrive and draws nothing once it is closed (ReplayViewer).       *)
BrowserSound == PageSound /\ EditorSound /\ RouteSound /\ ViewerSound

(* Every request ends and the cache ends up empty or current               *)
(* (ResponseCache); and the dealer never takes the floor out from under a  *)
(* player (RandomDealer).                                                  *)
SiteHonest == EveryRequestEnds /\ EventuallyFresh /\ FloorKept
=============================================================================
