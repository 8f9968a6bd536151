--------------------------------- MODULE Menu ---------------------------------
(***************************************************************************)
(* The navigation menu (components/NavSidebar, NavControl, scenes/Main).   *)
(* The user opens and closes it; on a small screen it closes by itself,    *)
(* and comes back when there is room again; and the login page, where it   *)
(* makes no sense, disables it.  Its state survives a reload.              *)
(***************************************************************************)
VARIABLES nav,     \* the store
          atLogin, \* whether the login page is mounted
          left     \* history: whether the user left the menu open

menuVars == <<nav, atLogin, left>>

MenuInit ==
  /\ nav = [active |-> TRUE, enabled |-> TRUE, responsive |-> "multiple",
            activateOnMultiple |-> FALSE]
  /\ atLogin = FALSE
  /\ left = TRUE

includeNav == nav.active /\ nav.enabled

\* Faulty variant: what the screen did is not forgotten.
ActivateRemembers(active) ==
  /\ IF active THEN ~atLogin /\ ~nav.active ELSE includeNav
  /\ nav' = [nav EXCEPT !.active = active]
  /\ left' = active
  /\ UNCHANGED atLogin

\* The logo in the title of a page, which is a button while the menu is not
\* active, and the close button of the menu.
navActivate(active) ==
  /\ IF active THEN ~atLogin /\ ~nav.active ELSE includeNav
  /\ nav' = [nav EXCEPT !.active = active, !.activateOnMultiple = FALSE]
  /\ left' = active
  /\ UNCHANGED atLogin

\* Split reports how many columns fit.
navResponsive(columns) ==
  /\ nav' = CASE columns = "single" /\ nav.active ->
                   [nav EXCEPT !.responsive = columns, !.active = FALSE,
                               !.activateOnMultiple = TRUE]
              [] columns = "multiple" /\ nav.activateOnMultiple ->
                   [nav EXCEPT !.responsive = columns, !.active = TRUE]
              [] OTHER -> [nav EXCEPT !.responsive = columns]
  /\ UNCHANGED <<atLogin, left>>

\* Login is mounted and unmounted.
ShowLogin ==
  /\ atLogin' = ~atLogin
  /\ nav' = [nav EXCEPT !.enabled = atLogin]
  /\ UNCHANGED left

\* The login page is left by loading another one: it is not unmounted, and
\* what it disabled stays disabled.
ReloadElsewhere ==
  /\ atLogin
  /\ atLogin' = FALSE
  /\ UNCHANGED <<nav, left>>

MenuNext ==
  \/ \E active \in BOOLEAN : navActivate(active)
  \/ \E columns \in {"single", "multiple"} : navResponsive(columns)
  \/ ShowLogin \/ ReloadElsewhere

MenuSpec == MenuInit /\ [][MenuNext]_menuVars

-----------------------------------------------------------------------------
(* Properties *)

\* Where there is room the menu is as the user left it, however often the
\* screen became too small and large enough again meanwhile, and wherever on
\* the way the user opened or closed it.
MenuAsLeft == nav.responsive = "multiple" => nav.active = left
=============================================================================
