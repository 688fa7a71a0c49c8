---------------------------- MODULE MCGamepadWeb ----------------------------
(***************************************************************************)
(* Instance of GamepadWeb: one tab and one request.  Only the steering     *)
(* frame is configured, so that main adds the base frame: two frames per   *)
(* state.                                                                  *)
(***************************************************************************)
EXTENDS GamepadWeb

CONSTANTS tab, request

MCTabs == {tab}
MCRequests == {request}
MCMapConfig == {}
MCFrameFlags == {"steer"}
=============================================================================
