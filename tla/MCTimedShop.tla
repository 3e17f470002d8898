---------------------------- MODULE MCTimedShop ----------------------------
(***************************************************************************)
(* TimedShop for TLC.  A unit is thirty seconds for the login and the       *)
(* notifications and five seconds for the chat.                            *)
(***************************************************************************)
EXTENDS TimedShop

AllKeys == {"captcha", "login", "relogin"}
=============================================================================
