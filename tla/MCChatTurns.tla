---------------------------- MODULE MCChatTurns ----------------------------
(***************************************************************************)
(* Two turns of one chat, in one conversation or in two, one code both may *)
(* draw.                                                                   *)
(***************************************************************************)
EXTENDS ChatTurns
=============================================================================
