------------------------ MODULE MCProfiledExecution ------------------------
(***************************************************************************)
(* One execution against one interface that can carry no description, the *)
(* desired one, or one of two others.                                     *)
(***************************************************************************)
EXTENDS ProfiledExecution

CONSTANTS d, p, q

MCDescriptions == {None, d, p, q}
=============================================================================
