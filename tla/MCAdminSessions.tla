--------------------------- MODULE MCAdminSessions --------------------------
(* Two tabs of one browser. *)
EXTENDS AdminSessions
=============================================================================
