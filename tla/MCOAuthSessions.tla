--------------------------- MODULE MCOAuthSessions ---------------------------
(* A small instance of OAuthSessions. *)
EXTENDS OAuthSessions

CONSTANTS c1, c2, c3, s1, a1, a2
=============================================================================
