--------------------------- MODULE MCSessionStore ---------------------------
(* The first clean begun can have two photos and every later one has one.  *)
EXTENDS SessionStore

MCPhotos(c) == IF c = 1 THEN 2 ELSE 1
=============================================================================
