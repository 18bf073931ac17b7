----------------------------- MODULE MCZoneCycle -----------------------------
(* Values for TLC: lists that grow, shrink and change their order, and one *)
(* that names a zone twice.                                                *)
EXTENDS ZoneCycle

CONSTANTS desk, sink, tub

MCZones == {desk, sink, tub}
MCLists == {<<desk, sink, tub>>, <<tub, desk>>}
MCTwoZones == {desk, sink}
MCUnevenLists == {<<sink, desk, sink>>, <<sink>>}
MCRepeating == {<<desk, desk, sink>>}
=============================================================================
