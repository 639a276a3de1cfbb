--------------------------- MODULE MCAdminRotation ---------------------------
(***************************************************************************)
(* Three addresses: an admin, a first successor, and one who comes between.*)
(***************************************************************************)
EXTENDS AdminRotation

CONSTANTS alice, bob, carol, nobody

MCAddress == {alice, bob, carol}
=============================================================================
