----------------------------- MODULE MCMirrorer -----------------------------
(* A small instance of Mirrorer for TLC.                                   *)
EXTENDS Mirrorer

CONSTANTS p1, z1, z2

Mod(sha1, source, zip) ==
  [can_mirror |-> TRUE, sha1 |-> sha1, source |-> source, zip |-> zip]

OnePath == {p1}
MCZips == {z1, z2}

\* Releases of a mod with source, of one without a hash, and of one that must
\* not be mirrored.
Mixed ==
  {Mod(TRUE, TRUE, z1), Mod(FALSE, FALSE, z2),
   [Mod(TRUE, FALSE, z2) EXCEPT !.can_mirror = FALSE]}
=============================================================================
