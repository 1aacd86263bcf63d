----------------------------- MODULE MCConnPairs -----------------------------
(* Small instances of ConnPairs for TLC. *)
EXTENDS ConnPairs

CONSTANTS h1, h2, h3, h4, h5

MoreIdsThanColours == {h1, h2, h3, h4, h5}

=============================================================================
