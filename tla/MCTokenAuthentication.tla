------------------------ MODULE MCTokenAuthentication ------------------------
(* Two users with one token each; u2 is not active. *)
EXTENDS TokenAuthentication

MCTokenOwner == (<<"k">> :> "u1") @@ (<<"k", "k">> :> "u2")

=============================================================================
