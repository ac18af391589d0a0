--------------------------- MODULE MCSigningKeys ----------------------------
(***************************************************************************)
(* Two processes with a request for a signing key each, and one request    *)
(* for a SAML certificate.                                                 *)
(***************************************************************************)
EXTENDS SigningKeys

MCRequests == {"oidc1", "oidc2", "saml"}
MCUsage == [r \in MCRequests |-> IF r = "saml" THEN "ca" ELSE "signing"]
MCStorage == [r \in MCRequests |-> r]
=============================================================================
