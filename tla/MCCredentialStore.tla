--------------------------- MODULE MCCredentialStore ---------------------------
(* CredentialStore with two processes of one request each.                    *)
EXTENDS CredentialStore
================================================================================
