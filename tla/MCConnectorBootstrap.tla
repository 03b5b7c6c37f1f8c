-------------------------- MODULE MCConnectorBootstrap --------------------------
(***************************************************************************)
(* ConnectorBootstrap from the first plan of a cluster.                    *)
(***************************************************************************)
EXTENDS ConnectorBootstrap

=============================================================================
