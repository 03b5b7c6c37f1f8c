------------------------------- MODULE MCOutbox -------------------------------
(***************************************************************************)
(* Three transactions, two of them of one customer, which is enough for    *)
(* two versions of one customer to be created in the wrong order, for a    *)
(* full batch to leave a row behind and for two publishers to overlap.     *)
(***************************************************************************)
EXTENDS Outbox, TLC

CONSTANTS c1, c2

MCCustomer == {c1, c2}
MCCustomerOf == (1 :> c1) @@ (2 :> c1) @@ (3 :> c2)

=============================================================================
