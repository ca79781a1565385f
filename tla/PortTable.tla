----------------------------- MODULE PortTable -----------------------------
(***************************************************************************)
(* The port table of port_vhash.c as its callers see it: a partial         *)
(* function from keys to items.  A key is a direction of a TCP connection, *)
(* <<source, destination>>, each an address and a port: what a PORT_ITEM   *)
(* holds and PORT_VHash_Compare compares, field by field.                  *)
(***************************************************************************)
\* The same connection in the other direction: pkt_recv swaps the fields.
Rev(key) == <<key[2], key[1]>>

\* PORT_VHash_Add of a key that is absent, and what is stored through the
\* pointer it returns.
Put(table, key, item) ==
  [k \in DOMAIN table \cup {key} |-> IF k = key THEN item ELSE table[k]]

\* PORT_VHash_Del
Without(table, key) == [k \in DOMAIN table \ {key} |-> table[k]]
=============================================================================
