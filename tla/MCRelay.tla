------------------------------ MODULE MCRelay ------------------------------
(* An instance of Relay: three devices, of which a may be re-keyed.         *)
EXTENDS Relay

Device(id, fp, key) ==
    [id |-> id, fp |-> fp, path |-> "p", key |-> key, networks |-> {"regtest"},
     kind |-> "test", taproot |-> TRUE]

a == Device(1, "fa", 5)
aRekeyed == Device(1, "fa", 8)
b == Device(2, "fb", 4)
c == Device(3, "fc", 7)

FourSigners == {a, aRekeyed, b, c}
Founder == {<<a, b>>}
NoLists == {}
Segwit == {<<"Ranged", "Wsh">>}
============================================================================
