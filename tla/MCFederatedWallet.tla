------------------------- MODULE MCFederatedWallet -------------------------
(* An instance of FederatedWallet: test network devices a, b and c, mainnet *)
(* devices d and e; a also re-keyed, registered again under another id, and *)
(* registered again under another id and path.                              *)
EXTENDS FederatedWallet

Device(id, fp, path, key, networks, kind) ==
    [id |-> id, fp |-> fp, path |-> path, key |-> key, networks |-> networks,
     kind |-> kind, taproot |-> TRUE]

Everywhere == {"mainnet", "regtest", "liquid"}

a == Device(1, "fa", "p", 5, Everywhere, "test")
aRekeyed == Device(1, "fa", "p", 8, Everywhere, "test")
aReadded == Device(6, "fa", "p", 5, Everywhere, "test")
aOtherPath == Device(7, "fa", "q", 5, Everywhere, "test")
b == Device(2, "fb", "p", 4, Everywhere, "test")
c == Device(3, "fc", "p", 7, {"regtest"}, "test")
d == Device(4, "fd", "p", 6, Everywhere, "main")
e == Device(5, "fe", "p", 3, {"mainnet"}, "main")

EightSigners == {a, aRekeyed, aReadded, aOtherPath, b, c, d, e}
SomeFounders == {<<a, b>>, <<a, b, c>>, <<a>>, <<a, aRekeyed>>, <<a, aReadded>>,
                 <<b, d>>, <<d, e>>}
SomeLists == {<<>>, <<a>>, <<aReadded>>, <<b>>, <<c, c>>, <<c, a>>}

HsmAndTaproot == {<<"Fixed", "Wsh">>, <<"Ranged", "Tr">>}
============================================================================
