------------------------------ MODULE MCVault ------------------------------
(* An instance of Vault: the order of the ids a, b, c is not the order of   *)
(* their keys.  a is also registered again under another id, and under      *)
(* another id and path; h is an HSM without taproot; d is a mainnet device. *)
EXTENDS Vault

Device(id, fp, path, key, kind, taproot) ==
    [id |-> id, fp |-> fp, path |-> path, key |-> key,
     networks |-> {"mainnet", "regtest"}, kind |-> kind, taproot |-> taproot]

a == Device(1, "fa", "p", 5, "test", TRUE)
aReadded == Device(7, "fa", "p", 5, "test", TRUE)
aOtherPath == Device(6, "fa", "q", 5, "test", TRUE)
b == Device(2, "fb", "p", 4, "test", TRUE)
c == Device(3, "fc", "p", 6, "test", TRUE)
d == Device(4, "fd", "p", 2, "main", TRUE)
h == Device(5, "fh", "p", 1, "test", FALSE)

SevenSigners == {a, aReadded, aOtherPath, b, c, d, h}

SomeRosters == {<<a, b, c>>, <<c, b, a>>, <<b, aReadded, c>>, <<aOtherPath, b, c>>,
                <<a, aOtherPath, b>>, <<a, aReadded>>, <<b, h>>, <<b, b>>, <<b, d>>,
                <<b>>, <<>>}
============================================================================
