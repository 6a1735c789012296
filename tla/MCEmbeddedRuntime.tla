------------------------- MODULE MCEmbeddedRuntime -------------------------
(* Small instances of EmbeddedRuntime for TLC. *)
EXTENDS EmbeddedRuntime

CONSTANTS p1, t1, t2, a1, a2

OneProc == {p1}
TwoThreads == {t1, t2}
OneDaemon == {t2}
ThreadsOfP == [t \in TwoThreads |-> p1]
TwoAddresses == {a1, a2}

NewServer(source, at, key) == [address |-> None, source |-> source, at |-> at, key |-> key]

\* A new server on a port that is not the default, or an address is given.
CoreArgs == {NewServer("model", a2, None), [NewServer("none", a1, Given) EXCEPT !.address = a2]}
AllFaults == {"client", "crash", "escape", "kill"}
=============================================================================
