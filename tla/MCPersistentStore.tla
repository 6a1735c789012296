------------------------- MODULE MCPersistentStore -------------------------
(* Small instances of PersistentStore for TLC. *)
EXTENDS PersistentStore, TLC

CONSTANTS k1, k2

TwoKeys == {k1, k2}

Model(n, r, cs) == [name |-> n, rest |-> r, capabilities |-> cs]
Both == {"training", "sampling"}
Config(models, dir, check) ==
    [fields |-> [SUPPORTED_MODELS |-> models, CHECKPOINT_DIR |-> dir,
                 MODEL_OWNER |-> "owner", AUTHORIZED_USERS |-> "keys"],
     check_fields |-> check]

(* The same models in two orders and with other capabilities, another      *)
(* directory that is checked, and a model less.                            *)
Reordered == Config(<<Model("b", 1, {"training"}), Model("a", 1, Both)>>, "dir2", {})
Strict == Config(<<Model("a", 1, Both), Model("b", 1, Both)>>, "dir", {"CHECKPOINT_DIR"})
Other == Config(<<Model("a", 1, Both)>>, "dir", {})
ThreeConfigs == {Reordered, Strict, Other}

\* Keys are alike.
Symmetric == Permutations(TwoKeys)

AllModes == {"FILE", "REDIS"}
WriteFaults == {"write"}
=============================================================================
