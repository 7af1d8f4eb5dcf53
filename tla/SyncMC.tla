------------------------------- MODULE SyncMC -------------------------------
(***************************************************************************)
(* All trees over five paths, three levels deep, beside a few over three   *)
(* paths that have a space in their names; no key of the bucket is also    *)
(* the name of a directory of the bucket.                                  *)
(***************************************************************************)
EXTENDS Sync, TLC

MCSpaced == {<<3>>, <<3, 1>>, <<3, 1, 1>>}
MCPath == {<<1>>, <<2>>, <<1, 1>>, <<1, 2>>, <<1, 1, 1>>} \cup MCSpaced

\* A spaced file, or nothing, where the bucket has nothing, a file or directories.
MCSpacedKinds ==
    {[k \in MCSpaced |-> IF k = <<3>> THEN kind ELSE "none"] : kind \in {"none", "file"}}

MCLocalTree ==
    {tree \in {plain @@ spaced : plain \in [MCPath \ MCSpaced -> Kind],
                                spaced \in MCSpacedKinds} :
       \A p \in MCPath : tree[p] # "none" => \A q \in Above(p) : tree[q] = "dir"}

MCRemoteTree ==
    {keys \in {plain \cup spaced : plain \in SUBSET (MCPath \ MCSpaced),
                                  spaced \in {{}, {<<3>>}, {<<3, 1, 1>>}}} :
       \A p \in keys : Above(p) \cap keys = {}}

MCExcluded == {<<1, 2>>}
MCNone == {}
=============================================================================
