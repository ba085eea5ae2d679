----------------------------- MODULE MCLiveSync -----------------------------
(* Small vaults and sessions for TLC.                                      *)
EXTENDS LiveSync

CONSTANTS a, b, x

MCNames == {a, b, x}
MCPaths == {<<a>>, <<a, x>>, <<b>>}
MCMovePaths == {<<a>>, <<a, x>>, <<b>>, <<b, x>>}
MCNestedPaths == {<<a>>, <<a, x>>}
MCSymmetry == Permutations({a, b})
MCNoHazards == {}
(* Hazards that make the index wrong about the disk, not the events about  *)
(* the index.                                                              *)
MCTellable == {"populatedMove", "folderRename", "watchError"}

=============================================================================
